---------------------------- MODULE PurchaseProofs -----------------------------
(* Theorems about purchasing: orders, their mails and receipts, for any        *)
(* number of senders, orders and lines; supplier bills, for any number of      *)
(* bills, payments and concurrent requests, and any invoices.                  *)
EXTENDS MCPurchaseStock, SupplierBills, SumTheorems

(* The orders and the stock *)

USE StockAssumption

Received == {"PARTIALLY_RECEIVED", "RECEIVED"}
Sent == Received \cup {"SENT", "CANCELLED"}
Holds(s) == send[s].at \in {"claimed", "failed"}

(* The types that the orders and their sending rest on.                        *)
ColumnsInv ==
    /\ orderStatus \in [Orders -> OrderStatuses]
    /\ mailed \in [Orders -> Nat] /\ doubted \in [Orders -> Nat]
    /\ send \in [Senders -> {Idle} \cup [at : {"looked", "claimed", "failed"},
                                         order : Orders, stamp : Nat]]
    /\ claims \in Nat
    /\ qtyReceived \in [Lines -> Nat]

(* A claim in hand is the only one of its order, which is sent, and no mail of *)
(* it is known to have gone.                                                   *)
HoldInv ==
    \A s \in Senders : Holds(s) =>
        /\ orderStatus[send[s].order] \in Sent /\ mailed[send[s].order] = doubted[send[s].order]
        /\ \A t \in Senders : Holds(t) /\ send[t].order = send[s].order => t = s

SendInv == ColumnsInv /\ HoldInv /\ MailedAgainOnlyInDoubt /\ NothingStranded

--------------------------------------------------------------------------------

LEMMA StatusKinds ==
  /\ OrderStatuses = {"DRAFT", "AWAITING_APPROVAL", "APPROVED", "SENT", "PARTIALLY_RECEIVED",
                      "RECEIVED", "CANCELLED"}
  /\ Sent \subseteq OrderStatuses /\ Received \subseteq Sent
  /\ \A x \in OrderStatuses : x \notin Sent <=> x \in {"DRAFT", "AWAITING_APPROVAL", "APPROVED"}
BY DEF OrderStatuses, OrderTransitions, Sent, Received

LEMMA Transitions ==
  ASSUME ColumnsInv, NEW o \in Orders, NEW to, MayBecome(o, to)
  PROVE  /\ to \in OrderStatuses
         /\ orderStatus[o] \in Sent => to \in {"PARTIALLY_RECEIVED", "RECEIVED", "CANCELLED"}
         /\ orderStatus[o] \in Received => to = "RECEIVED"
         /\ to = "SENT" => orderStatus[o] = "APPROVED"
<1>1. orderStatus[o] \in {"DRAFT", "AWAITING_APPROVAL", "APPROVED", "SENT", "PARTIALLY_RECEIVED",
                          "RECEIVED", "CANCELLED"}
  BY StatusKinds DEF ColumnsInv
<1> QED
  BY <1>1, StatusKinds DEF MayBecome, OrderTransitions, Sent, Received

LEMMA SenderKinds ==
  ASSUME ColumnsInv, NEW s \in Senders, send[s].at \in {"looked", "claimed", "failed"}
  PROVE  send[s] \in [at : {"looked", "claimed", "failed"}, order : Orders, stamp : Nat]
BY DEF ColumnsInv, Idle

(* An order moves on: what is sent stays sent, what has received goods stays   *)
(* received, and goods only reach its own lines.                               *)
LEMMA OrderMoves ==
  ASSUME ColumnsInv, NEW o \in Orders, OrderStep(o)
  PROVE  /\ UNCHANGED <<claims, mailed, doubted, send>>
         /\ qtyReceived' \in [Lines -> Nat]
         /\ \E to \in OrderStatuses :
                /\ orderStatus' = [orderStatus EXCEPT ![o] = to]
                /\ orderStatus[o] \in Sent => to \in Sent
                /\ orderStatus[o] \in Received => to \in Received
                /\ \A l \in Lines : OrderOf[l] # o \/ to \notin Received =>
                       qtyReceived'[l] = qtyReceived[l]
<1>1. ASSUME NEW to, MayBecome(o, to), Become(o, to), UNCHANGED <<claims, mailed, doubted, send, qtyReceived>>
      PROVE  /\ UNCHANGED <<claims, mailed, doubted, send>>
             /\ qtyReceived' \in [Lines -> Nat]
             /\ \E x \in OrderStatuses :
                    /\ orderStatus' = [orderStatus EXCEPT ![o] = x]
                    /\ orderStatus[o] \in Sent => x \in Sent
                    /\ orderStatus[o] \in Received => x \in Received
                    /\ \A l \in Lines : OrderOf[l] # o \/ x \notin Received =>
                           qtyReceived'[l] = qtyReceived[l]
  BY <1>1, Transitions DEF Become, ColumnsInv, Sent, Received
<1>2. CASE Submit(o)
  BY <1>1, <1>2 DEF Submit
<1>3. CASE Reopen(o)
  BY <1>1, <1>3 DEF Reopen
<1>4. CASE ApproveOrder(o)
  BY <1>1, <1>4 DEF ApproveOrder
<1>5. CASE CloseShort(o)
  BY <1>1, <1>5 DEF CloseShort
<1>6. CASE CancelOrder(o)
  BY <1>1, <1>6 DEF CancelOrder
<1>7. ASSUME NEW qty \in [Lines -> 0..1], ReceiveGoods(o, qty)
      PROVE  /\ UNCHANGED <<claims, mailed, doubted, send>>
             /\ qtyReceived' \in [Lines -> Nat]
             /\ \E x \in OrderStatuses :
                    /\ orderStatus' = [orderStatus EXCEPT ![o] = x]
                    /\ orderStatus[o] \in Sent => x \in Sent
                    /\ orderStatus[o] \in Received => x \in Received
                    /\ \A l \in Lines : OrderOf[l] # o \/ x \notin Received =>
                           qtyReceived'[l] = qtyReceived[l]
  <2>1. /\ UNCHANGED <<claims, mailed, doubted, send>>
        /\ qtyReceived' = [l \in Lines |-> qtyReceived[l] + qty[l]]
        /\ \A l \in Lines : qty[l] > 0 => OrderOf[l] = o
        /\ \E x \in Received : orderStatus' = [orderStatus EXCEPT ![o] = x]
    BY <1>7 DEF ReceiveGoods, Become, Received
  <2>2. \A l \in Lines : OrderOf[l] # o => qty[l] = 0
    BY <2>1
  <2>3. qtyReceived \in [Lines -> Nat] /\ \A l \in Lines : qty[l] \in Nat
    BY DEF ColumnsInv
  <2>4. qtyReceived' \in [Lines -> Nat]
    BY <2>1, <2>3
  <2>5. \A l \in Lines : OrderOf[l] # o => qtyReceived'[l] = qtyReceived[l]
    BY <2>1, <2>2, <2>3
  <2> QED
    BY <2>1, <2>4, <2>5, StatusKinds
<1> QED
  BY <1>2, <1>3, <1>4, <1>5, <1>6, <1>7 DEF OrderStep

LEMMA OrderSteps == ASSUME SendInv, NEW o \in Orders, OrderStep(o) PROVE SendInv'
<1>1. ColumnsInv /\ UNCHANGED <<claims, mailed, doubted, send>> /\ qtyReceived' \in [Lines -> Nat]
  BY OrderMoves DEF SendInv
<1>2. PICK to \in OrderStatuses :
         /\ orderStatus' = [orderStatus EXCEPT ![o] = to]
         /\ orderStatus[o] \in Sent => to \in Sent
         /\ orderStatus[o] \in Received => to \in Received
         /\ \A l \in Lines : OrderOf[l] # o \/ to \notin Received => qtyReceived'[l] = qtyReceived[l]
  BY <1>1, OrderMoves
<1>3. /\ orderStatus' \in [Orders -> OrderStatuses] /\ orderStatus'[o] = to
      /\ \A p \in Orders \ {o} : orderStatus'[p] = orderStatus[p]
  BY <1>1, <1>2 DEF ColumnsInv
<1>4. \A p \in Orders : orderStatus[p] \in Sent => orderStatus'[p] \in Sent
  BY <1>2, <1>3
<1>5. HoldInv'
  <2> SUFFICES ASSUME NEW s \in Senders, Holds(s)'
               PROVE  /\ orderStatus'[send'[s].order] \in Sent /\ mailed'[send'[s].order] = doubted'[send'[s].order]
                      /\ \A t \in Senders : Holds(t)' /\ send'[t].order = send'[s].order => t = s
    BY DEF HoldInv
  <2>1. send[s].order \in Orders /\ Holds(s) /\ \A t \in Senders : Holds(t)' <=> Holds(t)
    BY <1>1, SenderKinds DEF Holds
  <2> QED
    BY <1>1, <1>4, <2>1 DEF SendInv, HoldInv
<1>6. MailedAgainOnlyInDoubt'
  BY <1>1, <1>3, <1>4, StatusKinds DEF SendInv, MailedAgainOnlyInDoubt, ColumnsInv
<1>7. NothingStranded'
  <2> SUFFICES ASSUME NEW p \in Orders, orderStatus'[p] \notin Received, NEW l \in LinesOf(p)
               PROVE  qtyReceived'[l] = 0
    BY DEF NothingStranded, LinesOf, Received
  <2>1. l \in Lines /\ OrderOf[l] = p
    BY DEF LinesOf
  <2>2. orderStatus[p] \notin Received
    BY <1>2, <1>3
  <2>3. qtyReceived[l] = 0
    BY <2>1, <2>2 DEF SendInv, NothingStranded, LinesOf, Received
  <2> QED
    BY <1>2, <1>3, <2>1, <2>3
<1> QED
  BY <1>1, <1>3, <1>5, <1>6, <1>7 DEF SendInv, ColumnsInv

(* A sending request, which holds at most the order it held before. *)
LEMMA SenderMoves ==
  ASSUME SendInv, NEW s \in Senders,
         NEW x \in {Idle} \cup [at : {"looked", "claimed", "failed"}, order : Orders, stamp : Nat],
         send' = [send EXCEPT ![s] = x],
         x.at \in {"claimed", "failed"} =>
             /\ x.order \in Orders /\ orderStatus'[x.order] \in Sent /\ mailed'[x.order] = doubted'[x.order]
             /\ \A t \in Senders \ {s} : Holds(t) => send[t].order # x.order,
         \A t \in Senders \ {s} : Holds(t) =>
             /\ orderStatus'[send[t].order] \in Sent /\ mailed'[send[t].order] = doubted'[send[t].order],
         orderStatus' \in [Orders -> OrderStatuses], mailed' \in [Orders -> Nat] /\ doubted' \in [Orders -> Nat], claims' \in Nat,
         MailedAgainOnlyInDoubt', NothingStranded', UNCHANGED qtyReceived
  PROVE  SendInv'
<1>1. /\ send' \in [Senders -> {Idle} \cup [at : {"looked", "claimed", "failed"},
                                            order : Orders, stamp : Nat]]
      /\ send'[s] = x /\ \A t \in Senders \ {s} : send'[t] = send[t]
  BY DEF SendInv, ColumnsInv
<1>2. HoldInv'
  BY <1>1 DEF SendInv, HoldInv, Holds
<1> QED
  BY <1>1, <1>2 DEF SendInv, ColumnsInv

LEMMA SendSteps == ASSUME SendInv, NEW s \in Senders, SendStep(s) PROVE SendInv'
<1> DEFINE Place == [at : {"looked", "claimed", "failed"}, order : Orders, stamp : Nat]
<1>0. ColumnsInv /\ UNCHANGED qtyReceived /\ Idle.at = "idle"
  BY DEF SendInv, SendStep, LookBeforeSend, MarkSent, LoseClaim, MailGoesOut, MailFails,
         RevertSent, SenderDies, Idle
<1>1. ASSUME NEW x \in {Idle} \cup Place, send' = [send EXCEPT ![s] = x],
             x.at \in {"claimed", "failed"} => Holds(s) /\ x.order = send[s].order,
             UNCHANGED <<orderStatus, claims, mailed, doubted>>
      PROVE  SendInv'
  <2>1. x.at \in {"claimed", "failed"} => x.order \in Orders
    BY <1>0, <1>1, SenderKinds DEF Holds
  <2>2. MailedAgainOnlyInDoubt' /\ NothingStranded'
    BY <1>0, <1>1 DEF SendInv, MailedAgainOnlyInDoubt, NothingStranded, LinesOf
  <2>3. /\ orderStatus' \in [Orders -> OrderStatuses] /\ mailed' \in [Orders -> Nat] /\ doubted' \in [Orders -> Nat] /\ claims' \in Nat
    BY <1>0, <1>1 DEF ColumnsInv
  <2>4. \A t \in Senders \ {s} : Holds(t) =>
            orderStatus'[send[t].order] \in Sent /\ mailed'[send[t].order] = doubted'[send[t].order]
    BY <1>1 DEF SendInv, HoldInv
  <2>5. x.at \in {"claimed", "failed"} =>
            /\ x.order \in Orders /\ orderStatus'[x.order] \in Sent /\ mailed'[x.order] = doubted'[x.order]
            /\ \A t \in Senders \ {s} : Holds(t) => send[t].order # x.order
    BY <1>1, <2>1 DEF SendInv, HoldInv
  <2> QED
    BY <1>0, <1>1, <2>2, <2>3, <2>4, <2>5, SenderMoves
<1>2. ASSUME NEW o \in Orders, LookBeforeSend(s, o) PROVE SendInv'
  <2> DEFINE x == [at |-> "looked", order |-> o, stamp |-> 0]
  <2>1. x \in Place /\ x.at = "looked"
    OBVIOUS
  <2>2. send' = [send EXCEPT ![s] = x] /\ UNCHANGED <<orderStatus, claims, mailed, doubted>>
    BY <1>2 DEF LookBeforeSend
  <2> HIDE DEF x
  <2> QED
    BY <1>1, <2>1, <2>2
<1>3. CASE LoseClaim(s) \/ SenderDies(s)
  BY <1>0, <1>1, <1>3 DEF LoseClaim, SenderDies
<1>4. CASE MailFails(s)
  <2> DEFINE o == send[s].order
             x == [send[s] EXCEPT !.at = "failed"]
  <2>1. /\ send[s].at = "claimed" /\ send' = [send EXCEPT ![s] = x]
        /\ UNCHANGED <<orderStatus, claims>>
    BY <1>4 DEF MailFails, Goto
  <2>2. x \in Place /\ x.order = o
    BY <1>0, <2>1, SenderKinds
  <2>3. \/ UNCHANGED <<mailed, doubted>>
        \/ /\ mailed' = [mailed EXCEPT ![o] = @ + 1]
           /\ doubted' = [doubted EXCEPT ![o] = @ + 1]
    BY <1>4 DEF MailFails
  <2>4. /\ o \in Orders /\ orderStatus[o] \in Sent /\ mailed[o] = doubted[o]
        /\ \A t \in Senders \ {s} : Holds(t) => send[t].order # o
    BY <1>0, <2>1, SenderKinds DEF SendInv, HoldInv, Holds
  <2> HIDE DEF o, x
  <2>5. /\ mailed' \in [Orders -> Nat] /\ doubted' \in [Orders -> Nat]
        /\ mailed'[o] = doubted'[o]
        /\ \A p \in Orders \ {o} : mailed'[p] = mailed[p] /\ doubted'[p] = doubted[p]
    BY <1>0, <2>3, <2>4 DEF ColumnsInv
  <2>6. MailedAgainOnlyInDoubt'
    BY <2>1, <2>5 DEF SendInv, MailedAgainOnlyInDoubt
  <2>7. NothingStranded'
    BY <1>0, <2>1 DEF SendInv, NothingStranded, LinesOf
  <2>8. \A t \in Senders \ {s} : Holds(t) =>
            /\ orderStatus'[send[t].order] \in Sent
            /\ mailed'[send[t].order] = doubted'[send[t].order]
    BY <1>0, <2>1, <2>4, <2>5, SenderKinds DEF SendInv, HoldInv, Holds
  <2>9. orderStatus' \in [Orders -> OrderStatuses] /\ claims' \in Nat
    BY <1>0, <2>1 DEF ColumnsInv
  <2> QED
    BY <1>0, <2>1, <2>2, <2>4, <2>5, <2>6, <2>7, <2>8, <2>9, SenderMoves
<1>5. CASE MarkSent(s)
  <2> DEFINE o == send[s].order
  <2>1. PICK x \in Place : /\ send' = [send EXCEPT ![s] = x] /\ x.order = o /\ o \in Orders
    <3>1. send[s].at = "looked" /\ claims \in Nat
      BY <1>0, <1>5 DEF MarkSent, ColumnsInv
    <3>2. send[s] \in Place
      BY <1>0, <3>1, SenderKinds
    <3> DEFINE n == claims + 1
               x == [send[s] EXCEPT !.at = "claimed", !.stamp = n]
    <3>3. n \in Nat
      BY <3>1
    <3>4. send' = [send EXCEPT ![s] = x]
      BY <1>5, <1>0 DEF MarkSent, ColumnsInv
    <3> HIDE DEF n
    <3>5. x \in Place /\ x.order = o /\ o \in Orders
      BY <3>2, <3>3
    <3> HIDE DEF x, o
    <3> QED
      BY <3>4, <3>5
  <2>2. /\ MayBecome(o, "SENT") /\ orderStatus' = [orderStatus EXCEPT ![o] = "SENT"]
        /\ claims' = claims + 1 /\ UNCHANGED <<mailed, doubted>>
    BY <1>5 DEF MarkSent, Become
  <2> HIDE DEF o
  <2>3. orderStatus[o] = "APPROVED"
    BY <1>0, <2>1, <2>2, Transitions
  <2>4. /\ orderStatus' \in [Orders -> OrderStatuses] /\ orderStatus'[o] = "SENT"
        /\ mailed' \in [Orders -> Nat] /\ doubted' \in [Orders -> Nat] /\ claims' \in Nat
        /\ \A p \in Orders \ {o} : orderStatus'[p] = orderStatus[p]
    BY <1>0, <2>1, <2>2, StatusKinds DEF ColumnsInv
  <2>5. mailed[o] = doubted[o] /\ \A t \in Senders : Holds(t) => send[t].order # o
    <3>1. mailed[o] = doubted[o]
      BY <1>0, <2>1, <2>3 DEF SendInv, MailedAgainOnlyInDoubt
    <3>2. orderStatus[o] \notin Sent
      BY <2>3 DEF Sent, Received
    <3> QED
      BY <3>1, <3>2 DEF SendInv, HoldInv
  <2>6. \A t \in Senders \ {s} : Holds(t) =>
            orderStatus'[send[t].order] \in Sent /\ mailed'[send[t].order] = doubted'[send[t].order]
    BY <1>0, <2>2, <2>4, <2>5, SenderKinds DEF SendInv, HoldInv, Holds
  <2>7. MailedAgainOnlyInDoubt'
    BY <2>2, <2>4, <2>5 DEF SendInv, MailedAgainOnlyInDoubt
  <2>8. NothingStranded'
    BY <1>0, <2>3, <2>4 DEF SendInv, NothingStranded, LinesOf
  <2>9. x.order \in Orders /\ orderStatus'[x.order] \in Sent /\ mailed'[x.order] = doubted'[x.order]
        /\ \A t \in Senders \ {s} : Holds(t) => send[t].order # x.order
    BY <2>1, <2>2, <2>4, <2>5 DEF Sent
  <2> QED
    BY <1>0, <2>1, <2>2, <2>4, <2>5, <2>6, <2>7, <2>8, <2>9, SenderMoves
<1>6. CASE MailGoesOut(s)
  <2> DEFINE o == send[s].order
  <2>1. /\ send[s].at = "claimed" /\ send' = [send EXCEPT ![s] = Idle]
        /\ mailed' = [mailed EXCEPT ![o] = @ + 1]
        /\ UNCHANGED <<orderStatus, claims, doubted>>
    BY <1>6 DEF MailGoesOut
  <2>2. /\ o \in Orders /\ orderStatus[o] \in Sent /\ mailed[o] = doubted[o]
        /\ \A t \in Senders \ {s} : Holds(t) => send[t].order # o
    BY <1>0, <2>1, SenderKinds DEF SendInv, HoldInv, Holds
  <2> HIDE DEF o
  <2>3. /\ mailed' \in [Orders -> Nat] /\ doubted' \in [Orders -> Nat] /\ mailed'[o] = doubted'[o] + 1
        /\ \A p \in Orders \ {o} : mailed'[p] = mailed[p]
    BY <1>0, <2>1, <2>2 DEF ColumnsInv
  <2>4. MailedAgainOnlyInDoubt'
    BY <2>1, <2>2, <2>3 DEF SendInv, MailedAgainOnlyInDoubt, Sent, Received
  <2>5. NothingStranded'
    BY <1>0, <2>1 DEF SendInv, NothingStranded, LinesOf
  <2>6. \A t \in Senders \ {s} : Holds(t) =>
            orderStatus'[send[t].order] \in Sent /\ mailed'[send[t].order] = doubted'[send[t].order]
    BY <1>0, <2>1, <2>2, <2>3, SenderKinds DEF SendInv, HoldInv, Holds
  <2>7. orderStatus' \in [Orders -> OrderStatuses] /\ claims' \in Nat
    BY <1>0, <2>1 DEF ColumnsInv
  <2> QED
    BY <1>0, <2>1, <2>3, <2>4, <2>5, <2>6, <2>7, SenderMoves
<1>7. CASE RevertSent(s)
  <2> DEFINE o == send[s].order
  <2>1. /\ send[s].at = "failed" /\ send' = [send EXCEPT ![s] = Idle]
        /\ UNCHANGED <<claims, mailed, doubted>>
        /\ \/ UNCHANGED orderStatus
           \/ orderStatus[o] = "SENT" /\ orderStatus' = [orderStatus EXCEPT ![o] = "APPROVED"]
    BY <1>7 DEF RevertSent, Become
  <2>2. /\ o \in Orders /\ mailed[o] = doubted[o]
        /\ \A t \in Senders \ {s} : Holds(t) => send[t].order # o
    BY <1>0, <2>1, SenderKinds DEF SendInv, HoldInv, Holds
  <2> HIDE DEF o
  <2>3. CASE UNCHANGED orderStatus
    BY <1>0, <1>1, <2>1, <2>3
  <2>4. CASE orderStatus[o] = "SENT" /\ orderStatus' = [orderStatus EXCEPT ![o] = "APPROVED"]
    <3>1. /\ orderStatus' \in [Orders -> OrderStatuses] /\ orderStatus'[o] = "APPROVED"
          /\ \A p \in Orders \ {o} : orderStatus'[p] = orderStatus[p]
      BY <1>0, <2>2, <2>4, StatusKinds DEF ColumnsInv
    <3>2. MailedAgainOnlyInDoubt'
      BY <2>1, <2>2, <3>1 DEF SendInv, MailedAgainOnlyInDoubt
    <3>3. NothingStranded'
      BY <1>0, <2>4, <3>1 DEF SendInv, NothingStranded, LinesOf
    <3>4. \A t \in Senders \ {s} : Holds(t) =>
              orderStatus'[send[t].order] \in Sent /\ mailed'[send[t].order] = doubted'[send[t].order]
      BY <1>0, <2>1, <2>2, <3>1, SenderKinds DEF SendInv, HoldInv, Holds
    <3>5. mailed' \in [Orders -> Nat] /\ doubted' \in [Orders -> Nat] /\ claims' \in Nat
      BY <1>0, <2>1 DEF ColumnsInv
    <3> QED
      BY <1>0, <2>1, <3>1, <3>2, <3>3, <3>4, <3>5, SenderMoves
  <2> QED
    BY <2>1, <2>3, <2>4
<1> QED
  BY <1>2, <1>3, <1>4, <1>5, <1>6, <1>7 DEF SendStep

LEMMA SendAlways == PurchaseSpec => []SendInv
<1>1. PurchaseInit => SendInv
  <2> SUFFICES ASSUME PurchaseInit PROVE SendInv
    OBVIOUS
  <2>1. ColumnsInv
    BY StatusKinds DEF PurchaseInit, ColumnsInv
  <2>2. HoldInv
    BY DEF PurchaseInit, HoldInv, Holds, Idle
  <2> QED
    BY <2>1, <2>2 DEF PurchaseInit, SendInv, MailedAgainOnlyInDoubt, NothingStranded, LinesOf
<1>2. SendInv /\ [PurchaseNext]_purchaseVars => SendInv'
  <2>1. ASSUME SendInv, UNCHANGED orderVars PROVE SendInv'
    BY <2>1 DEF orderVars, SendInv, ColumnsInv, HoldInv, Holds, MailedAgainOnlyInDoubt,
                NothingStranded, LinesOf
  <2>2. PositionStep \/ UNCHANGED purchaseVars => UNCHANGED orderVars
    BY DEF PositionStep, CheckAvailable, IssueStock, AdjustStock, LoadPosition, ComparePosition,
           SavePosition, purchaseVars
  <2> QED
    BY <2>1, <2>2, OrderSteps, SendSteps DEF PurchaseNext
<1> QED
  BY <1>1, <1>2, PTL DEF PurchaseSpec

(* The supplier is emailed an order again only after mails that were wrongly   *)
(* told to have failed, however many requests send it, fail, undo their claim  *)
(* or die: one that is known to have gone out is the last.                     *)
THEOREM MailedAgain == PurchaseSpec => []MailedAgainOnlyInDoubt
BY SendAlways, PTL DEF SendInv

(* Goods of an order are never stranded by a cancellation or an undone sending. *)
THEOREM NeverStranded == PurchaseSpec => []NothingStranded
BY SendAlways, PTL DEF SendInv

--------------------------------------------------------------------------------
(* The contract with the suppliers *)

(* No line receives more than the tolerance lets it. *)
ToleranceInv == \A l \in Lines : qtyReceived[l] <= Ordered[l] + Extra

SupplierInv == SendInv /\ ToleranceInv

LEMMA StatusOf ==
  ASSUME SendInv, NEW o \in Orders
  PROVE  orderStatus[o] \in {"DRAFT", "AWAITING_APPROVAL", "APPROVED", "SENT",
                             "PARTIALLY_RECEIVED", "RECEIVED", "CANCELLED"}
BY StatusKinds DEF SendInv, ColumnsInv

(* What is seen of an order is its status, or that it is approved.             *)
LEMMA SeenOf ==
  ASSUME NEW o \in Orders
  PROVE  /\ orderStatus[o] # "SENT" \/ mailed[o] # doubted[o] => StatusSeen[o] = orderStatus[o]
         /\ orderStatus[o] = "SENT" /\ mailed[o] = doubted[o] => StatusSeen[o] = "APPROVED"
BY DEF StatusSeen

LEMMA SeenStays ==
  ASSUME UNCHANGED <<orderStatus, mailed, doubted, qtyReceived>>
  PROVE  [Supplier!Next]_(Supplier!vars)
BY DEF StatusSeen, Supplier!vars

(* A status other than SENT is seen as soon as it is written.                  *)
LEMMA SeenBecomes ==
  ASSUME SendInv, NEW o \in Orders, NEW to, to # "SENT", Become(o, to), UNCHANGED <<mailed, doubted>>
  PROVE  Supplier!Become(o, to)
<1>1. orderStatus' = [orderStatus EXCEPT ![o] = to] /\ orderStatus \in [Orders -> OrderStatuses]
  BY DEF Become, SendInv, ColumnsInv
<1>2. ASSUME NEW p \in Orders
      PROVE  (IF orderStatus'[p] = "SENT" /\ mailed'[p] = doubted'[p] THEN "APPROVED" ELSE orderStatus'[p])
                 = [StatusSeen EXCEPT ![o] = to][p]
  BY <1>1 DEF StatusSeen
<1>3. StatusSeen' = [StatusSeen EXCEPT ![o] = to]
  BY <1>2 DEF StatusSeen
<1> QED
  BY <1>3 DEF Supplier!Become

(* The life of an order, seen by its supplier. *)
LEMMA ContractOfOrders ==
  ASSUME SupplierInv, NEW o \in Orders, OrderStep(o)
  PROVE  Supplier!Next
<1>0. SendInv /\ orderStatus[o] \in {"DRAFT", "AWAITING_APPROVAL", "APPROVED", "SENT",
                                     "PARTIALLY_RECEIVED", "RECEIVED", "CANCELLED"}
  BY StatusOf DEF SupplierInv
<1>1. CASE Submit(o) \/ Reopen(o) \/ ApproveOrder(o)
  <2>1. UNCHANGED <<mailed, doubted, qtyReceived>>
    BY <1>1 DEF Submit, Reopen, ApproveOrder
  <2>2. \/ orderStatus[o] = "DRAFT" /\ Become(o, "AWAITING_APPROVAL")
        \/ orderStatus[o] = "AWAITING_APPROVAL" /\ (Become(o, "DRAFT") \/ Become(o, "APPROVED"))
    BY <1>0, <1>1 DEF Submit, Reopen, ApproveOrder, MayBecome, OrderTransitions
  <2>3. Supplier!Prepare(o)
    BY <1>0, <2>1, <2>2, SeenOf, SeenBecomes DEF Supplier!Prepare
  <2> QED
    BY <2>3 DEF Supplier!Next
<1>2. CASE CloseShort(o)
  <2>1. UNCHANGED <<mailed, doubted, qtyReceived>> /\ Become(o, "RECEIVED")
    BY <1>2 DEF CloseShort
  <2>2. orderStatus[o] \in {"SENT", "PARTIALLY_RECEIVED"}
    BY <1>0, <1>2 DEF CloseShort, MayBecome, OrderTransitions
  <2>3. Supplier!CloseShort(o)
    BY <1>0, <2>1, <2>2, SeenOf, SeenBecomes DEF Supplier!CloseShort, Supplier!Arriving
  <2> QED
    BY <2>3 DEF Supplier!Next
<1>3. CASE CancelOrder(o)
  <2>1. UNCHANGED <<mailed, doubted, qtyReceived>> /\ Become(o, "CANCELLED")
    BY <1>3 DEF CancelOrder
  <2>2. orderStatus[o] \in {"DRAFT", "AWAITING_APPROVAL", "APPROVED", "SENT"}
    BY <1>0, <1>3 DEF CancelOrder, MayBecome, OrderTransitions
  <2>3. \A l \in Lines : OrderOf[l] = o => qtyReceived[l] = 0
    BY <1>0, <2>2 DEF SendInv, NothingStranded, LinesOf
  <2>4. Supplier!Cancel(o)
    BY <1>0, <2>1, <2>2, <2>3, SeenOf, SeenBecomes DEF Supplier!Cancel, Supplier!Over
  <2> QED
    BY <2>4 DEF Supplier!Next
<1>4. ASSUME NEW qty \in [Lines -> 0..1], ReceiveGoods(o, qty) PROVE Supplier!Next
  <2>1. /\ orderStatus[o] \in {"SENT", "APPROVED", "PARTIALLY_RECEIVED"}
        /\ \E l \in Lines : qty[l] > 0
        /\ \A l \in Lines : qty[l] > 0 => OrderOf[l] = o /\ qtyReceived[l] + qty[l] <= Ordered[l] + Extra
        /\ qtyReceived' = [l \in Lines |-> qtyReceived[l] + qty[l]]
        /\ UNCHANGED <<mailed, doubted>>
    BY <1>4 DEF ReceiveGoods, LinesOf
  <2>2. Become(o, IF \A l \in Lines : OrderOf[l] = o => qtyReceived'[l] >= Ordered[l]
                  THEN "RECEIVED" ELSE "PARTIALLY_RECEIVED")
    <3>1. (\A l \in LinesOf(o) : qtyReceived'[l] >= Ordered[l])
              <=> \A l \in Lines : OrderOf[l] = o => qtyReceived'[l] >= Ordered[l]
      BY DEF LinesOf
    <3> QED
      BY <1>4, <3>1 DEF ReceiveGoods
  <2>3. qtyReceived \in [Lines -> Nat] /\ \A l \in Lines : qty[l] \in 0..1 /\ Ordered[l] + Extra \in Nat
    BY <1>0 DEF SendInv, ColumnsInv
  <2>4. qtyReceived' \in [Lines -> Nat] /\ qtyReceived' # qtyReceived
    BY <2>1, <2>3
  <2>5. ASSUME NEW l \in Lines
        PROVE  IF OrderOf[l] = o
               THEN qtyReceived[l] <= qtyReceived'[l] /\ qtyReceived'[l] <= Ordered[l] + Extra
               ELSE qtyReceived'[l] = qtyReceived[l]
    <3>1. qtyReceived[l] \in Nat /\ qty[l] \in 0..1 /\ qtyReceived'[l] = qtyReceived[l] + qty[l]
      BY <2>1, <2>3
    <3>2. qtyReceived[l] <= Ordered[l] + Extra
      BY DEF SupplierInv, ToleranceInv
    <3>3. qty[l] = 0 \/ (qty[l] > 0 /\ OrderOf[l] = o /\ qtyReceived[l] + qty[l] <= Ordered[l] + Extra)
      BY <2>1, <3>1
    <3> QED
      BY <3>1, <3>2, <3>3
  <2>6. StatusSeen[o] \in Supplier!Arriving
    BY <2>1, SeenOf DEF Supplier!Arriving
  <2>7. Supplier!Become(o, IF \A l \in Lines : OrderOf[l] = o => qtyReceived'[l] >= Ordered[l]
                           THEN "RECEIVED" ELSE "PARTIALLY_RECEIVED")
    BY <1>0, <2>1, <2>2, SeenBecomes
  <2>8. Supplier!Deliver(o)
    BY <2>1, <2>4, <2>5, <2>6, <2>7 DEF Supplier!Deliver
  <2> QED
    BY <2>8 DEF Supplier!Next
<1> QED
  BY <1>1, <1>2, <1>3, <1>4 DEF OrderStep

(* A request that sends an order shows when its mail goes out, known to or     *)
(* not, and never else.                                                        *)
LEMMA ContractOfSending ==
  ASSUME SupplierInv, NEW s \in Senders, SendStep(s)
  PROVE  [Supplier!Next]_(Supplier!vars)
<1>0. SendInv /\ ColumnsInv /\ UNCHANGED qtyReceived
  BY DEF SupplierInv, SendInv, SendStep, LookBeforeSend, MarkSent, LoseClaim, MailGoesOut,
         MailFails, RevertSent, SenderDies
<1> DEFINE o == send[s].order
(* The claim and its undoing look alike. *)
<1>1. ASSUME o \in Orders, NEW to \in {"APPROVED", "SENT"}, orderStatus[o] \in {"APPROVED", "SENT"},
             mailed[o] = doubted[o], orderStatus' = [orderStatus EXCEPT ![o] = to], UNCHANGED <<mailed, doubted>>
      PROVE  [Supplier!Next]_(Supplier!vars)
  <2>1. orderStatus \in [Orders -> OrderStatuses]
    BY <1>0 DEF ColumnsInv
  <2> HIDE DEF o
  <2>2. ASSUME NEW p \in Orders
        PROVE  (IF orderStatus'[p] = "SENT" /\ mailed'[p] = doubted'[p] THEN "APPROVED" ELSE orderStatus'[p])
                   = IF orderStatus[p] = "SENT" /\ mailed[p] = doubted[p] THEN "APPROVED" ELSE orderStatus[p]
    BY <1>1, <2>1
  <2>3. UNCHANGED StatusSeen
    BY <2>2 DEF StatusSeen
  <2> QED
    BY <1>0, <1>1, <2>3 DEF Supplier!vars
<1>2. CASE (\E p \in Orders : LookBeforeSend(s, p)) \/ LoseClaim(s) \/ SenderDies(s)
  BY <1>0, <1>2, SeenStays DEF LookBeforeSend, LoseClaim, SenderDies
<1>3. CASE MarkSent(s)
  <2>1. /\ send[s].at = "looked" /\ MayBecome(o, "SENT") /\ UNCHANGED <<mailed, doubted>>
        /\ orderStatus' = [orderStatus EXCEPT ![o] = "SENT"]
    BY <1>3 DEF MarkSent, Become
  <2>2. o \in Orders
    BY <1>0, <2>1, SenderKinds
  <2> HIDE DEF o
  <2>3. orderStatus[o] = "APPROVED"
    BY <1>0, <2>1, <2>2, Transitions
  <2>4. mailed[o] = doubted[o]
    BY <1>0, <2>2, <2>3 DEF SendInv, ColumnsInv, MailedAgainOnlyInDoubt
  <2> QED
    BY <1>1, <2>1, <2>2, <2>3, <2>4 DEF o
<1>4. CASE RevertSent(s)
  <2>1. /\ send[s].at = "failed" /\ UNCHANGED <<mailed, doubted>>
        /\ \/ UNCHANGED orderStatus
           \/ orderStatus[o] = "SENT" /\ orderStatus' = [orderStatus EXCEPT ![o] = "APPROVED"]
    BY <1>4 DEF RevertSent, Become
  <2>2. o \in Orders /\ mailed[o] = doubted[o]
    BY <1>0, <2>1, SenderKinds DEF SendInv, HoldInv, Holds
  <2> QED
    BY <1>0, <1>1, <2>1, <2>2, SeenStays
<1>5. CASE MailGoesOut(s)
  <2>1. /\ send[s].at = "claimed" /\ UNCHANGED <<orderStatus, doubted>>
        /\ mailed' = [mailed EXCEPT ![o] = @ + 1]
    BY <1>5 DEF MailGoesOut
  <2>2. o \in Orders /\ orderStatus[o] \in Sent /\ mailed[o] = doubted[o]
    BY <1>0, <2>1, SenderKinds DEF SendInv, HoldInv, Holds
  <2>3. /\ orderStatus \in [Orders -> OrderStatuses]
        /\ mailed \in [Orders -> Nat] /\ doubted \in [Orders -> Nat]
    BY <1>0 DEF ColumnsInv
  <2> HIDE DEF o
  <2>4. Supplier!Mail(o) /\ mailed'[o] = doubted[o] + 1
    BY <2>1, <2>2, <2>3 DEF Supplier!Mail
  <2>5. CASE orderStatus[o] = "SENT"
    <3>1. ASSUME NEW p \in Orders
          PROVE  (IF orderStatus'[p] = "SENT" /\ mailed'[p] = doubted'[p] THEN "APPROVED" ELSE orderStatus'[p])
                     = [StatusSeen EXCEPT ![o] = "SENT"][p]
      BY <2>1, <2>2, <2>3, <2>4, <2>5 DEF StatusSeen
    <3>2. StatusSeen' = [StatusSeen EXCEPT ![o] = "SENT"]
      BY <3>1 DEF StatusSeen
    <3>3. StatusSeen[o] = "APPROVED"
      BY <2>2, <2>5, SeenOf
    <3>4. Supplier!Send(o)
      BY <1>0, <2>1, <2>4, <3>2, <3>3 DEF Supplier!Send, Supplier!Become
    <3> QED
      BY <2>2, <3>4 DEF Supplier!Next
  <2>6. CASE orderStatus[o] # "SENT"
    <3>1. ASSUME NEW p \in Orders
          PROVE  (IF orderStatus'[p] = "SENT" /\ mailed'[p] = doubted'[p] THEN "APPROVED" ELSE orderStatus'[p])
                     = IF orderStatus[p] = "SENT" /\ mailed[p] = doubted[p] THEN "APPROVED" ELSE orderStatus[p]
      BY <2>1, <2>2, <2>3, <2>6
    <3>2. UNCHANGED StatusSeen
      BY <3>1 DEF StatusSeen
    <3>3. StatusSeen[o] \in {"PARTIALLY_RECEIVED", "RECEIVED", "CANCELLED"}
      BY <2>2, <2>6, SeenOf DEF Sent, Received
    <3>4. Supplier!SendLate(o)
      BY <1>0, <2>1, <2>4, <3>2, <3>3 DEF Supplier!SendLate, Supplier!Over
    <3> QED
      BY <2>2, <3>4 DEF Supplier!Next
  <2> QED
    BY <2>5, <2>6
<1>6. CASE MailFails(s)
  <2>1. /\ send[s].at = "claimed" /\ UNCHANGED orderStatus
        /\ \/ UNCHANGED <<mailed, doubted>>
           \/ /\ mailed' = [mailed EXCEPT ![o] = @ + 1]
              /\ doubted' = [doubted EXCEPT ![o] = @ + 1]
    BY <1>6 DEF MailFails
  <2>2. o \in Orders /\ orderStatus[o] \in Sent /\ mailed[o] = doubted[o]
    BY <1>0, <2>1, SenderKinds DEF SendInv, HoldInv, Holds
  <2>3. mailed \in [Orders -> Nat] /\ doubted \in [Orders -> Nat]
    BY <1>0 DEF ColumnsInv
  <2> HIDE DEF o
  <2>4. CASE UNCHANGED <<mailed, doubted>>
    BY <1>0, <2>1, <2>4, SeenStays
  <2>5. CASE /\ mailed' = [mailed EXCEPT ![o] = @ + 1]
             /\ doubted' = [doubted EXCEPT ![o] = @ + 1]
    <3>1. \A p \in Orders : mailed'[p] = doubted'[p] <=> mailed[p] = doubted[p]
      BY <2>2, <2>3, <2>5
    <3>2. UNCHANGED StatusSeen
      BY <2>1, <3>1 DEF StatusSeen
    <3>3. StatusSeen[o] \in {"APPROVED", "PARTIALLY_RECEIVED", "RECEIVED", "CANCELLED"}
      BY <2>2, SeenOf DEF Sent, Received
    <3>4. Supplier!SendInDoubt(o)
      BY <1>0, <2>2, <2>5, <3>2, <3>3 DEF Supplier!SendInDoubt, Supplier!Mail, Supplier!Over
    <3> QED
      BY <2>2, <3>4 DEF Supplier!Next
  <2> QED
    BY <2>1, <2>4, <2>5
<1> QED
  BY <1>2, <1>3, <1>4, <1>5, <1>6 DEF SendStep

LEMMA ToleranceStays == SupplierInv /\ [PurchaseNext]_purchaseVars => ToleranceInv'
<1> SUFFICES ASSUME SupplierInv, [PurchaseNext]_purchaseVars PROVE ToleranceInv'
  OBVIOUS
<1>1. ASSUME UNCHANGED qtyReceived PROVE ToleranceInv'
  BY <1>1 DEF SupplierInv, ToleranceInv
<1>2. ASSUME NEW o \in Orders, OrderStep(o) PROVE ToleranceInv'
  <2>1. ASSUME NEW qty \in [Lines -> 0..1], ReceiveGoods(o, qty) PROVE ToleranceInv'
    <3> SUFFICES ASSUME NEW l \in Lines PROVE qtyReceived'[l] <= Ordered[l] + Extra
      BY DEF ToleranceInv
    <3>1. /\ qtyReceived'[l] = qtyReceived[l] + qty[l]
          /\ qty[l] > 0 => qtyReceived[l] + qty[l] <= Ordered[l] + Extra
      BY <2>1 DEF ReceiveGoods
    <3>2. qtyReceived[l] \in Nat /\ qty[l] \in 0..1 /\ qtyReceived[l] <= Ordered[l] + Extra
      BY DEF SupplierInv, SendInv, ColumnsInv, ToleranceInv
    <3> QED
      BY <3>1, <3>2
  <2> QED
    BY <1>1, <1>2, <2>1 DEF OrderStep, Submit, Reopen, ApproveOrder, CloseShort, CancelOrder
<1>3. ASSUME NEW s \in Senders, SendStep(s) PROVE ToleranceInv'
  BY <1>1, <1>3 DEF SendStep, LookBeforeSend, MarkSent, LoseClaim, MailGoesOut, MailFails,
     RevertSent, SenderDies
<1>4. CASE PositionStep \/ UNCHANGED purchaseVars
  BY <1>1, <1>4 DEF PositionStep, CheckAvailable, IssueStock, AdjustStock, LoadPosition,
     ComparePosition, SavePosition, orderVars, purchaseVars
<1> QED
  BY <1>2, <1>3, <1>4 DEF PurchaseNext

LEMMA SupplierAlways == PurchaseSpec => []SupplierInv
<1>1. PurchaseInit => ToleranceInv
  BY DEF PurchaseInit, ToleranceInv
<1>2. SendInv /\ ToleranceInv <=> SupplierInv
  BY DEF SupplierInv
<1> QED
  BY <1>1, <1>2, SendAlways, ToleranceStays, PTL DEF PurchaseSpec

(* Orders, whoever sends, cancels, closes or receives them at once and         *)
(* whichever request dies, are to their suppliers what PurchaseContract says:  *)
(* sent in one step, and again only after mails that were wrongly told to have *)
(* failed, with nothing to show of a claim that is undone.                     *)
THEOREM ContractWithSuppliers == PurchaseSpec => SupplierContractKept
<1>1. PurchaseInit => Supplier!Init
  <2> SUFFICES ASSUME PurchaseInit PROVE Supplier!Init
    OBVIOUS
  <2>1. StatusSeen = [o \in Orders |-> "DRAFT"]
    BY DEF PurchaseInit, StatusSeen
  <2> QED
    BY <2>1 DEF PurchaseInit, Supplier!Init
<1>2. SupplierInv /\ [PurchaseNext]_purchaseVars => [Supplier!Next]_(Supplier!vars)
  <2> SUFFICES ASSUME SupplierInv, [PurchaseNext]_purchaseVars
               PROVE  [Supplier!Next]_(Supplier!vars)
    OBVIOUS
  <2>1. CASE PositionStep \/ UNCHANGED purchaseVars
    BY <2>1, SeenStays DEF PositionStep, CheckAvailable, IssueStock, AdjustStock, LoadPosition,
       ComparePosition, SavePosition, orderVars, purchaseVars
  <2> QED
    BY <2>1, ContractOfOrders, ContractOfSending DEF PurchaseNext
<1> QED
  BY <1>1, <1>2, SupplierAlways, PTL DEF PurchaseSpec, SupplierContractKept, Supplier!Spec

--------------------------------------------------------------------------------
(* The stock row and its movements *)

MovementsInv ==
    /\ DOMAIN stock = {"onHand", "onOrder", "reorderPoint"} /\ trampled \in BOOLEAN
    /\ PositionFollowsLedger

LEMMA PositionKept ==
  ASSUME MovementsInv, NEW a,
         DOMAIN stock' = DOMAIN stock, stock'.onHand = stock.onHand + a, moved' = moved + a,
         UNCHANGED trampled
  PROVE  MovementsInv'
BY DEF MovementsInv, PositionFollowsLedger

(* What is on order moves by itself. *)
LEMMA OnOrderMoves ==
  ASSUME NEW p, DOMAIN p = {"onHand", "onOrder", "reorderPoint"}, NEW a
  PROVE  DOMAIN AdjustOnOrder(p, a) = DOMAIN p /\ AdjustOnOrder(p, a).onHand = p.onHand
BY DEF AdjustOnOrder

LEMMA OnHandMoves ==
  ASSUME NEW p, DOMAIN p = {"onHand", "onOrder", "reorderPoint"}, NEW a
  PROVE  DOMAIN ApplyMovement(p, a) = DOMAIN p /\ ApplyMovement(p, a).onHand = p.onHand + a
BY DEF ApplyMovement

LEMMA LedgerStep == MovementsInv /\ [PurchaseNext]_purchaseVars => MovementsInv'
<1> SUFFICES ASSUME MovementsInv, [PurchaseNext]_purchaseVars PROVE MovementsInv'
  OBVIOUS
<1>0. DOMAIN stock = {"onHand", "onOrder", "reorderPoint"}
  BY DEF MovementsInv
<1>1. ASSUME UNCHANGED <<stock, moved, trampled>> PROVE MovementsInv'
  BY <1>1 DEF MovementsInv, PositionFollowsLedger
<1>2. ASSUME NEW a, stock' = AdjustOnOrder(stock, a), UNCHANGED <<moved, trampled>>
      PROVE  MovementsInv'
  BY <1>0, <1>2, OnOrderMoves DEF MovementsInv, PositionFollowsLedger
<1>3. ASSUME NEW a, stock' = ApplyMovement(stock, a), moved' = moved + a, UNCHANGED trampled
      PROVE  MovementsInv'
  BY <1>0, <1>3, OnHandMoves, PositionKept
<1>4. ASSUME NEW o \in Orders, OrderStep(o) PROVE MovementsInv'
  <2>1. CASE Submit(o) \/ Reopen(o)
    BY <1>1, <2>1 DEF Submit, Reopen, positionVars
  <2>2. CASE ApproveOrder(o) \/ CloseShort(o)
    <3>1. /\ \E a : stock' = AdjustOnOrder(stock, a)
          /\ UNCHANGED <<moved, trampled>>
      BY <2>2 DEF ApproveOrder, CloseShort
    <3> QED
      BY <1>2, <3>1
  <2>3. CASE CancelOrder(o)
    <3>1. /\ UNCHANGED stock \/ \E a : stock' = AdjustOnOrder(stock, a)
          /\ UNCHANGED <<moved, trampled>>
      BY <2>3 DEF CancelOrder
    <3> QED
      BY <1>1, <1>2, <3>1
  <2>4. ASSUME NEW qty \in [Lines -> 0..1], ReceiveGoods(o, qty) PROVE MovementsInv'
    <3>1. PICK a, b : /\ stock' = AdjustOnOrder(ApplyMovement(stock, a), b)
                      /\ moved' = moved + a /\ UNCHANGED trampled
      BY <2>4, Zenon DEF ReceiveGoods
    <3> QED
      BY <1>0, <3>1, OnHandMoves, OnOrderMoves, PositionKept
  <2> QED
    BY <1>4, <2>1, <2>2, <2>3, <2>4 DEF OrderStep
<1>5. ASSUME NEW s \in Senders, SendStep(s) PROVE MovementsInv'
  BY <1>1, <1>5
     DEF SendStep, LookBeforeSend, MarkSent, LoseClaim, MailGoesOut, MailFails, RevertSent,
         SenderDies, positionVars
<1>6. CASE PositionStep
  <2>1. ASSUME NEW i \in Issuers, CheckAvailable(i, 1) PROVE MovementsInv'
    BY <1>1, <2>1 DEF CheckAvailable
  <2>2. ASSUME NEW i \in Issuers, IssueStock(i) PROVE MovementsInv'
    BY <1>3, <2>2 DEF IssueStock
  <2>3. ASSUME NEW qty \in {-1, 1}, AdjustStock(qty) PROVE MovementsInv'
    BY <1>3, <2>3 DEF AdjustStock
  <2>4. ASSUME NEW r \in Planners, NEW level \in Levels, LoadPosition(r, level) PROVE MovementsInv'
    BY <1>1, <2>4 DEF LoadPosition
  <2>5. ASSUME NEW r \in Planners, ComparePosition(r) PROVE MovementsInv'
    BY <1>1, <2>5 DEF ComparePosition
  <2>6. ASSUME NEW r \in Planners, SavePosition(r) PROVE MovementsInv'
    <3>1. /\ DOMAIN stock' = DOMAIN stock /\ UNCHANGED moved
          /\ trampled' = (trampled \/ stock'.onHand # stock.onHand
                                   \/ stock'.onOrder # stock.onOrder)
      BY <2>6 DEF SavePosition, Saved
    <3> QED
      BY <3>1 DEF MovementsInv, PositionFollowsLedger
  <2> QED
    BY <1>6, <2>1, <2>2, <2>3, <2>4, <2>5, <2>6 DEF PositionStep
<1>7. CASE UNCHANGED purchaseVars
  BY <1>1, <1>7 DEF purchaseVars, positionVars
<1> QED
  BY <1>4, <1>5, <1>6, <1>7 DEF PurchaseNext

(* What is on hand is what the movements come to, for any orders, issues and    *)
(* corrections, until a planner saves a position that has moved.                *)
THEOREM LedgerFollowed == PurchaseSpec => []PositionFollowsLedger
<1>1. PurchaseInit => MovementsInv
  <2> SUFFICES ASSUME PurchaseInit PROVE MovementsInv
    OBVIOUS
  <2>1. stock = [onHand |-> 0, onOrder |-> 0, reorderPoint |-> 0] /\ moved = 0
    BY DEF PurchaseInit
  <2>2. DOMAIN stock = {"onHand", "onOrder", "reorderPoint"} /\ stock.onHand = moved
    BY <2>1
  <2>3. trampled = FALSE
    BY DEF PurchaseInit
  <2> QED
    BY <2>2, <2>3 DEF MovementsInv, PositionFollowsLedger
<1>2. MovementsInv => PositionFollowsLedger
  BY DEF MovementsInv
<1> QED
  BY <1>1, <1>2, LedgerStep, PTL DEF PurchaseSpec

--------------------------------------------------------------------------------
(* What is on order *)

Expects(o) == IF orderStatus[o] \in Committed THEN StillDueOf(o) ELSE 0
Expected == SumFunction([o \in Orders |-> Expects(o)])
NoneOver == \A l \in Lines : qtyReceived[l] <= Ordered[l]

LEMMA SumsOfOrders ==
  /\ \A f \in [Orders -> Nat] : SumFunction(f) \in Nat /\ \A o \in Orders : f[o] <= SumFunction(f)
  /\ \A o \in Orders : \A f, g \in [Orders -> Int] :
        (\A x \in Orders \ {o} : f[x] = g[x]) => SumFunction(g) = SumFunction(f) - f[o] + g[o]
  /\ \A T \in SUBSET Orders : \A f \in [Orders -> Int], g \in [T -> Int] :
        (\A x \in T : f[x] = g[x]) /\ (\A x \in Orders \ T : f[x] = 0)
            => SumFunction(f) = SumFunction(g)
<1>0. IsFiniteSet(Orders)
  OBVIOUS
<1>1. \A f \in [Orders -> Nat] : SumFunction(f) \in Nat /\ \A o \in Orders : f[o] <= SumFunction(f)
  BY <1>0, SumOfNat
<1>2. \A o \in Orders : \A f, g \in [Orders -> Int] :
        (\A x \in Orders \ {o} : f[x] = g[x]) => SumFunction(g) = SumFunction(f) - f[o] + g[o]
  BY <1>0, SumChange
<1>3. \A T \in SUBSET Orders : \A f \in [Orders -> Int], g \in [T -> Int] :
        (\A x \in T : f[x] = g[x]) /\ (\A x \in Orders \ T : f[x] = 0)
            => SumFunction(f) = SumFunction(g)
  BY <1>0, SumOfPart
<1> QED
  BY <1>1, <1>2, <1>3

LEMMA SumsOfLines ==
  /\ \A T \in SUBSET Lines : \A f \in [T -> Nat] : SumFunction(f) \in Nat
  /\ \A T \in SUBSET Lines : \A f, g, h \in [T -> Int] :
        (\A x \in T : h[x] = f[x] + g[x]) => SumFunction(h) = SumFunction(f) + SumFunction(g)
  /\ \A T \in SUBSET Lines : \A f \in [T -> Int] : (\A x \in T : f[x] = 0) => SumFunction(f) = 0
<1>0. \A T \in SUBSET Lines : IsFiniteSet(T)
  BY FS_Subset
<1>1. \A T \in SUBSET Lines : \A f \in [T -> Nat] : SumFunction(f) \in Nat
  BY <1>0, SumOfNat
<1>2. ASSUME NEW T \in SUBSET Lines
      PROVE  \A f, g, h \in [T -> Int] :
        (\A x \in T : h[x] = f[x] + g[x]) => SumFunction(h) = SumFunction(f) + SumFunction(g)
  <2>1. IsFiniteSet(T)
    BY <1>0
  <2> QED
    BY <2>1, SumAdd
<1>3. \A T \in SUBSET Lines : \A f \in [T -> Int] : (\A x \in T : f[x] = 0) => SumFunction(f) = 0
  BY <1>0, SumZero
<1> QED
  BY <1>1, <1>2, <1>3

DueNat == \A o \in Orders : /\ StillDueOf(o) \in Nat /\ Expects(o) \in Nat
                            /\ \A l \in LinesOf(o) : StillDue(l) \in Nat
LEMMA DueType == ColumnsInv => DueNat
<1> SUFFICES ASSUME ColumnsInv, NEW o \in Orders
             PROVE  /\ StillDueOf(o) \in Nat /\ Expects(o) \in Nat
                    /\ \A l \in LinesOf(o) : StillDue(l) \in Nat
  BY DEF DueNat
<1>1. LinesOf(o) \in SUBSET Lines
  BY DEF LinesOf
<1>2. \A l \in LinesOf(o) : StillDue(l) \in Nat
  <2>1. \A m, n \in Nat : m < n => n - m \in Nat
    OBVIOUS
  <2>2. \A l \in Lines : qtyReceived[l] \in Nat /\ Ordered[l] \in Nat
    BY DEF ColumnsInv
  <2> QED
    BY <1>1, <2>1, <2>2 DEF StillDue
<1>3. [l \in LinesOf(o) |-> StillDue(l)] \in [LinesOf(o) -> Nat]
  BY <1>2
<1>4. StillDueOf(o) \in Nat
  BY <1>1, <1>3, SumsOfLines DEF StillDueOf
<1> QED
  BY <1>2, <1>4 DEF Expects

(* The committed orders expect what all orders do.                            *)
OnOrderTells == ~trampled /\ NoneOver => stock.onOrder = Expected
LEMMA OnOrderIs == ColumnsInv => (OnOrderTellsOpenOrders <=> OnOrderTells)
<1> SUFFICES ASSUME ColumnsInv PROVE OnOrderTellsOpenOrders <=> OnOrderTells
  OBVIOUS
<1> DEFINE T == {p \in Orders : orderStatus[p] \in Committed}
<1>1. T \in SUBSET Orders
  OBVIOUS
<1>2. \A o \in Orders : StillDueOf(o) \in Int /\ Expects(o) \in Int
  BY DueType DEF DueNat
<1>3. \A o \in Orders : Expects(o) = IF o \in T THEN StillDueOf(o) ELSE 0
  BY DEF Expects
<1>4. OnOrderTellsOpenOrders <=>
          (~trampled /\ NoneOver => stock.onOrder = SumFunction([o \in T |-> StillDueOf(o)]))
  BY DEF OnOrderTellsOpenOrders, NoneOver
<1> HIDE DEF T
<1>5. PICK f \in [Orders -> Int] : f = [o \in Orders |-> Expects(o)]
  BY <1>2
<1>6. PICK g \in [T -> Int] : g = [o \in T |-> StillDueOf(o)]
  BY <1>1, <1>2
<1>7. SumFunction(f) = SumFunction(g)
  <2>1. \A u \in [Orders -> Int], v \in [T -> Int] :
            (\A x \in T : u[x] = v[x]) /\ (\A x \in Orders \ T : u[x] = 0)
                => SumFunction(u) = SumFunction(v)
    BY <1>1, SumsOfOrders
  <2>2. (\A x \in T : f[x] = g[x]) /\ (\A x \in Orders \ T : f[x] = 0)
    BY <1>1, <1>3, <1>5, <1>6
  <2> QED
    BY <2>1, <2>2
<1> QED
  BY <1>4, <1>5, <1>6, <1>7 DEF OnOrderTells, Expected

(* What is expected moves with the order that moves, and an order expects no  *)
(* more than all of them.                                                     *)
LEMMA ExpectedMoves ==
  ASSUME ColumnsInv, ColumnsInv', NEW o \in Orders,
         \A p \in Orders \ {o} : Expects(p)' = Expects(p)
  PROVE  /\ Expected' = Expected - Expects(o) + Expects(o)'
         /\ Expected \in Nat /\ Expects(o) <= Expected
<1>1. (ColumnsInv => DueNat)'
  BY DueType, PTL
<1>2. \A p \in Orders : Expects(p) \in Nat /\ Expects(p)' \in Nat
  BY <1>1, DueType DEF DueNat
<1>3. PICK f \in [Orders -> Nat] : f = [p \in Orders |-> Expects(p)]
  BY <1>2
<1>4. PICK g \in [Orders -> Nat] : g = [p \in Orders |-> Expects(p)']
  BY <1>2
<1>5. SumFunction(f) \in Nat /\ f[o] <= SumFunction(f)
  BY SumsOfOrders
<1>6. SumFunction(g) = SumFunction(f) - f[o] + g[o]
  <2>1. f \in [Orders -> Int] /\ g \in [Orders -> Int] /\ \A p \in Orders \ {o} : f[p] = g[p]
    BY <1>3, <1>4
  <2> QED
    BY <2>1, SumsOfOrders
<1> QED
  BY <1>3, <1>4, <1>5, <1>6 DEF Expected

OrderedInv == SendInv /\ PurchaseTypeOK /\ OnOrderTellsOpenOrders

LEMMA AdjustType ==
  ASSUME NEW p \in Position, NEW a \in Int
  PROVE  /\ AdjustOnOrder(p, a) \in Position /\ ApplyMovement(p, a) \in Position
         /\ ApplyMovement(p, a).onOrder = p.onOrder
         /\ p.onOrder + a \in Nat => AdjustOnOrder(p, a).onOrder = p.onOrder + a
<1>1. p.onOrder \in Nat /\ p.onHand \in Int
  BY DEF Position
<1>2. PICK n \in Nat : /\ n = IF p.onOrder + a < 0 THEN 0 ELSE p.onOrder + a
                       /\ p.onOrder + a \in Nat => n = p.onOrder + a
  BY <1>1
<1>3. AdjustOnOrder(p, a) = [p EXCEPT !.onOrder = n]
  BY <1>2 DEF AdjustOnOrder
<1>4. AdjustOnOrder(p, a) \in Position /\ AdjustOnOrder(p, a).onOrder = n
  BY <1>3 DEF Position
<1>5. PICK m \in Int : m = p.onHand + a
  BY <1>1
<1>6. ApplyMovement(p, a) = [p EXCEPT !.onHand = m]
  BY <1>5 DEF ApplyMovement
<1> QED
  BY <1>2, <1>4, <1>6 DEF Position

(* A step of one order moves the figure on order as far as it moves what the  *)
(* order expects.                                                             *)
LEMMA OnOrderKeeps ==
  ASSUME SendInv, ColumnsInv', OnOrderTellsOpenOrders, NEW o \in Orders,
         \A p \in Orders \ {o} : orderStatus'[p] = orderStatus[p],
         \A l \in Lines : OrderOf[l] # o => qtyReceived'[l] = qtyReceived[l],
         ~trampled' => ~trampled, NoneOver' => NoneOver,
         NoneOver' /\ Expects(o) <= stock.onOrder =>
             stock'.onOrder = stock.onOrder - Expects(o) + Expects(o)'
  PROVE  OnOrderTellsOpenOrders'
<1>0. ColumnsInv
  BY DEF SendInv
<1>1. \A p \in Orders \ {o} : Expects(p)' = Expects(p)
  <2> SUFFICES ASSUME NEW p \in Orders \ {o} PROVE StillDueOf(p)' = StillDueOf(p)
    BY DEF Expects
  <2>1. \A l \in LinesOf(p) : qtyReceived'[l] = qtyReceived[l]
    BY DEF LinesOf
  <2>2. [l \in LinesOf(p) |-> StillDue(l)'] = [l \in LinesOf(p) |-> StillDue(l)]
    BY <2>1 DEF StillDue
  <2> QED
    BY <2>2 DEF StillDueOf, StillDue, LinesOf
<1>2. /\ Expected' = Expected - Expects(o) + Expects(o)'
      /\ Expected \in Nat /\ Expects(o) <= Expected
  BY <1>0, <1>1, ExpectedMoves
<1>3. (ColumnsInv => (OnOrderTellsOpenOrders <=> OnOrderTells))'
  BY OnOrderIs, PTL
<1>4. ASSUME ~trampled', NoneOver' PROVE stock'.onOrder = Expected'
  <2>1. stock.onOrder = Expected
    BY <1>0, <1>4, OnOrderIs DEF OnOrderTells
  <2> QED
    BY <1>2, <1>4, <2>1
<1> QED
  BY <1>3, <1>4 DEF OnOrderTells

(* What arrives is no longer due.                                             *)
LEMMA ArrivalsSum ==
  ASSUME ColumnsInv, NEW o \in Orders, NEW qty \in [Lines -> 0..1], ReceiveGoods(o, qty), NoneOver'
  PROVE  LET arrived == SumFunction([l \in LinesOf(o) |-> qty[l]])
         IN  /\ arrived \in Nat
             /\ StillDueOf(o) = StillDueOf(o)' + arrived
             /\ StillDueOf(o)' \in Nat
<1>1. qtyReceived' = [l \in Lines |-> qtyReceived[l] + qty[l]]
  BY DEF ReceiveGoods
<1>2. \A l \in Lines : /\ qtyReceived[l] \in Nat /\ Ordered[l] \in Nat /\ qty[l] \in Nat
                       /\ qtyReceived'[l] = qtyReceived[l] + qty[l]
                       /\ qtyReceived'[l] <= Ordered[l]
  BY <1>1 DEF ColumnsInv, NoneOver
<1>3. LinesOf(o) \in SUBSET Lines
  BY DEF LinesOf
<1>4. \A l \in LinesOf(o) : /\ StillDue(l) \in Nat /\ StillDue(l)' \in Nat
                            /\ StillDue(l) = StillDue(l)' + qty[l]
  <2>1. \A n, m, k \in Nat : n + k <= m =>
            (IF n < m THEN m - n ELSE 0) = (IF n + k < m THEN m - (n + k) ELSE 0) + k
    OBVIOUS
  <2>2. \A n, m \in Nat : (IF n < m THEN m - n ELSE 0) \in Nat
    OBVIOUS
  <2> SUFFICES ASSUME NEW l \in LinesOf(o)
               PROVE  /\ StillDue(l) \in Nat /\ StillDue(l)' \in Nat
                      /\ StillDue(l) = StillDue(l)' + qty[l]
    OBVIOUS
  <2>3. PICK n \in Nat, m \in Nat, k \in Nat :
            /\ n = qtyReceived[l] /\ m = Ordered[l] /\ k = qty[l]
            /\ qtyReceived'[l] = n + k /\ n + k <= m
    BY <1>2, <1>3
  <2>4. /\ StillDue(l) = (IF n < m THEN m - n ELSE 0)
        /\ StillDue(l)' = (IF n + k < m THEN m - (n + k) ELSE 0)
    BY <2>3 DEF StillDue
  <2> QED
    BY <2>1, <2>2, <2>3, <2>4
<1>5. PICK f \in [LinesOf(o) -> Nat] : f = [l \in LinesOf(o) |-> StillDue(l)]
  BY <1>4
<1>6. PICK g \in [LinesOf(o) -> Nat] : g = [l \in LinesOf(o) |-> StillDue(l)']
  BY <1>4
<1>7. PICK h \in [LinesOf(o) -> Nat] : h = [l \in LinesOf(o) |-> qty[l]]
  BY <1>2, <1>3
<1>8. SumFunction(g) \in Nat /\ SumFunction(h) \in Nat
  BY <1>3, SumsOfLines
<1>9. SumFunction(f) = SumFunction(g) + SumFunction(h)
  <2>1. /\ f \in [LinesOf(o) -> Int] /\ g \in [LinesOf(o) -> Int] /\ h \in [LinesOf(o) -> Int]
        /\ \A l \in LinesOf(o) : f[l] = g[l] + h[l]
    BY <1>4, <1>5, <1>6, <1>7
  <2> QED
    BY <1>3, <2>1, SumsOfLines
<1>10. StillDueOf(o)' = SumFunction(g)
  <2>1. StillDueOf(o)' = SumFunction([l \in LinesOf(o)' |-> StillDue(l)'])
    BY DEF StillDueOf, StillDue
  <2>2. LinesOf(o)' = LinesOf(o)
    BY DEF LinesOf
  <2> QED
    BY <1>6, <2>1, <2>2
<1> QED
  BY <1>5, <1>7, <1>8, <1>9, <1>10 DEF StillDueOf
LEMMA ArrivedType ==
  ASSUME NEW o \in Orders, NEW qty \in [Lines -> 0..1]
  PROVE  SumFunction([l \in LinesOf(o) |-> qty[l]]) \in Nat
<1>1. LinesOf(o) \in SUBSET Lines /\ \A l \in LinesOf(o) : qty[l] \in Nat
  BY DEF LinesOf
<1>2. [l \in LinesOf(o) |-> qty[l]] \in [LinesOf(o) -> Nat]
  BY <1>1
<1> QED
  BY <1>1, <1>2, SumsOfLines

--------------------------------------------------------------------------------

StockTyped ==
    /\ sentAt \in [Orders -> Nat] /\ stock \in Position /\ moved \in Int
    /\ issue \in [Issuers -> Nat] /\ changes \in Nat
    /\ plan \in [Planners -> {NoPlan} \cup [at : {"loaded", "compared"}, copy : Position,
                                            dirty : SUBSET {"onHand", "onOrder", "reorderPoint"}]]
    /\ trampled \in BOOLEAN

LEMMA TypesAre == PurchaseTypeOK <=> ColumnsInv /\ StockTyped
<1>1. stock \in Position => DOMAIN stock = {"onHand", "onOrder", "reorderPoint"}
  BY DEF Position
<1> QED
  BY <1>1 DEF PurchaseTypeOK, ColumnsInv, StockTyped

(* Of an order's step: the stock row is adjusted by what the order expects.   *)
LEMMA OrderTyped ==
  ASSUME ColumnsInv, StockTyped, NEW o \in Orders, OrderStep(o)
  PROVE  StockTyped'
<1>1. \A a \in Int : AdjustOnOrder(stock, a) \in Position
  BY AdjustType DEF StockTyped
<1>2. StillDueOf(o) \in Int /\ -StillDueOf(o) \in Int
  BY DueType DEF DueNat
<1>3. CASE Submit(o) \/ Reopen(o)
  BY <1>3 DEF Submit, Reopen, positionVars, StockTyped
<1>4. CASE ApproveOrder(o) \/ CloseShort(o) \/ CancelOrder(o)
  <2>1. stock' \in Position
    BY <1>1, <1>2, <1>4 DEF ApproveOrder, CloseShort, CancelOrder, StockTyped
  <2> QED
    BY <1>4, <2>1 DEF ApproveOrder, CloseShort, CancelOrder, StockTyped
<1>5. ASSUME NEW qty \in [Lines -> 0..1], ReceiveGoods(o, qty) PROVE StockTyped'
  <2>1. PICK n \in Nat : n = SumFunction([l \in LinesOf(o) |-> qty[l]])
    BY ArrivedType
  <2>2. /\ stock' = AdjustOnOrder(ApplyMovement(stock, n), -n) /\ moved' = moved + n
        /\ UNCHANGED <<sentAt, issue, changes, plan, trampled>>
    BY <1>5, <2>1 DEF ReceiveGoods
  <2>3. n \in Int /\ -n \in Int /\ stock \in Position
    BY DEF StockTyped
  <2>4. ApplyMovement(stock, n) \in Position
    BY <2>3, AdjustType
  <2>5. stock' \in Position
    BY <2>2, <2>3, <2>4, AdjustType
  <2> QED
    BY <2>2, <2>5 DEF StockTyped
<1> QED
  BY <1>3, <1>4, <1>5 DEF OrderStep

LEMMA SenderTyped ==
  ASSUME ColumnsInv, StockTyped, NEW s \in Senders, SendStep(s)
  PROVE  StockTyped'
<1>1. UNCHANGED positionVars
  BY DEF SendStep, LookBeforeSend, MarkSent, LoseClaim, MailGoesOut, MailFails, RevertSent,
         SenderDies
<1>2. sentAt' \in [Orders -> Nat]
  <2>1. \/ UNCHANGED sentAt
        \/ \E o, n : /\ sentAt' = [sentAt EXCEPT ![o] = n] /\ (n = 0 \/ n = claims + 1)
    BY DEF SendStep, LookBeforeSend, MarkSent, LoseClaim, MailGoesOut, MailFails, RevertSent,
           SenderDies
  <2>2. 0 \in Nat /\ claims + 1 \in Nat
    BY DEF ColumnsInv
  <2> QED
    BY <2>1, <2>2 DEF StockTyped
<1> QED
  BY <1>1, <1>2 DEF positionVars, StockTyped

LEMMA PositionTyped == ASSUME StockTyped, PositionStep PROVE StockTyped'
<1>0. stock \in Position
  BY DEF StockTyped
<1>1. \A a \in Int : ApplyMovement(stock, a) \in Position
  BY <1>0, AdjustType
<1>2. ASSUME NEW i \in Issuers, CheckAvailable(i, 1) PROVE StockTyped'
  BY <1>2 DEF CheckAvailable, StockTyped, orderVars
<1>3. ASSUME NEW i \in Issuers, IssueStock(i) PROVE StockTyped'
  <2>1. -issue[i] \in Int /\ moved - issue[i] \in Int
    BY DEF StockTyped
  <2>2. stock' \in Position /\ moved' \in Int
    BY <1>1, <1>3, <2>1 DEF IssueStock
  <2> QED
    BY <1>3, <2>2 DEF IssueStock, StockTyped, orderVars
<1>4. ASSUME NEW qty \in {-1, 1}, AdjustStock(qty) PROVE StockTyped'
  <2>1. qty \in Int /\ moved + qty \in Int /\ changes + 1 \in Nat
    BY DEF StockTyped
  <2>2. stock' \in Position /\ moved' \in Int /\ changes' \in Nat
    BY <1>1, <1>4, <2>1 DEF AdjustStock
  <2> QED
    BY <1>4, <2>2 DEF AdjustStock, StockTyped, orderVars
<1>5. ASSUME NEW r \in Planners, NEW level \in Levels, LoadPosition(r, level) PROVE StockTyped'
  <2> DEFINE copy == [stock EXCEPT !.reorderPoint = level]
             x == [at |-> "loaded", dirty |-> {}, copy |-> copy]
  <2>1. copy \in Position
    BY <1>0 DEF Position
  <2>2. plan' = [plan EXCEPT ![r] = x] /\ UNCHANGED <<orderVars, stock, moved, issue, trampled>>
        /\ changes' = changes + 1
    BY <1>5 DEF LoadPosition
  <2> HIDE DEF copy
  <2>3. x \in [at : {"loaded", "compared"}, copy : Position,
               dirty : SUBSET {"onHand", "onOrder", "reorderPoint"}]
    BY <2>1
  <2> HIDE DEF x
  <2> QED
    BY <2>2, <2>3 DEF StockTyped, orderVars
<1>6. ASSUME NEW r \in Planners, ComparePosition(r) PROVE StockTyped'
  <2> DEFINE dirty == Dirty(plan[r].copy, stock)
             x == [plan[r] EXCEPT !.at = "compared", !.dirty = dirty]
             Loaded == [at : {"loaded", "compared"}, copy : Position,
                        dirty : SUBSET {"onHand", "onOrder", "reorderPoint"}]
  <2>1. plan[r] \in Loaded
    BY <1>6 DEF ComparePosition, StockTyped, NoPlan
  <2>2. DOMAIN plan[r].copy = {"onHand", "onOrder", "reorderPoint"}
    BY <2>1 DEF Position
  <2>3. dirty \in SUBSET {"onHand", "onOrder", "reorderPoint"}
    BY <2>2 DEF Dirty
  <2>4. plan' = [plan EXCEPT ![r] = x]
    BY <1>6 DEF ComparePosition, StockTyped
  <2> HIDE DEF dirty
  <2>5. x \in Loaded
    BY <2>1, <2>3
  <2>6. plan' \in [Planners -> {NoPlan} \cup Loaded]
    <3> HIDE DEF x
    <3> QED
      BY <2>4, <2>5 DEF StockTyped
  <2>7. UNCHANGED <<sentAt, stock, moved, issue, changes, trampled>>
    BY <1>6 DEF ComparePosition, orderVars
  <2> QED
    BY <2>6, <2>7 DEF StockTyped
<1>7. ASSUME NEW r \in Planners, SavePosition(r) PROVE StockTyped'
  <2>1. plan[r].copy \in Position /\ plan[r].dirty \subseteq {"onHand", "onOrder", "reorderPoint"}
    BY <1>7 DEF SavePosition, StockTyped, NoPlan
  <2>2. Saved(plan[r].copy, stock, plan[r].dirty) \in Position
    BY <1>0, <2>1 DEF Saved, Position
  <2>3. stock' \in Position /\ trampled' \in BOOLEAN
    BY <1>7, <2>2 DEF SavePosition, StockTyped
  <2>4. plan' = [plan EXCEPT ![r] = NoPlan] /\ UNCHANGED <<orderVars, moved, issue, changes>>
    BY <1>7 DEF SavePosition
  <2> QED
    BY <2>3, <2>4 DEF StockTyped, orderVars
<1> QED
  BY <1>2, <1>3, <1>4, <1>5, <1>6, <1>7 DEF PositionStep

LEMMA PurchaseTypes == PurchaseSpec => [](ColumnsInv /\ StockTyped)
<1>1. PurchaseInit => StockTyped
  <2> SUFFICES ASSUME PurchaseInit PROVE StockTyped
    OBVIOUS
  <2>1. stock \in Position
    BY DEF PurchaseInit, Position
  <2>2. /\ sentAt \in [Orders -> Nat] /\ moved \in Int
        /\ issue \in [Issuers -> Nat] /\ changes \in Nat /\ trampled \in BOOLEAN
    <3>1. /\ sentAt = [o \in Orders |-> 0] /\ moved = 0
          /\ issue = [i \in Issuers |-> 0] /\ changes = 0
      BY DEF PurchaseInit
    <3>2. trampled \in BOOLEAN
      BY DEF PurchaseInit
    <3> QED
      BY <3>1, <3>2
  <2>3. plan = [r \in Planners |-> NoPlan]
    BY DEF PurchaseInit
  <2> QED
    BY <2>1, <2>2, <2>3 DEF StockTyped
<1>2. SendInv => ColumnsInv
  BY DEF SendInv
<1>3. ColumnsInv /\ StockTyped /\ [PurchaseNext]_purchaseVars => StockTyped'
  <2>1. UNCHANGED purchaseVars /\ StockTyped => StockTyped'
    BY DEF purchaseVars, orderVars, positionVars, StockTyped
  <2> QED
    BY <2>1, OrderTyped, SenderTyped, PositionTyped DEF PurchaseNext
<1> QED
  BY <1>1, <1>2, <1>3, SendAlways, PTL DEF PurchaseSpec

(* Orders, the requests in progress and the stock row keep their types: what  *)
(* is on order is never negative, whatever is received, released or saved.    *)
THEOREM PurchaseTypeCorrect == PurchaseSpec => []PurchaseTypeOK
BY TypesAre, PurchaseTypes, PTL
--------------------------------------------------------------------------------

(* What a step of an order moves: it leaves the others alone, and what is on  *)
(* order follows what this one expects.                                       *)
LEMMA OrderExpects ==
  ASSUME SendInv, StockTyped, NEW o \in Orders, OrderStep(o)
  PROVE  /\ \A p \in Orders \ {o} : orderStatus'[p] = orderStatus[p]
         /\ \A l \in Lines : /\ OrderOf[l] # o => qtyReceived'[l] = qtyReceived[l]
                            /\ qtyReceived[l] <= qtyReceived'[l]
         /\ UNCHANGED trampled
         /\ NoneOver' /\ Expects(o) <= stock.onOrder =>
                stock'.onOrder = stock.onOrder - Expects(o) + Expects(o)'
<1>0. ColumnsInv /\ stock \in Position
  BY DEF SendInv, StockTyped
<1>1. PICK n \in Nat : n = stock.onOrder
  BY <1>0 DEF Position
<1>2. PICK due \in Nat : due = StillDueOf(o)
  BY <1>0, DueType DEF DueNat
<1>3. \A a \in Int : n + a \in Nat => AdjustOnOrder(stock, a).onOrder = n + a
  BY <1>0, <1>1, AdjustType
<1>4. UNCHANGED qtyReceived => StillDueOf(o)' = StillDueOf(o)
  BY DEF StillDueOf, StillDue, LinesOf
<1>5. \A l \in Lines : qtyReceived[l] \in Nat
  BY <1>0 DEF ColumnsInv
<1>6. ASSUME NEW to, MayBecome(o, to), Become(o, to), UNCHANGED <<qtyReceived, trampled>>,
             Expects(o) <= n => stock'.onOrder = n - Expects(o) + (IF to \in Committed THEN due ELSE 0)
      PROVE  /\ \A p \in Orders \ {o} : orderStatus'[p] = orderStatus[p]
             /\ \A l \in Lines : /\ OrderOf[l] # o => qtyReceived'[l] = qtyReceived[l]
                                /\ qtyReceived[l] <= qtyReceived'[l]
             /\ UNCHANGED trampled
             /\ NoneOver' /\ Expects(o) <= stock.onOrder =>
                    stock'.onOrder = stock.onOrder - Expects(o) + Expects(o)'
  <2>1. orderStatus'[o] = to /\ \A p \in Orders \ {o} : orderStatus'[p] = orderStatus[p]
    BY <1>0, <1>6 DEF Become, ColumnsInv
  <2>2. Expects(o)' = IF to \in Committed THEN due ELSE 0
    BY <1>2, <1>4, <1>6, <2>1 DEF Expects
  <2> QED
    BY <1>1, <1>5, <1>6, <2>1, <2>2
<1>7. orderStatus[o] \in {"DRAFT", "AWAITING_APPROVAL", "APPROVED", "SENT", "PARTIALLY_RECEIVED",
                          "RECEIVED", "CANCELLED"}
  BY <1>0, StatusKinds DEF ColumnsInv
<1>8. Expects(o) = IF orderStatus[o] \in Committed THEN due ELSE 0
  BY <1>2 DEF Expects
<1>9. CASE Submit(o) \/ Reopen(o)
  <2>1. PICK to \in {"AWAITING_APPROVAL", "DRAFT"} : MayBecome(o, to) /\ Become(o, to)
    BY <1>9 DEF Submit, Reopen
  <2>2. UNCHANGED <<qtyReceived, stock, trampled>>
    BY <1>9 DEF Submit, Reopen, positionVars
  <2>3. Expects(o) = 0 /\ to \notin Committed
    BY <1>7, <1>8, <2>1 DEF MayBecome, OrderTransitions, Committed
  <2>4. stock'.onOrder = n - Expects(o) + 0
    BY <1>1, <2>2, <2>3
  <2> QED
    BY <1>6, <2>1, <2>2, <2>3, <2>4
<1>10. CASE ApproveOrder(o)
  <2>1. /\ MayBecome(o, "APPROVED") /\ Become(o, "APPROVED")
        /\ stock' = AdjustOnOrder(stock, due) /\ UNCHANGED <<qtyReceived, trampled>>
    BY <1>2, <1>10 DEF ApproveOrder
  <2>2. Expects(o) = 0 /\ "APPROVED" \in Committed
    BY <1>7, <1>8, <2>1 DEF MayBecome, OrderTransitions, Committed
  <2>3. stock'.onOrder = n + due
    BY <1>3, <2>1
  <2>4. stock'.onOrder = n - Expects(o) + due
    BY <2>2, <2>3
  <2> QED
    BY <1>6, <2>1, <2>2, <2>4
<1>11. ASSUME NEW to \in {"RECEIVED", "CANCELLED"}, MayBecome(o, to), Become(o, to),
              stock' = IF orderStatus[o] \in Committed THEN AdjustOnOrder(stock, -due) ELSE stock,
              UNCHANGED <<qtyReceived, trampled>>
       PROVE  /\ \A p \in Orders \ {o} : orderStatus'[p] = orderStatus[p]
              /\ \A l \in Lines : /\ OrderOf[l] # o => qtyReceived'[l] = qtyReceived[l]
                                 /\ qtyReceived[l] <= qtyReceived'[l]
              /\ UNCHANGED trampled
              /\ NoneOver' /\ Expects(o) <= stock.onOrder =>
                     stock'.onOrder = stock.onOrder - Expects(o) + Expects(o)'
  <2>1. to \notin Committed
    BY DEF Committed
  <2>2. ASSUME Expects(o) <= n PROVE stock'.onOrder = n - Expects(o) + 0
    <3>1. CASE orderStatus[o] \in Committed
      <4>1. Expects(o) = due /\ stock' = AdjustOnOrder(stock, -due)
        BY <1>8, <1>11, <3>1
      <4>2. -due \in Int /\ n + (-due) \in Nat /\ n + (-due) = n - due + 0
        BY <2>2, <4>1
      <4> QED
        BY <1>3, <4>1, <4>2
    <3>2. CASE orderStatus[o] \notin Committed
      <4>1. Expects(o) = 0 /\ stock' = stock
        BY <1>8, <1>11, <3>2
      <4> QED
        BY <1>1, <4>1
    <3> QED
      BY <3>1, <3>2
  <2> QED
    BY <1>6, <1>11, <2>1, <2>2
<1>12. CASE CloseShort(o)
  <2>1. /\ MayBecome(o, "RECEIVED") /\ Become(o, "RECEIVED")
        /\ stock' = AdjustOnOrder(stock, -due) /\ UNCHANGED <<qtyReceived, trampled>>
    BY <1>2, <1>12 DEF CloseShort
  <2>2. orderStatus[o] \in Committed
    BY <1>7, <2>1 DEF MayBecome, OrderTransitions, Committed
  <2> QED
    BY <1>11, <2>1, <2>2
<1>13. CASE CancelOrder(o)
  BY <1>2, <1>11, <1>13 DEF CancelOrder
<1>14. ASSUME NEW qty \in [Lines -> 0..1], ReceiveGoods(o, qty)
       PROVE  /\ \A p \in Orders \ {o} : orderStatus'[p] = orderStatus[p]
              /\ \A l \in Lines : /\ OrderOf[l] # o => qtyReceived'[l] = qtyReceived[l]
                                 /\ qtyReceived[l] <= qtyReceived'[l]
              /\ UNCHANGED trampled
              /\ NoneOver' /\ Expects(o) <= stock.onOrder =>
                     stock'.onOrder = stock.onOrder - Expects(o) + Expects(o)'
  <2>1. PICK arrived \in Nat : arrived = SumFunction([l \in LinesOf(o) |-> qty[l]])
    BY ArrivedType
  <2>2. PICK to \in {"RECEIVED", "PARTIALLY_RECEIVED"} :
            /\ orderStatus' = [orderStatus EXCEPT ![o] = to]
            /\ to = "RECEIVED" => \A l \in LinesOf(o) : qtyReceived'[l] >= Ordered[l]
    BY <1>14 DEF ReceiveGoods, Become
  <2>3. /\ orderStatus[o] \in Committed
        /\ \A l \in Lines : qty[l] > 0 => OrderOf[l] = o
        /\ qtyReceived' = [l \in Lines |-> qtyReceived[l] + qty[l]]
        /\ stock' = AdjustOnOrder(ApplyMovement(stock, arrived), -arrived)
        /\ UNCHANGED trampled
    BY <1>14, <2>1 DEF ReceiveGoods, Committed
  <2>4. \A l \in Lines : /\ OrderOf[l] # o => qtyReceived'[l] = qtyReceived[l]
                        /\ qtyReceived[l] <= qtyReceived'[l]
    <3>1. \A l \in Lines : qty[l] \in Nat /\ (OrderOf[l] # o => qty[l] = 0)
      BY <2>3
    <3>2. \A m, k \in Nat : m <= m + k /\ m + 0 = m
      OBVIOUS
    <3> QED
      BY <1>5, <2>3, <3>1, <3>2
  <2>5. orderStatus'[o] = to /\ \A p \in Orders \ {o} : orderStatus'[p] = orderStatus[p]
    BY <1>0, <2>2 DEF ColumnsInv
  <2>6. ASSUME NoneOver', Expects(o) <= n
        PROVE  stock'.onOrder = n - Expects(o) + Expects(o)'
    <3>1. due = StillDueOf(o)' + arrived /\ StillDueOf(o)' \in Nat
      BY <1>0, <1>2, <1>14, <2>1, <2>6, ArrivalsSum
    <3>2. Expects(o) = due
      BY <1>8, <2>3
    <3>3. ApplyMovement(stock, arrived) \in Position /\ ApplyMovement(stock, arrived).onOrder = n
      <4>1. stock \in Position /\ arrived \in Int /\ stock.onOrder = n
        BY <1>0, <1>1 DEF PurchaseTypeOK
      <4> QED
        BY <4>1, AdjustType, Zenon
    <3>4. -arrived \in Int /\ n + (-arrived) \in Nat
      BY <2>6, <3>1, <3>2
    <3>5. stock'.onOrder = n + (-arrived)
      BY <2>3, <3>3, <3>4, AdjustType
    <3>6. Expects(o)' = StillDueOf(o)'
      <4>1. CASE to = "PARTIALLY_RECEIVED"
        BY <2>5, <4>1 DEF Expects, Committed
      <4>2. CASE to = "RECEIVED"
        <5>1. \A l \in LinesOf(o) : ~(qtyReceived'[l] < Ordered[l])
          <6>1. \A l \in LinesOf(o) : qtyReceived'[l] \in Int /\ Ordered[l] \in Int
            BY <1>5, <2>3 DEF LinesOf
          <6> QED
            BY <2>2, <4>2, <6>1
        <5>2. [l \in LinesOf(o) |-> StillDue(l)'] = [l \in LinesOf(o) |-> 0]
          BY <5>1 DEF StillDue
        <5>3. StillDueOf(o)' = SumFunction([l \in LinesOf(o) |-> 0])
          BY <5>2 DEF StillDueOf, StillDue, LinesOf
        <5>4. LinesOf(o) \in SUBSET Lines
          BY DEF LinesOf
        <5>5. PICK f : f = [l \in LinesOf(o) |-> 0] /\ f \in [LinesOf(o) -> Int]
          <6>1. \A S : [l \in S |-> 0] \in [S -> Int]
            OBVIOUS
          <6> QED
            BY <6>1
        <5>6. SumFunction(f) = 0
          BY <5>4, <5>5, SumsOfLines
        <5> QED
          BY <2>5, <4>2, <5>3, <5>5, <5>6 DEF Expects, Committed
      <4> QED
        BY <4>1, <4>2
    <3> QED
      BY <3>1, <3>2, <3>5, <3>6
  <2> QED
    BY <1>1, <2>3, <2>4, <2>5, <2>6
<1> QED
  BY <1>9, <1>10, <1>12, <1>13, <1>14 DEF OrderStep

LEMMA OrderedStep == OrderedInv /\ [PurchaseNext]_purchaseVars => (ColumnsInv' => OnOrderTellsOpenOrders')
<1> SUFFICES ASSUME OrderedInv, [PurchaseNext]_purchaseVars, ColumnsInv'
             PROVE  OnOrderTellsOpenOrders'
  OBVIOUS
<1>0. SendInv /\ StockTyped /\ ColumnsInv /\ OnOrderTellsOpenOrders
  BY TypesAre DEF OrderedInv
<1>1. ASSUME UNCHANGED <<qtyReceived, trampled>>, stock'.onOrder = stock.onOrder,
             \A o \in Orders : orderStatus'[o] \in Committed <=> orderStatus[o] \in Committed
      PROVE  OnOrderTellsOpenOrders'
  <2>1. {p \in Orders : orderStatus'[p] \in Committed} = {p \in Orders : orderStatus[p] \in Committed}
    BY <1>1
  <2> QED
    BY <1>0, <1>1, <2>1 DEF OnOrderTellsOpenOrders, StillDueOf, StillDue, LinesOf
<1>2. CASE UNCHANGED purchaseVars
  BY <1>1, <1>2 DEF purchaseVars, orderVars, positionVars
<1>3. ASSUME NEW o \in Orders, OrderStep(o) PROVE OnOrderTellsOpenOrders'
  <2>1. /\ \A p \in Orders \ {o} : orderStatus'[p] = orderStatus[p]
        /\ \A l \in Lines : /\ OrderOf[l] # o => qtyReceived'[l] = qtyReceived[l]
                           /\ qtyReceived[l] <= qtyReceived'[l]
        /\ UNCHANGED trampled
        /\ NoneOver' /\ Expects(o) <= stock.onOrder =>
               stock'.onOrder = stock.onOrder - Expects(o) + Expects(o)'
    BY <1>0, <1>3, OrderExpects
  <2>2. NoneOver' => NoneOver
    <3>1. \A l \in Lines : qtyReceived[l] \in Int /\ qtyReceived'[l] \in Int /\ Ordered[l] \in Int
      BY <1>0 DEF ColumnsInv
    <3> QED
      BY <2>1, <3>1 DEF NoneOver
  <2> QED
    BY <1>0, <2>1, <2>2, OnOrderKeeps
<1>4. ASSUME NEW s \in Senders, SendStep(s) PROVE OnOrderTellsOpenOrders'
  <2>1. UNCHANGED <<qtyReceived, positionVars>>
    BY <1>4 DEF SendStep, LookBeforeSend, MarkSent, LoseClaim, MailGoesOut, MailFails, RevertSent,
                SenderDies
  <2>2. \/ UNCHANGED orderStatus
        \/ /\ MayBecome(send[s].order, "SENT") /\ Become(send[s].order, "SENT")
           /\ send[s].at = "looked"
        \/ orderStatus[send[s].order] = "SENT" /\ Become(send[s].order, "APPROVED")
    BY <1>4 DEF SendStep, LookBeforeSend, MarkSent, LoseClaim, MailGoesOut, MailFails, RevertSent,
                SenderDies
  <2>3. \A o \in Orders : orderStatus'[o] \in Committed <=> orderStatus[o] \in Committed
    <3>1. CASE UNCHANGED orderStatus
      BY <3>1
    <3>2. CASE /\ MayBecome(send[s].order, "SENT") /\ Become(send[s].order, "SENT")
               /\ send[s].at = "looked"
      <4>1. send[s].order \in Orders
        BY <1>0, <3>2, SenderKinds
      <4>2. orderStatus[send[s].order] = "APPROVED"
        BY <1>0, <3>2, <4>1, Transitions
      <4> QED
        BY <1>0, <3>2, <4>2 DEF Become, Committed, ColumnsInv
    <3>3. CASE orderStatus[send[s].order] = "SENT" /\ Become(send[s].order, "APPROVED")
      BY <1>0, <3>3 DEF Become, Committed, ColumnsInv
    <3> QED
      BY <2>2, <3>1, <3>2, <3>3
  <2> QED
    BY <1>1, <2>1, <2>3 DEF positionVars
<1>5. CASE PositionStep
  <2>1. stock \in Position
    BY <1>0 DEF StockTyped
  <2>2. \A a \in Int : ApplyMovement(stock, a).onOrder = stock.onOrder
    BY <2>1, AdjustType
  <2>3. ASSUME NEW i \in Issuers, CheckAvailable(i, 1) PROVE OnOrderTellsOpenOrders'
    BY <1>1, <2>3 DEF CheckAvailable, orderVars
  <2>4. ASSUME NEW i \in Issuers, IssueStock(i) PROVE OnOrderTellsOpenOrders'
    <3>1. -issue[i] \in Int
      BY <1>0 DEF StockTyped
    <3> QED
      BY <1>1, <2>2, <2>4, <3>1 DEF IssueStock, orderVars
  <2>5. ASSUME NEW qty \in {-1, 1}, AdjustStock(qty) PROVE OnOrderTellsOpenOrders'
    <3>1. qty \in Int
      OBVIOUS
    <3> QED
      BY <1>1, <2>2, <2>5, <3>1 DEF AdjustStock, orderVars
  <2>6. ASSUME NEW r \in Planners, NEW level \in Levels, LoadPosition(r, level)
        PROVE  OnOrderTellsOpenOrders'
    BY <1>1, <2>6 DEF LoadPosition, orderVars
  <2>7. ASSUME NEW r \in Planners, ComparePosition(r) PROVE OnOrderTellsOpenOrders'
    BY <1>1, <2>7 DEF ComparePosition, orderVars
  <2>8. ASSUME NEW r \in Planners, SavePosition(r) PROVE OnOrderTellsOpenOrders'
    <3>1. /\ UNCHANGED orderVars
          /\ trampled' = (trampled \/ stock'.onHand # stock.onHand \/ stock'.onOrder # stock.onOrder)
      BY <2>8 DEF SavePosition
    <3>2. CASE trampled'
      BY <3>2 DEF OnOrderTellsOpenOrders
    <3>3. CASE ~trampled'
      <4>1. ~trampled /\ stock'.onOrder = stock.onOrder
        BY <3>1, <3>3
      <4>2. trampled \in BOOLEAN /\ trampled' \in BOOLEAN
        BY <1>0, <3>1 DEF StockTyped
      <4> QED
        BY <1>1, <3>1, <3>3, <4>1, <4>2 DEF orderVars
    <3> QED
      BY <3>2, <3>3
  <2> QED
    BY <1>5, <2>3, <2>4, <2>5, <2>6, <2>7, <2>8 DEF PositionStep
<1> QED
  BY <1>2, <1>3, <1>4, <1>5 DEF PurchaseNext

LEMMA OrderedInit == PurchaseInit => OnOrderTellsOpenOrders
<1> SUFFICES ASSUME PurchaseInit PROVE OnOrderTellsOpenOrders
  OBVIOUS
<1>1. {p \in Orders : orderStatus[p] \in Committed} = {}
  BY DEF PurchaseInit, Committed
<1>2. \A f : DOMAIN f = {} => SumFunction(f) = 0
  BY SumEmpty
<1>3. DOMAIN [o \in {p \in Orders : orderStatus[p] \in Committed} |-> StillDueOf(o)] = {}
  BY <1>1
<1>4. stock.onOrder = 0
  BY DEF PurchaseInit
<1> QED
  BY <1>2, <1>3, <1>4 DEF OnOrderTellsOpenOrders

(* An outstanding order is counted once: what is on order is what the         *)
(* committed orders still expect, through approvals, receipts, sendings,      *)
(* cancellations and short closings, until a line receives more than it       *)
(* ordered or a stale position is saved.                                      *)
THEOREM OnOrderCorrect == PurchaseSpec => []OnOrderTellsOpenOrders
<1>1. SendInv => ColumnsInv
  BY DEF SendInv
<1>2. SendInv /\ (ColumnsInv /\ StockTyped) /\ OnOrderTellsOpenOrders => OrderedInv
  BY TypesAre DEF OrderedInv
<1> QED
  BY <1>1, <1>2, SendAlways, PurchaseTypes, OrderedInit, OrderedStep, PTL DEF PurchaseSpec

--------------------------------------------------------------------------------
(* The bills *)

HIDE StockAssumption
USE BillsAssumption

Unposted == {"DRAFT", "DISPUTED", "CANCELLED"}

(* What a request has loaded was not posted, and only the status is changed.  *)
EditInv ==
    \A e \in Editors : edit[e] # NoEdit =>
        /\ edit[e].base.status \in Unposted /\ edit[e].copy.status \in Unposted
        /\ edit[e].copy = [edit[e].base EXCEPT !.status = edit[e].copy.status]

(* Only a bill that has posted was ever paid. *)
PaymentInv ==
    \A p \in Payments :
        payment[p] # NoPayment /\ ~raced[payment[p].bill] => Posted(payment[p].bill)

SafeInv == TypeOK /\ EditInv /\ PaymentInv /\ StatusTellsPosting

--------------------------------------------------------------------------------
(* Types *)

LEMMA StatusesAre ==
  Statuses = {"ABSENT", "DRAFT", "DISPUTED", "APPROVED", "PARTIALLY_PAID", "PAID", "CANCELLED"}
BY DEF Statuses, BillTransitions

LEMMA RowColumns ==
  /\ DOMAIN NoRow = {"status", "match", "varianceApproved", "journal", "paid"}
  /\ NoRow \in Row
BY StatusesAre DEF NoRow, Row

LEMMA MatchType ==
  ASSUME NEW d, NEW b, NEW statuses
  PROVE  MatchStatus(d, b, statuses) \in {"UNMATCHED", "MATCHED", "VARIANCE"}
BY DEF MatchStatus

LEMMA TotalType ==
  ASSUME TypeOK, NEW b \in Bills
  PROVE  doc[b].total \in Nat
<1>1. doc[b] \in Documents \cup {NoDocument}
  BY DEF TypeOK
<1>2. doc[b] \in Documents => doc[b].total \in Nat
  OBVIOUS
<1> QED
  BY <1>1, <1>2 DEF NoDocument

(* A row that was saved has each column from one side or from the other.      *)
LEMMA SavedRow ==
  ASSUME NEW copy \in Row, NEW stored \in Row, NEW dirty \in SUBSET DOMAIN NoRow
  PROVE  /\ Saved(copy, stored, dirty) \in Row
         /\ Saved(copy, stored, dirty).status \in {copy.status, stored.status}
         /\ Saved(copy, stored, dirty).journal \in {copy.journal, stored.journal}
         /\ Saved(copy, stored, dirty).paid \in {copy.paid, stored.paid}
<1> DEFINE new == Saved(copy, stored, dirty)
           Columns == {"status", "match", "varianceApproved", "journal", "paid"}
<1>1. DOMAIN stored = Columns
  BY DEF Row
<1>2. new = [c \in Columns |-> IF c \in dirty THEN copy[c] ELSE stored[c]]
  BY <1>1 DEF Saved
<1>3. new = [status |-> new.status, match |-> new.match, varianceApproved |-> new.varianceApproved,
             journal |-> new.journal, paid |-> new.paid]
  BY <1>2
<1>4. /\ new.status \in {copy.status, stored.status} /\ new.match \in {copy.match, stored.match}
      /\ new.varianceApproved \in {copy.varianceApproved, stored.varianceApproved}
      /\ new.journal \in {copy.journal, stored.journal} /\ new.paid \in {copy.paid, stored.paid}
  BY <1>2
<1> HIDE DEF new
<1>5. /\ new.status \in Statuses /\ new.match \in {"UNMATCHED", "MATCHED", "VARIANCE"}
      /\ new.varianceApproved \in BOOLEAN /\ new.journal \in BOOLEAN /\ new.paid \in Int
  BY <1>4 DEF Row
<1>6. new \in Row
  BY <1>3, <1>5 DEF Row
<1> QED
  BY <1>4, <1>6 DEF new

LEMMA EditType ==
  ASSUME TypeOK, NEW e \in Editors, edit[e].at \in {"loaded", "compared"}
  PROVE  /\ edit[e] \in Edit /\ edit[e] # NoEdit
         /\ edit[e].bill \in Bills /\ edit[e].base \in Row /\ edit[e].copy \in Row
         /\ edit[e].dirty \in SUBSET DOMAIN NoRow
<1>1. edit[e] \in Edit \cup {NoEdit} /\ edit[e] # NoEdit
  BY DEF TypeOK, NoEdit
<1>2. edit[e] \in Edit
  BY <1>1
<1> QED
  BY <1>1, <1>2 DEF Edit

LEMMA PaymentType ==
  ASSUME TypeOK, NEW p \in Payments, payment[p] # NoPayment
  PROVE  /\ payment[p] \in [bill : Bills, amount : Nat, reversed : BOOLEAN]
         /\ payment[p].bill \in Bills /\ payment[p].amount \in Nat
<1>1. payment[p] \in [bill : Bills, amount : Nat, reversed : BOOLEAN]
  BY DEF TypeOK
<1> QED
  BY <1>1

(* What a step of one bill leaves of its row.                                 *)
LEMMA CreateType ==
  ASSUME TypeOK, NEW b \in Bills, NEW d \in Documents, Create(b, d)
  PROVE  /\ row' \in [Bills -> Row] /\ row'[b].status = "DRAFT" /\ row'[b].journal = FALSE
         /\ row'[b].paid = 0
         /\ \A o \in Bills \ {b} : row'[o] = row[o]
<1>1. PICK match \in {"UNMATCHED", "MATCHED", "VARIANCE"} : match = MatchStatus(d, b, LiveBillStatuses)
  BY MatchType
<1> DEFINE x == [NoRow EXCEPT !.status = "DRAFT", !.match = match]
<1>2. row' = [row EXCEPT ![b] = x]
  BY <1>1 DEF Create
<1>3. x \in Row /\ x.status = "DRAFT" /\ x.journal = FALSE /\ x.paid = 0
  <2>1. NoRow \in Row /\ NoRow.journal = FALSE /\ NoRow.paid = 0
    BY RowColumns DEF NoRow
  <2> QED
    BY <2>1, StatusesAre DEF Row
<1> HIDE DEF x
<1> QED
  BY <1>2, <1>3 DEF TypeOK

LEMMA ApproveType ==
  ASSUME TypeOK, NEW b \in Bills, NEW may \in BOOLEAN, Approve(b, may)
  PROVE  /\ row' \in [Bills -> Row] /\ row'[b].status = "APPROVED" /\ row'[b].journal = TRUE
         /\ row'[b].paid = row[b].paid
         /\ \A o \in Bills \ {b} : row'[o] = row[o]
<1> DEFINE match == MatchStatus(doc[b], b, PostedBillStatuses)
           accepted == PriceVariance(doc[b])
           x == [status |-> "APPROVED", match |-> match, varianceApproved |-> accepted,
                 journal |-> TRUE, paid |-> row[b].paid]
<1>1. accepted \in BOOLEAN
  BY DEF PriceVariance
<1>2. match \in {"UNMATCHED", "MATCHED", "VARIANCE"}
  BY MatchType
<1>3. row' = [row EXCEPT ![b] = x]
  BY DEF Approve
<1>4. row[b].paid \in Int
  BY DEF TypeOK, Row
<1> HIDE DEF match, accepted
<1>5. x \in Row /\ x.status = "APPROVED" /\ x.journal = TRUE /\ x.paid = row[b].paid
  BY <1>1, <1>2, <1>4, StatusesAre DEF Row
<1> HIDE DEF x
<1> QED
  BY <1>3, <1>5 DEF TypeOK

(* A payment and its reversal set two columns.                                *)
LEMMA PaidType ==
  ASSUME TypeOK, NEW b \in Bills, NEW paid \in Int,
         NEW status \in {"APPROVED", "PARTIALLY_PAID", "PAID"},
         row' = [row EXCEPT ![b].paid = paid, ![b].status = status]
  PROVE  /\ row' \in [Bills -> Row] /\ row'[b].status = status /\ row'[b].journal = row[b].journal
         /\ row'[b].paid = paid
         /\ \A o \in Bills \ {b} : row'[o] = row[o]
<1> DEFINE x == [row[b] EXCEPT !.paid = paid, !.status = status]
<1>1. x \in Row /\ x.status = status /\ x.journal = row[b].journal /\ x.paid = paid
  <2>1. row[b] \in Row /\ status \in Statuses
    BY StatusesAre DEF TypeOK
  <2> QED
    BY <2>1 DEF Row
<1>2. row' = [row EXCEPT ![b] = x]
  BY DEF TypeOK
<1> HIDE DEF x
<1>3. row \in [Bills -> Row] /\ x \in Row
  BY <1>1 DEF TypeOK
<1>4. /\ row' \in [Bills -> Row] /\ row'[b] = x
      /\ \A o \in Bills \ {b} : row'[o] = row[o]
  BY <1>2, <1>3
<1> QED
  BY <1>1, <1>4

LEMMA RecordType ==
  ASSUME TypeOK, NEW p \in Payments, NEW b \in Bills, NEW amount \in 0..MaxAmount,
         RecordPayment(p, b, amount)
  PROVE  /\ row' \in [Bills -> Row] /\ row'[b].status \in {"PARTIALLY_PAID", "PAID"}
         /\ row'[b].status = "PAID" <=> amount = Outstanding(b)
         /\ row'[b].journal = row[b].journal /\ row'[b].paid = row[b].paid + amount
         /\ \A o \in Bills \ {b} : row'[o] = row[o]
<1>1. PICK paid \in Int : paid = row[b].paid + amount
  BY DEF TypeOK, Row
<1>2. PICK status \in {"PARTIALLY_PAID", "PAID"} :
          /\ row' = [row EXCEPT ![b].paid = paid, ![b].status = status]
          /\ status = "PAID" <=> amount = Outstanding(b)
  BY <1>1 DEF RecordPayment, TypeOK, Row
<1>3. /\ row' \in [Bills -> Row] /\ row'[b].status = status
      /\ row'[b].journal = row[b].journal /\ row'[b].paid = paid
      /\ \A o \in Bills \ {b} : row'[o] = row[o]
  BY <1>2, PaidType
<1> QED
  BY <1>1, <1>2, <1>3

LEMMA ReverseType ==
  ASSUME TypeOK, NEW p \in Payments, ReversePayment(p)
  PROVE  LET b == payment[p].bill IN
         /\ row' \in [Bills -> Row] /\ row'[b].status \in {"APPROVED", "PARTIALLY_PAID"}
         /\ row'[b].journal = row[b].journal /\ row'[b].paid = row[b].paid - payment[p].amount
         /\ \A o \in Bills \ {b} : row'[o] = row[o]
<1>1. PICK b \in Bills : b = payment[p].bill
  BY PaymentType DEF ReversePayment
<1>2. PICK paid \in Int : paid = row[b].paid - payment[p].amount
  BY <1>1, PaymentType DEF ReversePayment, TypeOK, Row
<1>3. PICK status \in {"APPROVED", "PARTIALLY_PAID"} :
          row' = [row EXCEPT ![b].paid = paid, ![b].status = status]
  BY <1>1, <1>2 DEF ReversePayment
<1>4. /\ row' \in [Bills -> Row] /\ row'[b].status = status
      /\ row'[b].journal = row[b].journal /\ row'[b].paid = paid
      /\ \A o \in Bills \ {b} : row'[o] = row[o]
  BY <1>3, PaidType
<1> QED
  BY <1>1, <1>2, <1>3, <1>4

LEMMA LoadType ==
  ASSUME TypeOK, NEW e \in Editors, NEW b \in Bills, NEW to \in Statuses, Load(e, b, to)
  PROVE  /\ edit' \in [Editors -> Edit \cup {NoEdit}] /\ edit'[e].bill = b
         /\ edit'[e].base = row[b] /\ edit'[e].copy = [row[b] EXCEPT !.status = to]
         /\ edit'[e].copy.status = to
         /\ \A f \in Editors \ {e} : edit'[f] = edit[f]
<1> DEFINE copy == [row[b] EXCEPT !.status = to]
           x == [at |-> "loaded", bill |-> b, base |-> row[b], copy |-> copy, dirty |-> {}]
<1>1. row[b] \in Row
  BY DEF TypeOK
<1>2. copy \in Row /\ copy.status = to
  BY <1>1 DEF Row
<1>3. edit' = [edit EXCEPT ![e] = x]
  BY DEF Load
<1> HIDE DEF copy
<1>4. x \in Edit /\ x.bill = b /\ x.base = row[b] /\ x.copy = copy
  BY <1>1, <1>2 DEF Edit
<1> HIDE DEF x
<1>5. /\ edit' \in [Editors -> Edit \cup {NoEdit}] /\ edit'[e].bill = b
      /\ edit'[e].base = row[b] /\ edit'[e].copy = copy
      /\ \A f \in Editors \ {e} : edit'[f] = edit[f]
  BY <1>3, <1>4 DEF TypeOK
<1> QED
  BY <1>2, <1>5 DEF copy

LEMMA CompareType ==
  ASSUME TypeOK, NEW e \in Editors, Compare(e)
  PROVE  /\ edit' \in [Editors -> Edit \cup {NoEdit}]
         /\ edit[e] # NoEdit /\ edit'[e].bill = edit[e].bill
         /\ edit'[e].base = edit[e].base /\ edit'[e].copy = edit[e].copy
         /\ \A f \in Editors \ {e} : edit'[f] = edit[f]
<1>1. /\ edit[e] \in Edit /\ edit[e] # NoEdit
      /\ edit[e].bill \in Bills /\ edit[e].copy \in Row
  BY EditType DEF Compare
<1> DEFINE dirty == Dirty(edit[e].copy, row[edit[e].bill])
           x == [edit[e] EXCEPT !.at = "compared", !.dirty = dirty]
<1>2. dirty \in SUBSET DOMAIN NoRow
  <2>1. DOMAIN edit[e].copy = DOMAIN NoRow
    BY <1>1, RowColumns DEF Row
  <2> QED
    BY <2>1 DEF Dirty
<1>3. edit' = [edit EXCEPT ![e] = x]
  BY DEF Compare
<1> HIDE DEF dirty
<1>4. x \in Edit /\ x.bill = edit[e].bill /\ x.base = edit[e].base /\ x.copy = edit[e].copy
  BY <1>1, <1>2 DEF Edit
<1> HIDE DEF x
<1> QED
  BY <1>1, <1>3, <1>4 DEF TypeOK

LEMMA SaveType ==
  ASSUME TypeOK, NEW e \in Editors, Save(e)
  PROVE  LET b == edit[e].bill
             new == Saved(edit[e].copy, row[b], edit[e].dirty)
         IN  /\ row' \in [Bills -> Row] /\ raced' \in [Bills -> BOOLEAN]
             /\ \A o \in Bills : raced[o] => raced'[o]
             /\ \A o \in Bills \ {b} : row'[o] = row[o] /\ raced'[o] = raced[o]
             /\ \/ row'[b] = row[b] /\ raced'[b] = raced[b]
                \/ row'[b] = new /\ (raced'[b] \/ row[b] \in {edit[e].base, new})
<1>1. /\ edit[e].bill \in Bills /\ edit[e].copy \in Row
      /\ edit[e].dirty \in SUBSET DOMAIN NoRow /\ row[edit[e].bill] \in Row
  BY EditType DEF Save, TypeOK
<1>2. PICK b \in Bills, new \in Row :
          b = edit[e].bill /\ new = Saved(edit[e].copy, row[b], edit[e].dirty)
  BY <1>1, SavedRow
<1>3. \/ UNCHANGED <<row, raced>>
      \/ /\ row' = [row EXCEPT ![b] = new]
         /\ raced' = [raced EXCEPT ![b] = raced[b] \/ row[b] \notin {edit[e].base, new}]
  BY <1>2 DEF Save
<1>4. CASE UNCHANGED <<row, raced>>
  BY <1>2, <1>4 DEF TypeOK
<1>5. CASE /\ row' = [row EXCEPT ![b] = new]
           /\ raced' = [raced EXCEPT ![b] = raced[b] \/ row[b] \notin {edit[e].base, new}]
  BY <1>2, <1>5 DEF TypeOK
<1> QED
  BY <1>3, <1>4, <1>5

LEMMA TypeInit == Init => TypeOK
<1> SUFFICES ASSUME Init PROVE TypeOK
  OBVIOUS
<1>1. NoRow \in Row /\ 0 \in 0..MaxReceived
  BY RowColumns
<1> QED
  BY <1>1 DEF Init, TypeOK

LEMMA TypeStep == TypeOK /\ [Next]_vars => TypeOK'
<1> SUFFICES ASSUME TypeOK, [Next]_vars PROVE TypeOK'
  OBVIOUS
<1>1. ASSUME NEW l \in OrderLines, Receive(l) PROVE TypeOK'
  <2>1. received' \in [OrderLines -> 0..MaxReceived]
    BY <1>1 DEF Receive, TypeOK
  <2> QED
    BY <1>1, <2>1 DEF Receive, TypeOK
<1>2. ASSUME NEW b \in Bills, NEW d \in Documents, Create(b, d) PROVE TypeOK'
  <2>1. doc' \in [Bills -> Documents \cup {NoDocument}]
    BY <1>2 DEF Create, TypeOK
  <2> QED
    BY <1>2, <2>1, CreateType DEF Create, TypeOK
<1>3. ASSUME NEW b \in Bills, NEW may \in BOOLEAN, Approve(b, may) PROVE TypeOK'
  <2>1. payable' \in Int
    BY <1>3, TotalType DEF Approve, TypeOK
  <2>2. entries' \in [Bills -> Nat]
    BY <1>3 DEF Approve, TypeOK
  <2> QED
    BY <1>3, <2>1, <2>2, ApproveType DEF Approve, TypeOK
<1>4. ASSUME NEW e \in Editors, NEW b \in Bills, NEW to \in Statuses, Load(e, b, to) PROVE TypeOK'
  BY <1>4, LoadType DEF Load, TypeOK
<1>5. ASSUME NEW e \in Editors, Compare(e) PROVE TypeOK'
  BY <1>5, CompareType DEF Compare, TypeOK
<1>6. ASSUME NEW e \in Editors, Save(e) PROVE TypeOK'
  <2>1. edit' \in [Editors -> Edit \cup {NoEdit}]
    BY <1>6 DEF Save, TypeOK
  <2>2. UNCHANGED <<received, doc, payment, cash, payable, entries>>
    BY <1>6 DEF Save
  <2> QED
    BY <1>6, <2>1, <2>2, SaveType DEF TypeOK
<1>7. ASSUME NEW p \in Payments, NEW b \in Bills, NEW amount \in 0..MaxAmount,
             RecordPayment(p, b, amount)
      PROVE  TypeOK'
  <2>1. amount \in Nat
    OBVIOUS
  <2>2. payment' \in [Payments -> [bill : Bills, amount : Nat, reversed : BOOLEAN] \cup {NoPayment}]
    <3>1. [bill |-> b, amount |-> amount, reversed |-> FALSE]
              \in [bill : Bills, amount : Nat, reversed : BOOLEAN]
      BY <2>1
    <3>2. payment' = [payment EXCEPT ![p] = [bill |-> b, amount |-> amount, reversed |-> FALSE]]
      BY <1>7 DEF RecordPayment
    <3> QED
      BY <3>1, <3>2 DEF TypeOK
  <2>3. cash' \in Int /\ payable' \in Int
    BY <1>7, <2>1 DEF RecordPayment, TypeOK
  <2>4. UNCHANGED <<received, doc, edit, entries, raced>>
    BY <1>7 DEF RecordPayment
  <2> QED
    BY <1>7, <2>2, <2>3, <2>4, RecordType DEF TypeOK
<1>8. ASSUME NEW p \in Payments, ReversePayment(p) PROVE TypeOK'
  <2>1. /\ payment[p] \in [bill : Bills, amount : Nat, reversed : BOOLEAN]
        /\ payment[p].amount \in Nat
    BY <1>8, PaymentType DEF ReversePayment
  <2>2. payment' \in [Payments -> [bill : Bills, amount : Nat, reversed : BOOLEAN] \cup {NoPayment}]
    <3>1. [payment[p] EXCEPT !.reversed = TRUE] \in [bill : Bills, amount : Nat, reversed : BOOLEAN]
      BY <2>1
    <3>2. payment' = [payment EXCEPT ![p] = [payment[p] EXCEPT !.reversed = TRUE]]
      BY <1>8 DEF ReversePayment, TypeOK
    <3> QED
      BY <3>1, <3>2 DEF TypeOK
  <2>3. cash' \in Int /\ payable' \in Int
    BY <1>8, <2>1 DEF ReversePayment, TypeOK
  <2>4. row' \in [Bills -> Row]
    BY <1>8, ReverseType
  <2>5. UNCHANGED <<received, doc, edit, entries, raced>>
    BY <1>8 DEF ReversePayment
  <2> QED
    BY <2>2, <2>3, <2>4, <2>5 DEF TypeOK
<1>9. CASE UNCHANGED vars
  BY <1>9 DEF vars, TypeOK
<1> QED
  BY <1>1, <1>2, <1>3, <1>4, <1>5, <1>6, <1>7, <1>8, <1>9 DEF Next

--------------------------------------------------------------------------------
(* The status of a bill and its posting *)

PostInv == EditInv /\ PaymentInv /\ StatusTellsPosting

LEMMA Tells ==
  ASSUME StatusTellsPosting, NEW b \in Bills, ~raced[b]
  PROVE  /\ Posted(b) <=> entries[b] > 0
         /\ Posted(b) <=> row[b].journal
BY Zenon DEF StatusTellsPosting

(* A step of one bill that loads nothing and records no payment.              *)
LEMMA BillKeeps ==
  ASSUME SafeInv, NEW b \in Bills,
         \A o \in Bills \ {b} : row'[o] = row[o],
         \A o \in Bills \ {b} : entries'[o] = entries[o],
         UNCHANGED <<edit, raced>>,
         \A p \in Payments : \/ payment'[p] = payment[p]
                             \/ payment'[p].bill = b /\ Posted(b)'
                             \/ payment[p] # NoPayment /\ payment'[p].bill = payment[p].bill,
         Posted(b) => Posted(b)',
         ~raced[b] => /\ Posted(b)' <=> entries'[b] > 0
                      /\ Posted(b)' <=> row'[b].journal
  PROVE  PostInv'
<1>1. EditInv /\ PaymentInv /\ StatusTellsPosting /\ TypeOK
  BY DEF SafeInv
<1>2. EditInv'
  BY <1>1 DEF EditInv
<1>3. \A o \in Bills : Posted(o) => Posted(o)'
  BY DEF Posted
<1>4. PaymentInv'
  <2> SUFFICES ASSUME NEW p \in Payments, payment'[p] # NoPayment, ~raced'[payment'[p].bill]
               PROVE  row'[payment'[p].bill].status \in PostedBillStatuses
    BY DEF PaymentInv, Posted
  <2>1. CASE payment'[p].bill = b /\ Posted(b)'
    BY <2>1 DEF Posted
  <2>2. CASE payment[p] # NoPayment /\ payment'[p].bill = payment[p].bill
    <3>1. Posted(payment[p].bill) /\ payment[p].bill \in Bills
      BY <1>1, <2>2, PaymentType DEF PaymentInv
    <3>2. PICK o \in Bills : o = payment[p].bill
      BY <3>1
    <3>3. Posted(o)'
      BY <1>3, <3>1, <3>2
    <3> QED
      BY <2>2, <3>2, <3>3 DEF Posted
  <2> QED
    BY <2>1, <2>2
<1>5. StatusTellsPosting'
  BY <1>1 DEF StatusTellsPosting, Posted
<1> QED
  BY <1>2, <1>4, <1>5 DEF PostInv

LEMMA CreateKeeps ==
  ASSUME SafeInv, NEW b \in Bills, NEW d \in Documents, Create(b, d)
  PROVE  PostInv'
<1>1. /\ TypeOK /\ row[b].status = "ABSENT"
      /\ UNCHANGED <<edit, raced, entries, payment>>
  BY DEF SafeInv, Create
<1>2. /\ row'[b].status = "DRAFT" /\ row'[b].journal = FALSE
      /\ \A o \in Bills \ {b} : row'[o] = row[o]
  BY <1>1, CreateType
<1>3. ~Posted(b) /\ ~Posted(b)'
  BY <1>1, <1>2 DEF Posted, PostedBillStatuses
<1>4. ~raced[b] => ~(entries[b] > 0)
  BY <1>3, Tells DEF SafeInv
<1> QED
  BY <1>1, <1>2, <1>3, <1>4, BillKeeps

LEMMA ApproveKeeps ==
  ASSUME SafeInv, NEW b \in Bills, NEW may \in BOOLEAN, Approve(b, may)
  PROVE  PostInv'
<1>1. TypeOK /\ UNCHANGED <<edit, raced, payment>>
  BY DEF SafeInv, Approve
<1>2. /\ row'[b].status = "APPROVED" /\ row'[b].journal = TRUE
      /\ \A o \in Bills \ {b} : row'[o] = row[o]
  BY <1>1, ApproveType
<1>3. Posted(b)'
  BY <1>2 DEF Posted, PostedBillStatuses
<1>4. entries'[b] > 0 /\ \A o \in Bills \ {b} : entries'[o] = entries[o]
  <2>1. entries' = [entries EXCEPT ![b] = entries[b] + 1] /\ entries[b] \in Nat
    BY <1>1 DEF Approve, TypeOK
  <2>2. entries[b] + 1 > 0
    BY <2>1
  <2> QED
    BY <1>1, <2>1, <2>2 DEF TypeOK
<1> QED
  BY <1>1, <1>2, <1>3, <1>4, BillKeeps

LEMMA RecordKeeps ==
  ASSUME SafeInv, NEW p \in Payments, NEW b \in Bills, NEW amount \in 0..MaxAmount,
         RecordPayment(p, b, amount)
  PROVE  PostInv'
<1>1. /\ TypeOK /\ row[b].status \in {"APPROVED", "PARTIALLY_PAID"}
      /\ UNCHANGED <<edit, raced, entries>>
      /\ payment' = [payment EXCEPT ![p] = [bill |-> b, amount |-> amount, reversed |-> FALSE]]
  BY DEF SafeInv, RecordPayment
<1>2. /\ row'[b].status \in {"PARTIALLY_PAID", "PAID"} /\ row'[b].journal = row[b].journal
      /\ \A o \in Bills \ {b} : row'[o] = row[o]
  BY <1>1, RecordType
<1>3. Posted(b) /\ Posted(b)'
  BY <1>1, <1>2 DEF Posted, PostedBillStatuses
<1>4. \A q \in Payments : payment'[q] = payment[q] \/ payment'[q].bill = b
  BY <1>1 DEF TypeOK
<1>5. ~raced[b] => entries[b] > 0 /\ row[b].journal
  BY <1>3, Tells DEF SafeInv
<1> QED
  BY <1>1, <1>2, <1>3, <1>4, <1>5, BillKeeps

(* A reversal does not look at the status: that the bill has posted follows   *)
(* from its having been paid.                                                 *)
LEMMA ReverseKeeps ==
  ASSUME SafeInv, NEW p \in Payments, ReversePayment(p)
  PROVE  PostInv'
<1>1. /\ TypeOK /\ payment[p] # NoPayment
      /\ UNCHANGED <<edit, raced, entries>>
  BY DEF SafeInv, ReversePayment
<1>2. PICK b \in Bills : b = payment[p].bill
  BY <1>1, PaymentType
<1>3. /\ row'[b].status \in {"APPROVED", "PARTIALLY_PAID"} /\ row'[b].journal = row[b].journal
      /\ \A o \in Bills \ {b} : row'[o] = row[o]
  BY <1>1, <1>2, ReverseType
<1>4. Posted(b)'
  BY <1>3 DEF Posted, PostedBillStatuses
<1>5. ~raced[b] => entries[b] > 0 /\ row[b].journal
  <2>1. ~raced[b] => Posted(b)
    BY <1>1, <1>2 DEF SafeInv, PaymentInv
  <2> QED
    BY <2>1, Tells DEF SafeInv
<1>6. \A q \in Payments : \/ payment'[q] = payment[q]
                          \/ payment[q] # NoPayment /\ payment'[q].bill = payment[q].bill
  <2>1. payment' = [payment EXCEPT ![p].reversed = TRUE]
    BY DEF ReversePayment
  <2>2. payment[p] \in [bill : Bills, amount : Nat, reversed : BOOLEAN]
    BY <1>1, PaymentType
  <2>3. payment'[p].bill = payment[p].bill
    BY <1>1, <2>1, <2>2 DEF TypeOK
  <2> QED
    BY <1>1, <2>1, <2>3 DEF TypeOK
<1> QED
  BY <1>1, <1>3, <1>4, <1>5, <1>6, BillKeeps

(* A bill that can be disputed, reopened or cancelled has not posted.         *)
LEMMA LoadKeeps ==
  ASSUME SafeInv, NEW e \in Editors, NEW b \in Bills, NEW to \in Statuses, Load(e, b, to)
  PROVE  PostInv'
<1>1. TypeOK /\ UNCHANGED <<row, payment, raced, entries>>
  BY DEF SafeInv, Load
<1>2. /\ edit'[e].base = row[b] /\ edit'[e].copy = [row[b] EXCEPT !.status = to]
      /\ edit'[e].copy.status = to
      /\ \A f \in Editors \ {e} : edit'[f] = edit[f]
  BY <1>1, LoadType
<1>3. to \in Unposted /\ row[b].status \in Unposted
  <2>1. to \in BillTransitions[row[b].status] /\ to \in {"DISPUTED", "DRAFT", "CANCELLED"}
    BY DEF Load
  <2>2. row[b].status \in Statuses
    BY <1>1 DEF TypeOK, Row
  <2>3. row[b].status \in {"DRAFT", "DISPUTED"}
    BY <2>1, <2>2, StatusesAre DEF BillTransitions
  <2> QED
    BY <2>1, <2>3 DEF Unposted
<1>4. EditInv'
  BY <1>1, <1>2, <1>3 DEF EditInv, SafeInv
<1>5. PaymentInv' /\ StatusTellsPosting'
  BY <1>1 DEF SafeInv, PaymentInv, StatusTellsPosting, Posted
<1> QED
  BY <1>4, <1>5 DEF PostInv

LEMMA CompareKeeps ==
  ASSUME SafeInv, NEW e \in Editors, Compare(e)
  PROVE  PostInv'
<1>1. TypeOK /\ UNCHANGED <<row, payment, raced, entries>>
  BY DEF SafeInv, Compare
<1>2. /\ edit[e] # NoEdit /\ edit'[e].base = edit[e].base /\ edit'[e].copy = edit[e].copy
      /\ \A f \in Editors \ {e} : edit'[f] = edit[f]
  BY <1>1, CompareType
<1>3. EditInv'
  BY <1>1, <1>2 DEF EditInv, SafeInv
<1>4. PaymentInv' /\ StatusTellsPosting'
  BY <1>1 DEF SafeInv, PaymentInv, StatusTellsPosting, Posted
<1> QED
  BY <1>3, <1>4 DEF PostInv

(* A save that runs over nothing finds the row it loaded, which had not       *)
(* posted, or changes nothing.                                                *)
LEMMA SaveKeeps ==
  ASSUME SafeInv, NEW e \in Editors, Save(e)
  PROVE  PostInv'
<1>1. /\ TypeOK /\ edit[e].at = "compared" /\ edit' = [edit EXCEPT ![e] = NoEdit]
      /\ UNCHANGED <<payment, entries>>
  BY DEF SafeInv, Save
<1>2. /\ edit[e] # NoEdit /\ edit[e].bill \in Bills
      /\ edit[e].base \in Row /\ edit[e].copy \in Row /\ edit[e].dirty \in SUBSET DOMAIN NoRow
  BY <1>1, EditType
<1>3. PICK b \in Bills : b = edit[e].bill
  BY <1>2
<1>4. PICK new \in Row : /\ new = Saved(edit[e].copy, row[b], edit[e].dirty)
                         /\ new.status \in {edit[e].copy.status, row[b].status}
                         /\ new.journal \in {edit[e].copy.journal, row[b].journal}
  <2>1. row[b] \in Row
    BY <1>1 DEF TypeOK
  <2> QED
    BY <1>2, <2>1, SavedRow
<1>5. /\ \A o \in Bills : raced[o] => raced'[o]
      /\ \A o \in Bills \ {b} : row'[o] = row[o] /\ raced'[o] = raced[o]
      /\ \/ row'[b] = row[b] /\ raced'[b] = raced[b]
         \/ row'[b] = new /\ (raced'[b] \/ row[b] \in {edit[e].base, new})
  BY <1>1, <1>3, <1>4, SaveType
<1>6. /\ edit[e].base.status \in Unposted /\ edit[e].copy.status \in Unposted
      /\ edit[e].copy = [edit[e].base EXCEPT !.status = edit[e].copy.status]
  BY <1>2 DEF SafeInv, EditInv
<1>7. edit[e].copy.journal = edit[e].base.journal
  BY <1>2, <1>6 DEF Row
<1>8. ~raced'[b] => /\ ~raced[b] /\ (Posted(b)' <=> Posted(b))
                    /\ row'[b].journal = row[b].journal
  BY <1>4, <1>5, <1>6, <1>7 DEF Posted, PostedBillStatuses, Unposted
<1>9. \A o \in Bills : ~raced'[o] => /\ ~raced[o] /\ (Posted(o)' <=> Posted(o))
                                     /\ row'[o].journal = row[o].journal
  BY <1>5, <1>8 DEF Posted
<1>10. EditInv'
  BY <1>1 DEF EditInv, SafeInv, TypeOK
<1>11. PaymentInv'
  <2> SUFFICES ASSUME NEW p \in Payments, payment[p] # NoPayment, ~raced'[payment[p].bill]
               PROVE  Posted(payment[p].bill)'
    BY <1>1 DEF PaymentInv, Posted
  <2>1. payment[p].bill \in Bills
    BY <1>1, PaymentType
  <2> QED
    BY <1>1, <1>9, <2>1 DEF SafeInv, PaymentInv, Posted
<1>12. StatusTellsPosting'
  BY <1>1, <1>9 DEF SafeInv, StatusTellsPosting, Posted
<1> QED
  BY <1>10, <1>11, <1>12 DEF PostInv

--------------------------------------------------------------------------------
(* The invariant *)

LEMMA SafeInit == Init => SafeInv
<1> SUFFICES ASSUME Init PROVE SafeInv
  OBVIOUS
<1>1. TypeOK
  BY TypeInit
<1>2. EditInv /\ PaymentInv
  BY DEF Init, EditInv, PaymentInv
<1>3. StatusTellsPosting
  BY DEF Init, StatusTellsPosting, Posted, PostedBillStatuses, NoRow
<1> QED
  BY <1>1, <1>2, <1>3 DEF SafeInv

LEMMA SafeStep == SafeInv /\ [Next]_vars => SafeInv'
<1> SUFFICES ASSUME SafeInv, [Next]_vars PROVE SafeInv'
  OBVIOUS
<1>1. TypeOK'
  BY TypeStep DEF SafeInv
<1>2. PostInv'
  <2>1. CASE (\E l \in OrderLines : Receive(l)) \/ UNCHANGED vars
    BY <2>1 DEF Receive, vars, SafeInv, PostInv, EditInv, PaymentInv, StatusTellsPosting, Posted
  <2>2. ASSUME NEW b \in Bills, NEW d \in Documents, Create(b, d) PROVE PostInv'
    BY <2>2, CreateKeeps
  <2>3. ASSUME NEW b \in Bills, NEW may \in BOOLEAN, Approve(b, may) PROVE PostInv'
    BY <2>3, ApproveKeeps
  <2>4. ASSUME NEW e \in Editors, NEW b \in Bills, NEW to \in Statuses, Load(e, b, to) PROVE PostInv'
    BY <2>4, LoadKeeps
  <2>5. ASSUME NEW e \in Editors, Compare(e) \/ Save(e) PROVE PostInv'
    BY <2>5, CompareKeeps, SaveKeeps
  <2>6. ASSUME NEW p \in Payments, NEW b \in Bills, NEW amount \in 0..MaxAmount,
               RecordPayment(p, b, amount)
        PROVE  PostInv'
    BY <2>6, RecordKeeps
  <2>7. ASSUME NEW p \in Payments, ReversePayment(p) PROVE PostInv'
    BY <2>7, ReverseKeeps
  <2> QED
    BY <2>1, <2>2, <2>3, <2>4, <2>5, <2>6, <2>7 DEF Next
<1> QED
  BY <1>1, <1>2 DEF SafeInv, PostInv

LEMMA SafeAlways == Spec => []SafeInv
BY SafeInit, SafeStep, PTL DEF Spec

(* The rows, the loaded copies, the payments and the accounts keep their      *)
(* types.                                                                     *)
THEOREM BillsTypeCorrect == Spec => []TypeOK
<1>1. SafeInv => TypeOK
  BY DEF SafeInv
<1> QED
  BY <1>1, SafeAlways, PTL

(* Unless a save ran over it, a bill's status says whether it has posted its  *)
(* liability, through approvals, payments, reversals, disputes, reopenings    *)
(* and cancellations of any number of concurrent requests.                    *)
THEOREM PostingCorrect == Spec => []StatusTellsPosting
<1>1. SafeInv => StatusTellsPosting
  BY DEF SafeInv
<1> QED
  BY <1>1, SafeAlways, PTL

--------------------------------------------------------------------------------
(* What was paid *)

(* A bill that was loaded or paid exists, and neither its row nor a copy of   *)
(* it says that more was paid than the bill comes to.                         *)
MoneyInv ==
    /\ \A b \in Bills : /\ row[b].paid <= doc[b].total
                        /\ row[b].status = "ABSENT" => row[b].paid = 0
    /\ \A e \in Editors : edit[e] # NoEdit =>
           /\ row[edit[e].bill].status # "ABSENT"
           /\ edit[e].base.paid <= doc[edit[e].bill].total
    /\ \A p \in Payments : payment[p] # NoPayment => row[payment[p].bill].status # "ABSENT"

PaidInv == SafeInv /\ MoneyInv /\ PaidTellsPayments

LEMMA StandingIs ==
  ASSUME TypeOK
  PROVE  /\ StandingPayments \subseteq Payments /\ IsFiniteSet(StandingPayments)
         /\ \A p \in StandingPayments : /\ payment[p] # NoPayment /\ payment[p].bill \in Bills
                                        /\ payment[p].amount \in Nat
<1>1. StandingPayments \subseteq Payments /\ \A p \in StandingPayments : payment[p] # NoPayment
  BY DEF StandingPayments
<1>2. IsFiniteSet(StandingPayments)
  BY <1>1, FS_Subset
<1> QED
  BY <1>1, <1>2, PaymentType

(* A payment that is recorded stands, for its bill. *)
LEMMA RecordSums ==
  ASSUME TypeOK, NEW p \in Payments, NEW b \in Bills, NEW amount \in 0..MaxAmount,
         RecordPayment(p, b, amount)
  PROVE  /\ PaidBy(StandingPayments)' = PaidBy(StandingPayments) + amount
         /\ \A o \in Bills : PaidIn(o)' = IF o = b THEN PaidIn(o) + amount ELSE PaidIn(o)
<1>1. /\ payment[p] = NoPayment
      /\ payment' = [payment EXCEPT ![p] = [bill |-> b, amount |-> amount, reversed |-> FALSE]]
  BY DEF RecordPayment
<1>2. /\ payment'[p] = [bill |-> b, amount |-> amount, reversed |-> FALSE]
      /\ payment'[p].bill = b /\ payment'[p].amount = amount /\ payment'[p].reversed = FALSE
      /\ payment'[p] # NoPayment
      /\ \A q \in Payments \ {p} : payment'[q] = payment[q]
  BY <1>1 DEF TypeOK, NoPayment
<1>3. /\ p \notin StandingPayments
      /\ StandingPayments' = StandingPayments \cup {p}
  BY <1>1, <1>2 DEF StandingPayments
<1>4. ASSUME NEW ps \in SUBSET StandingPayments
      PROVE  /\ PaidBy(ps)' = PaidBy(ps)
             /\ SumFunction([q \in ps \cup {p} |-> payment'[q].amount]) = PaidBy(ps) + amount
  <2>1. IsFiniteSet(ps) /\ p \notin ps
    BY <1>3, StandingIs, FS_Subset
  <2>2. \A f \in [ps -> Int], g \in [ps \cup {p} -> Int] :
            (\A q \in ps : g[q] = f[q]) => SumFunction(g) = SumFunction(f) + g[p]
    BY <2>1, SumExtend
  <2>3. \A q \in ps : payment[q].amount \in Int /\ payment'[q] = payment[q]
    BY <1>2, <1>3, StandingIs
  <2>4. PICK f \in [ps -> Int] : f = [q \in ps |-> payment[q].amount]
    BY <2>3
  <2>5. PICK g \in [ps \cup {p} -> Int] : g = [q \in ps \cup {p} |-> payment'[q].amount]
    <3>1. amount \in Int
      OBVIOUS
    <3> QED
      BY <1>2, <2>3, <3>1
  <2>6. g[p] = amount /\ \A q \in ps : g[q] = f[q]
    BY <1>2, <2>3, <2>4, <2>5
  <2>7. SumFunction(g) = SumFunction(f) + amount
    BY <2>2, <2>6
  <2>8. [q \in ps |-> payment'[q].amount] = f
    BY <2>3, <2>4
  <2> QED
    BY <2>4, <2>5, <2>7, <2>8 DEF PaidBy
<1>5. PaidBy(StandingPayments)' = PaidBy(StandingPayments) + amount
  BY <1>3, <1>4 DEF PaidBy
<1>6. ASSUME NEW o \in Bills
      PROVE  {q \in StandingPayments' : payment'[q].bill = o}
                = IF o = b THEN {q \in StandingPayments : payment[q].bill = o} \cup {p}
                           ELSE {q \in StandingPayments : payment[q].bill = o}
  BY <1>2, <1>3, StandingIs
<1>7. ASSUME NEW o \in Bills
      PROVE  PaidIn(o)' = IF o = b THEN PaidIn(o) + amount ELSE PaidIn(o)
  <2> DEFINE ps == {q \in StandingPayments : payment[q].bill = o}
  <2>1. ps \in SUBSET StandingPayments
    OBVIOUS
  <2>2. PaidIn(o)' = SumFunction([q \in {r \in StandingPayments' : payment'[r].bill = o} |->
                                     payment'[q].amount])
    BY DEF PaidIn, PaidBy
  <2>3. PaidIn(o) = PaidBy(ps)
    BY DEF PaidIn
  <2>4. /\ SumFunction([q \in ps |-> payment'[q].amount]) = PaidBy(ps)
        /\ SumFunction([q \in ps \cup {p} |-> payment'[q].amount]) = PaidBy(ps) + amount
    BY <1>4, <2>1 DEF PaidBy
  <2> HIDE DEF ps
  <2> QED
    BY <1>6, <2>2, <2>3, <2>4 DEF ps
<1> QED
  BY <1>5, <1>7

(* ... and one that is reversed stands no longer. *)
LEMMA ReverseSums ==
  ASSUME TypeOK, NEW p \in Payments, ReversePayment(p)
  PROVE  /\ PaidBy(StandingPayments)' = PaidBy(StandingPayments) - payment[p].amount
         /\ \A o \in Bills : PaidIn(o)' = IF o = payment[p].bill
                                          THEN PaidIn(o) - payment[p].amount ELSE PaidIn(o)
<1>1. /\ payment[p] # NoPayment /\ ~payment[p].reversed
      /\ payment' = [payment EXCEPT ![p].reversed = TRUE]
  BY DEF ReversePayment
<1>2. /\ payment'[p] = [payment[p] EXCEPT !.reversed = TRUE]
      /\ \A q \in Payments \ {p} : payment'[q] = payment[q]
  BY <1>1 DEF TypeOK
<1>3. payment[p] \in [bill : Bills, amount : Nat, reversed : BOOLEAN]
  BY <1>1, PaymentType
<1>4. /\ payment'[p].reversed = TRUE /\ payment'[p].amount = payment[p].amount
      /\ payment'[p].bill = payment[p].bill
  BY <1>2, <1>3
<1>5. p \in StandingPayments /\ StandingPayments' = StandingPayments \ {p}
  BY <1>1, <1>2, <1>4 DEF StandingPayments
<1>6. ASSUME NEW ps \in SUBSET StandingPayments
      PROVE  /\ p \notin ps => SumFunction([q \in ps |-> payment'[q].amount]) = PaidBy(ps)
             /\ p \in ps => SumFunction([q \in ps \ {p} |-> payment'[q].amount])
                              = PaidBy(ps) - payment[p].amount
  <2>1. \A q \in ps \ {p} : payment'[q] = payment[q]
    BY <1>2, StandingIs
  <2>2. CASE p \notin ps
    <3>1. [q \in ps |-> payment'[q].amount] = [q \in ps |-> payment[q].amount]
      BY <2>1, <2>2
    <3> QED
      BY <2>2, <3>1 DEF PaidBy
  <2>3. CASE p \in ps
    <3> DEFINE rest == ps \ {p}
    <3>1. IsFiniteSet(rest) /\ p \notin rest /\ rest \cup {p} = ps
      BY <2>3, StandingIs, FS_Subset
    <3> HIDE DEF rest
    <3>2. \A f \in [rest -> Int], g \in [rest \cup {p} -> Int] :
              (\A q \in rest : g[q] = f[q]) => SumFunction(g) = SumFunction(f) + g[p]
      BY <3>1, SumExtend
    <3>3. \A f \in [rest -> Int] : SumFunction(f) \in Int
      BY <3>1, SumType
    <3>4. \A q \in ps : payment[q].amount \in Int
      BY StandingIs
    <3>5. PICK f \in [rest -> Int] : f = [q \in rest |-> payment[q].amount]
      BY <3>1, <3>4
    <3>6. PICK g \in [rest \cup {p} -> Int] : g = [q \in ps |-> payment[q].amount]
      BY <3>1, <3>4
    <3>7. g[p] = payment[p].amount /\ \A q \in rest : g[q] = f[q]
      BY <3>1, <3>5, <3>6
    <3>8. SumFunction(g) = SumFunction(f) + payment[p].amount /\ SumFunction(f) \in Int
      BY <3>2, <3>3, <3>7
    <3>9. [q \in rest |-> payment'[q].amount] = f
      BY <2>1, <3>1, <3>5
    <3>10. payment[p].amount \in Int /\ PaidBy(ps) = SumFunction(g)
      BY <1>3, <3>6 DEF PaidBy
    <3>11. SumFunction(f) = PaidBy(ps) - payment[p].amount
      BY <3>8, <3>10
    <3> QED
      BY <2>3, <3>9, <3>11 DEF rest
  <2> QED
    BY <2>2, <2>3
<1>7. PaidBy(StandingPayments)' = PaidBy(StandingPayments) - payment[p].amount
  BY <1>5, <1>6 DEF PaidBy
<1>8. ASSUME NEW o \in Bills
      PROVE  PaidIn(o)' = IF o = payment[p].bill THEN PaidIn(o) - payment[p].amount ELSE PaidIn(o)
  <2> DEFINE ps == {q \in StandingPayments : payment[q].bill = o}
             new == {q \in StandingPayments' : payment'[q].bill = o}
  <2>1. ps \in SUBSET StandingPayments /\ (p \in ps <=> o = payment[p].bill)
    BY <1>5
  <2>2. new = IF o = payment[p].bill THEN ps \ {p} ELSE ps
    BY <1>2, <1>4, <1>5, StandingIs
  <2>3. PaidIn(o)' = SumFunction([q \in new |-> payment'[q].amount]) /\ PaidIn(o) = PaidBy(ps)
    BY DEF PaidIn, PaidBy
  <2> HIDE DEF ps, new
  <2> QED
    BY <1>6, <2>1, <2>2, <2>3
<1> QED
  BY <1>7, <1>8

LEMMA PaidSumType ==
  ASSUME TypeOK
  PROVE  PaidBy(StandingPayments) \in Int /\ \A b \in Bills : PaidIn(b) \in Int
<1>1. ASSUME NEW ps \in SUBSET StandingPayments PROVE PaidBy(ps) \in Int
  <2>1. IsFiniteSet(ps) /\ [q \in ps |-> payment[q].amount] \in [ps -> Int]
    BY StandingIs, FS_Subset
  <2>2. \A f \in [ps -> Int] : SumFunction(f) \in Int
    BY <2>1, SumType
  <2> QED
    BY <2>1, <2>2 DEF PaidBy
<1>2. \A b \in Bills : {q \in StandingPayments : payment[q].bill = b} \in SUBSET StandingPayments
  OBVIOUS
<1> QED
  BY <1>1, <1>2 DEF PaidIn

(* No payment: nothing was paid. *)
LEMMA NothingPaid ==
  ASSUME \A p \in Payments : payment[p] = NoPayment
  PROVE  PaidBy(StandingPayments) = 0 /\ \A b \in Bills : PaidIn(b) = 0
<1>1. StandingPayments = {}
  BY DEF StandingPayments
<1>2. \A f : DOMAIN f = {} => SumFunction(f) = 0
  BY SumEmpty
<1>3. PaidBy({}) = 0
  <2>1. DOMAIN [q \in {} |-> payment[q].amount] = {}
    OBVIOUS
  <2> QED
    BY <1>2, <2>1 DEF PaidBy
<1>4. \A b \in Bills : {q \in StandingPayments : payment[q].bill = b} = {}
  BY <1>1
<1> QED
  BY <1>1, <1>3, <1>4 DEF PaidIn

(* A step of one bill, with no payment, leaves what was paid of it alone. *)
LEMMA PaidKeeps ==
  ASSUME PaidInv, TypeOK', NEW b \in Bills,
         \A o \in Bills \ {b} : row'[o] = row[o] /\ doc'[o] = doc[o] /\ raced'[o] = raced[o],
         row[b].status # "ABSENT" => row'[b].status # "ABSENT" /\ doc'[b] = doc[b],
         row'[b].status # "ABSENT", row'[b].paid <= doc'[b].total,
         ~raced'[b] => ~raced[b] /\ row'[b].paid = row[b].paid,
         UNCHANGED <<payment, cash>>,
         \A e \in Editors : edit'[e] = edit[e] \/ edit'[e] = NoEdit
  PROVE  (MoneyInv /\ PaidTellsPayments)'
<1>1. TypeOK /\ MoneyInv /\ PaidTellsPayments
  BY DEF PaidInv, SafeInv
<1>2. \A o \in Bills : /\ row'[o].paid <= doc'[o].total
                       /\ row'[o].status = "ABSENT" => row'[o].paid = 0
                       /\ row[o].status # "ABSENT" => row'[o].status # "ABSENT" /\ doc'[o] = doc[o]
  BY <1>1 DEF MoneyInv
<1>3. ASSUME NEW e \in Editors, edit'[e] # NoEdit
      PROVE  /\ row'[edit'[e].bill].status # "ABSENT"
             /\ edit'[e].base.paid <= doc'[edit'[e].bill].total
  <2>1. edit'[e] = edit[e] /\ edit[e] # NoEdit
    BY <1>3
  <2>2. edit[e].bill \in Bills
    BY <1>1, <2>1, EditType DEF TypeOK, Edit
  <2> QED
    BY <1>1, <1>2, <2>1, <2>2 DEF MoneyInv
<1>4. ASSUME NEW p \in Payments, payment'[p] # NoPayment
      PROVE  row'[payment'[p].bill].status # "ABSENT"
  BY <1>1, <1>2, <1>4, PaymentType DEF MoneyInv
<1>5. MoneyInv'
  BY <1>2, <1>3, <1>4 DEF MoneyInv
<1>6. PaidBy(StandingPayments)' = PaidBy(StandingPayments) /\ \A o \in Bills : PaidIn(o)' = PaidIn(o)
  BY DEF PaidBy, PaidIn, StandingPayments
<1>7. \A o \in Bills : ~raced'[o] => ~raced[o] /\ row'[o].paid = row[o].paid
  OBVIOUS
<1>8. PaidTellsPayments'
  BY <1>1, <1>2, <1>6, <1>7, Zenon DEF PaidTellsPayments
<1> QED
  BY <1>5, <1>8

LEMMA PaidStep == PaidInv /\ [Next]_vars => PaidInv'
<1> SUFFICES ASSUME PaidInv, [Next]_vars PROVE PaidInv'
  OBVIOUS
<1>0. SafeInv /\ TypeOK /\ MoneyInv /\ PaidTellsPayments /\ SafeInv' /\ TypeOK'
  BY SafeStep DEF PaidInv, SafeInv
<1> SUFFICES (MoneyInv /\ PaidTellsPayments)'
  BY <1>0 DEF PaidInv
<1>1. CASE (\E l \in OrderLines : Receive(l)) \/ UNCHANGED vars
  BY <1>0, <1>1 DEF Receive, vars, MoneyInv, PaidTellsPayments, PaidIn, PaidBy, StandingPayments
<1>2. ASSUME NEW b \in Bills, NEW d \in Documents, Create(b, d)
      PROVE  (MoneyInv /\ PaidTellsPayments)'
  <2>1. /\ row[b].status = "ABSENT" /\ doc' = [doc EXCEPT ![b] = d]
        /\ UNCHANGED <<payment, cash, edit, raced>>
    BY <1>2 DEF Create
  <2>2. /\ row'[b].status = "DRAFT" /\ row'[b].paid = 0
        /\ \A o \in Bills \ {b} : row'[o] = row[o]
    BY <1>0, <1>2, CreateType
  <2>3. /\ doc'[b] = d /\ d.total \in Nat
        /\ \A o \in Bills \ {b} : doc'[o] = doc[o]
    BY <1>0, <2>1 DEF TypeOK
  <2>4. row[b].paid = 0
    BY <1>0, <2>1 DEF MoneyInv
  <2> QED
    BY <1>0, <2>1, <2>2, <2>3, <2>4, PaidKeeps
<1>3. ASSUME NEW b \in Bills, NEW may \in BOOLEAN, Approve(b, may)
      PROVE  (MoneyInv /\ PaidTellsPayments)'
  <2>1. UNCHANGED <<doc, payment, cash, edit, raced>>
    BY <1>3 DEF Approve
  <2>2. /\ row'[b].status = "APPROVED" /\ row'[b].paid = row[b].paid
        /\ \A o \in Bills \ {b} : row'[o] = row[o]
    BY <1>0, <1>3, ApproveType
  <2>3. row[b].paid <= doc[b].total
    BY <1>0 DEF MoneyInv
  <2> QED
    BY <1>0, <2>1, <2>2, <2>3, PaidKeeps
<1>4. ASSUME NEW e \in Editors, NEW b \in Bills, NEW to \in Statuses, Load(e, b, to)
      PROVE  (MoneyInv /\ PaidTellsPayments)'
  <2>1. /\ UNCHANGED <<row, doc, payment, cash, raced>>
        /\ to \in BillTransitions[row[b].status] \cap {"DISPUTED", "DRAFT", "CANCELLED"}
    BY <1>4 DEF Load
  <2>2. /\ edit'[e].bill = b /\ edit'[e].base = row[b]
        /\ \A f \in Editors \ {e} : edit'[f] = edit[f]
    BY <1>0, <1>4, LoadType
  <2>3. row[b].status # "ABSENT"
    BY <2>1 DEF BillTransitions
  <2>4. MoneyInv'
    BY <1>0, <2>1, <2>2, <2>3 DEF MoneyInv
  <2>5. PaidTellsPayments'
    BY <1>0, <2>1 DEF PaidTellsPayments, PaidIn, PaidBy, StandingPayments
  <2> QED
    BY <2>4, <2>5
<1>5. ASSUME NEW e \in Editors, Compare(e) PROVE (MoneyInv /\ PaidTellsPayments)'
  <2>1. UNCHANGED <<row, doc, payment, cash, raced>>
    BY <1>5 DEF Compare
  <2>2. /\ edit[e] # NoEdit /\ edit'[e].bill = edit[e].bill /\ edit'[e].base = edit[e].base
        /\ \A f \in Editors \ {e} : edit'[f] = edit[f]
    BY <1>0, <1>5, CompareType
  <2>4. MoneyInv'
    BY <1>0, <2>1, <2>2 DEF MoneyInv
  <2>5. PaidTellsPayments'
    BY <1>0, <2>1 DEF PaidTellsPayments, PaidIn, PaidBy, StandingPayments
  <2> QED
    BY <2>4, <2>5
<1>6. ASSUME NEW e \in Editors, Save(e) PROVE (MoneyInv /\ PaidTellsPayments)'
  <2>1. /\ edit[e].at = "compared" /\ edit' = [edit EXCEPT ![e] = NoEdit]
        /\ UNCHANGED <<doc, payment, cash>>
    BY <1>6 DEF Save
  <2>2. /\ edit[e] # NoEdit /\ edit[e].bill \in Bills
        /\ edit[e].base \in Row /\ edit[e].copy \in Row /\ edit[e].dirty \in SUBSET DOMAIN NoRow
    BY <1>0, <2>1, EditType
  <2>3. PICK b \in Bills : b = edit[e].bill
    BY <2>2
  <2>4. PICK new \in Row : /\ new = Saved(edit[e].copy, row[b], edit[e].dirty)
                           /\ new.status \in {edit[e].copy.status, row[b].status}
                           /\ new.paid \in {edit[e].copy.paid, row[b].paid}
    <3>1. row[b] \in Row
      BY <1>0 DEF TypeOK
    <3> QED
      BY <2>2, <3>1, SavedRow
  <2>5. /\ \A o \in Bills : raced[o] => raced'[o]
        /\ \A o \in Bills \ {b} : row'[o] = row[o] /\ raced'[o] = raced[o]
        /\ \/ row'[b] = row[b] /\ raced'[b] = raced[b]
           \/ row'[b] = new /\ (raced'[b] \/ row[b] \in {edit[e].base, new})
    BY <1>0, <1>6, <2>3, <2>4, SaveType
  <2>6. /\ edit[e].copy.status \in Unposted
        /\ edit[e].copy = [edit[e].base EXCEPT !.status = edit[e].copy.status]
    BY <1>0, <2>2 DEF SafeInv, EditInv
  <2>7. edit[e].copy.paid = edit[e].base.paid /\ edit[e].copy.status # "ABSENT"
    BY <2>2, <2>6 DEF Row, Unposted
  <2>8. /\ row[b].status # "ABSENT" /\ edit[e].base.paid <= doc[b].total
        /\ row[b].paid <= doc[b].total
    BY <1>0, <2>2, <2>3 DEF MoneyInv
  <2>9. row'[b].status # "ABSENT" /\ row'[b].paid <= doc'[b].total
    BY <2>1, <2>4, <2>5, <2>7, <2>8
  <2>10. ~raced'[b] => ~raced[b] /\ row'[b].paid = row[b].paid
    BY <2>4, <2>5, <2>7
  <2>11. \A f \in Editors : edit'[f] = edit[f] \/ edit'[f] = NoEdit
    BY <1>0, <2>1 DEF TypeOK
  <2> QED
    BY <1>0, <2>1, <2>5, <2>9, <2>10, <2>11, PaidKeeps
<1>7. ASSUME NEW p \in Payments, NEW b \in Bills, NEW amount \in 0..MaxAmount,
             RecordPayment(p, b, amount)
      PROVE  (MoneyInv /\ PaidTellsPayments)'
  <2>1. /\ UNCHANGED <<doc, edit, raced>> /\ cash' = cash - amount
        /\ row[b].status # "ABSENT" /\ amount <= Outstanding(b)
        /\ payment' = [payment EXCEPT ![p] = [bill |-> b, amount |-> amount, reversed |-> FALSE]]
    BY <1>7 DEF RecordPayment
  <2>2. /\ row'[b].status \in {"PARTIALLY_PAID", "PAID"} /\ row'[b].paid = row[b].paid + amount
        /\ \A o \in Bills \ {b} : row'[o] = row[o]
    BY <1>0, <1>7, RecordType
  <2>3. /\ PaidBy(StandingPayments)' = PaidBy(StandingPayments) + amount
        /\ \A o \in Bills : PaidIn(o)' = IF o = b THEN PaidIn(o) + amount ELSE PaidIn(o)
    BY <1>0, <1>7, RecordSums
  <2>4. /\ row[b].paid \in Int /\ doc[b].total \in Int /\ cash \in Int /\ amount \in Int
        /\ PaidBy(StandingPayments) \in Int
    <3>1. row[b].paid \in Int /\ cash \in Int /\ amount \in Int
      BY <1>0 DEF TypeOK, Row
    <3>2. doc[b].total \in Int /\ PaidBy(StandingPayments) \in Int
      BY <1>0, TotalType, PaidSumType
    <3> QED
      BY <3>1, <3>2
  <2>5. row'[b].paid <= doc'[b].total
    BY <2>1, <2>2, <2>4 DEF Outstanding
  <2>6. payment'[p].bill = b /\ \A q \in Payments \ {p} : payment'[q] = payment[q]
    BY <1>0, <2>1 DEF TypeOK
  <2>7. MoneyInv'
    <3>1. \A o \in Bills : /\ row'[o].paid <= doc'[o].total
                           /\ row'[o].status = "ABSENT" => row'[o].paid = 0
                           /\ row[o].status # "ABSENT" => row'[o].status # "ABSENT"
      BY <1>0, <2>1, <2>2, <2>5 DEF MoneyInv
    <3>2. \A e \in Editors : edit[e] # NoEdit => edit[e].bill \in Bills
      BY <1>0, EditType DEF TypeOK, Edit
    <3>3. \A q \in Payments \ {p} : payment[q] # NoPayment => payment[q].bill \in Bills
      BY <1>0, PaymentType
    <3> QED
      BY <1>0, <2>1, <2>6, <3>1, <3>2, <3>3 DEF MoneyInv
  <2>8. cash' = -(PaidBy(StandingPayments)')
    <3>1. cash = -PaidBy(StandingPayments)
      BY <1>0 DEF PaidTellsPayments
    <3> QED
      BY <2>1, <2>3, <2>4, <3>1
  <2>9. \A o \in Bills : row'[o].paid <= doc'[o].total /\ (~raced'[o] => row'[o].paid = PaidIn(o)')
    BY <1>0, <2>1, <2>2, <2>3, <2>7 DEF PaidTellsPayments, MoneyInv
  <2>10. PaidTellsPayments'
    BY <2>8, <2>9, Zenon DEF PaidTellsPayments
  <2> QED
    BY <2>7, <2>10
<1>8. ASSUME NEW p \in Payments, ReversePayment(p) PROVE (MoneyInv /\ PaidTellsPayments)'
  <2>1. /\ UNCHANGED <<doc, edit, raced>> /\ cash' = cash + payment[p].amount
        /\ payment[p] # NoPayment /\ payment' = [payment EXCEPT ![p].reversed = TRUE]
    BY <1>8 DEF ReversePayment
  <2>2. PICK b \in Bills : b = payment[p].bill
    BY <1>0, <2>1, PaymentType
  <2>3. /\ row'[b].status \in {"APPROVED", "PARTIALLY_PAID"}
        /\ row'[b].paid = row[b].paid - payment[p].amount
        /\ \A o \in Bills \ {b} : row'[o] = row[o]
    BY <1>0, <1>8, <2>2, ReverseType
  <2>4. /\ PaidBy(StandingPayments)' = PaidBy(StandingPayments) - payment[p].amount
        /\ \A o \in Bills : PaidIn(o)' = IF o = b THEN PaidIn(o) - payment[p].amount ELSE PaidIn(o)
    BY <1>0, <1>8, <2>2, ReverseSums
  <2>5. /\ row[b].paid \in Int /\ doc[b].total \in Int /\ cash \in Int /\ payment[p].amount \in Nat
        /\ PaidBy(StandingPayments) \in Int /\ row[b].paid <= doc[b].total
    <3>1. row[b].paid \in Int /\ cash \in Int
      BY <1>0 DEF TypeOK, Row
    <3>2. /\ doc[b].total \in Int /\ PaidBy(StandingPayments) \in Int
          /\ payment[p].amount \in Nat
      BY <1>0, <2>1, TotalType, PaidSumType, PaymentType
    <3>3. row[b].paid <= doc[b].total
      BY <1>0 DEF MoneyInv
    <3> QED
      BY <3>1, <3>2, <3>3
  <2>6. row'[b].paid <= doc'[b].total
    BY <2>1, <2>3, <2>5
  <2>7. /\ \A q \in Payments \ {p} : payment'[q] = payment[q]
        /\ payment'[p].bill = payment[p].bill
    <3>1. payment[p] \in [bill : Bills, amount : Nat, reversed : BOOLEAN]
      BY <1>0, <2>1, PaymentType
    <3> QED
      BY <1>0, <2>1, <3>1 DEF TypeOK
  <2>8. MoneyInv'
    <3>1. \A o \in Bills : /\ row'[o].paid <= doc'[o].total
                           /\ row'[o].status = "ABSENT" => row'[o].paid = 0
                           /\ row[o].status # "ABSENT" => row'[o].status # "ABSENT"
      BY <1>0, <2>1, <2>3, <2>6 DEF MoneyInv
    <3>2. \A e \in Editors : edit[e] # NoEdit => edit[e].bill \in Bills
      BY <1>0, EditType DEF TypeOK, Edit
    <3>3. \A q \in Payments : payment[q] # NoPayment => payment[q].bill \in Bills
      BY <1>0, PaymentType
    <3> QED
      BY <1>0, <2>1, <2>7, <3>1, <3>2, <3>3 DEF MoneyInv
  <2>9. cash' = -(PaidBy(StandingPayments)')
    <3>1. cash = -PaidBy(StandingPayments)
      BY <1>0 DEF PaidTellsPayments
    <3> QED
      BY <2>1, <2>4, <2>5, <3>1
  <2>10. \A o \in Bills : row'[o].paid <= doc'[o].total /\ (~raced'[o] => row'[o].paid = PaidIn(o)')
    BY <1>0, <2>1, <2>3, <2>4, <2>8 DEF PaidTellsPayments, MoneyInv
  <2>11. PaidTellsPayments'
    BY <2>9, <2>10, Zenon DEF PaidTellsPayments
  <2> QED
    BY <2>8, <2>11
<1> QED
  BY <1>1, <1>2, <1>3, <1>4, <1>5, <1>6, <1>7, <1>8 DEF Next

LEMMA PaidInit == Init => PaidInv
<1> SUFFICES ASSUME Init PROVE PaidInv
  OBVIOUS
<1>1. SafeInv
  BY SafeInit
<1>2. MoneyInv
  BY DEF Init, MoneyInv, NoRow, NoDocument
<1>3. PaidTellsPayments
  <2>1. PaidBy(StandingPayments) = 0 /\ \A b \in Bills : PaidIn(b) = 0
    BY NothingPaid DEF Init
  <2>2. cash = -PaidBy(StandingPayments)
    <3>1. cash = 0
      BY DEF Init
    <3>2. /\ cash = PaidBy(StandingPayments)
          /\ PaidBy(StandingPayments) + PaidBy(StandingPayments) = PaidBy(StandingPayments)
          /\ PaidBy(StandingPayments) \in Int
      BY <2>1, <3>1
    <3>3. \A m, n \in Int : m = n /\ n + n = n => m = -n
      OBVIOUS
    <3> QED
      BY <3>2, <3>3
  <2>3. \A b \in Bills : row[b].paid = PaidIn(b)
    BY <2>1 DEF Init, NoRow
  <2> QED
    BY <1>2, <2>2, <2>3 DEF PaidTellsPayments, MoneyInv
<1> QED
  BY <1>1, <1>2, <1>3 DEF PaidInv

LEMMA PaidAlways == Spec => []PaidInv
BY PaidInit, PaidStep, PTL DEF Spec

(* What a bill says was paid is what its payments come to, unless a save ran  *)
(* over it, and never more than the bill; the account they were made from has *)
(* lost what the payments that stand come to.                                 *)
THEOREM PaymentsAddUp == Spec => []PaidTellsPayments
<1>1. PaidInv => PaidTellsPayments
  BY DEF PaidInv
<1> QED
  BY <1>1, PaidAlways, PTL

--------------------------------------------------------------------------------
(* What is owed *)

Owes(b) == IF b \in OpenBills THEN Outstanding(b) ELSE 0
Owed == SumFunction([b \in Bills |-> Owes(b)])

(* Unless a save ran over it, only a bill that has posted was paid, and one   *)
(* that is paid leaves nothing outstanding.                                   *)
SettledInv ==
    \A b \in Bills : ~raced[b] => /\ ~Posted(b) => row[b].paid = 0
                                  /\ row[b].status = "PAID" => Outstanding(b) = 0

PayablesInv == PaidInv /\ SettledInv /\ PayablesAgree

OwesInt == \A b \in Bills : Outstanding(b) \in Int /\ Owes(b) \in Int
LEMMA OwesType == TypeOK => OwesInt
<1> SUFFICES ASSUME TypeOK, NEW b \in Bills PROVE Outstanding(b) \in Int /\ Owes(b) \in Int
  BY DEF OwesInt
<1>1. row[b].paid \in Int
  BY DEF TypeOK, Row
<1>2. Outstanding(b) \in Int
  BY <1>1, TotalType DEF Outstanding
<1> QED
  BY <1>2 DEF Owes

LEMMA OpenAreOwed == TypeOK => SumFunction([b \in OpenBills |-> Outstanding(b)]) = Owed
<1> SUFFICES ASSUME TypeOK PROVE SumFunction([b \in OpenBills |-> Outstanding(b)]) = Owed
  OBVIOUS
<1>1. \A T \in SUBSET Bills : \A f \in [Bills -> Int], g \in [T -> Int] :
          (\A x \in T : f[x] = g[x]) /\ (\A x \in Bills \ T : f[x] = 0)
              => SumFunction(f) = SumFunction(g)
  BY SumOfPart
<1>2. OpenBills \in SUBSET Bills
  BY DEF OpenBills
<1>3. \A b \in Bills : Outstanding(b) \in Int /\ Owes(b) \in Int
  BY OwesType DEF OwesInt
<1>4. PICK f \in [Bills -> Int] : f = [b \in Bills |-> Owes(b)]
  BY <1>3
<1>5. PICK g \in [OpenBills -> Int] : g = [b \in OpenBills |-> Outstanding(b)]
  BY <1>2, <1>3
<1>6. \A b \in Bills : f[b] = IF b \in OpenBills THEN g[b] ELSE 0
  BY <1>4, <1>5 DEF Owes
<1>7. SumFunction(f) = SumFunction(g)
  BY <1>1, <1>2, <1>6
<1> QED
  BY <1>4, <1>5, <1>7 DEF Owed

(* A step of one bill moves what is owed by what this bill owes. *)
LEMMA OwedMoves ==
  ASSUME TypeOK, TypeOK', NEW b \in Bills,
         \A o \in Bills \ {b} : row'[o] = row[o] /\ doc'[o] = doc[o]
  PROVE  /\ Owed' = Owed - Owes(b) + Owes(b)'
         /\ Owed \in Int /\ Owes(b) \in Int /\ Owes(b)' \in Int
<1>1. \A f, g \in [Bills -> Int] :
          (\A x \in Bills \ {b} : f[x] = g[x]) => SumFunction(g) = SumFunction(f) - f[b] + g[b]
  BY SumChange
<1>2. (TypeOK => OwesInt)'
  BY OwesType, PTL
<1>3. \A o \in Bills : Owes(o) \in Int /\ Owes(o)' \in Int
  BY <1>2, OwesType DEF OwesInt
<1>4. \A o \in Bills \ {b} : Owes(o)' = Owes(o)
  BY DEF Owes, OpenBills, Outstanding
<1>5. PICK f \in [Bills -> Int] : f = [o \in Bills |-> Owes(o)]
  BY <1>3
<1>6. PICK g \in [Bills -> Int] : g = [o \in Bills |-> Owes(o)']
  BY <1>3
<1>7. SumFunction(g) = SumFunction(f) - f[b] + g[b]
  BY <1>1, <1>4, <1>5, <1>6
<1>8. \A h \in [Bills -> Int] : SumFunction(h) \in Int
  BY SumType
<1> QED
  BY <1>3, <1>5, <1>6, <1>7, <1>8 DEF Owed

(* What the payables account has to agree with. *)
PayablesTellOwed == (\A b \in Bills : ~raced[b] /\ entries[b] <= 1) => payable = Owed
LEMMA PayablesAre == TypeOK => (PayablesAgree <=> PayablesTellOwed)
BY OpenAreOwed, Zenon DEF PayablesAgree, PayablesTellOwed

(* A step of one bill that moves the account as far as it moves what the bill *)
(* owes.                                                                      *)
LEMMA PayablesKeep ==
  ASSUME PayablesInv, TypeOK', NEW b \in Bills,
         \A o \in Bills \ {b} : row'[o] = row[o] /\ doc'[o] = doc[o],
         \A o \in Bills : ~raced'[o] => ~raced[o],
         \A o \in Bills : entries'[o] <= 1 => entries[o] <= 1,
         ~raced'[b] => /\ ~Posted(b)' => row'[b].paid = 0
                       /\ row'[b].status = "PAID" => Outstanding(b)' = 0,
         ~raced'[b] /\ entries'[b] <= 1 => payable' = payable - Owes(b) + Owes(b)'
  PROVE  (SettledInv /\ PayablesAgree)'
<1>1. TypeOK /\ SettledInv /\ PayablesAgree
  BY DEF PayablesInv, PaidInv, SafeInv
<1>2. SettledInv'
  BY <1>1 DEF SettledInv, Posted, Outstanding
<1>3. (TypeOK => (PayablesAgree <=> PayablesTellOwed))'
  BY PayablesAre, PTL
<1>4. Owed' = Owed - Owes(b) + Owes(b)'
  BY <1>1, OwedMoves
<1>5. ASSUME \A o \in Bills : ~raced'[o] /\ entries'[o] <= 1 PROVE payable' = Owed'
  <2>1. \A o \in Bills : ~raced[o] /\ entries[o] <= 1
    BY <1>5
  <2>2. payable = Owed
    BY <1>1, <2>1, PayablesAre DEF PayablesTellOwed
  <2>3. payable' = payable - Owes(b) + Owes(b)'
    BY <1>5
  <2> QED
    BY <1>4, <2>2, <2>3
<1>6. PayablesAgree'
  BY <1>3, <1>5 DEF PayablesTellOwed
<1> QED
  BY <1>2, <1>6

LEMMA BooksStep == PayablesInv /\ [Next]_vars => PayablesInv'
<1> SUFFICES ASSUME PayablesInv, [Next]_vars PROVE PayablesInv'
  OBVIOUS
<1>0. /\ PaidInv /\ SafeInv /\ TypeOK /\ SettledInv /\ PayablesAgree
      /\ PaidInv' /\ TypeOK'
  BY PaidStep DEF PayablesInv, PaidInv, SafeInv
<1> SUFFICES (SettledInv /\ PayablesAgree)'
  BY <1>0 DEF PayablesInv
<1>1. ASSUME UNCHANGED <<row, doc, payable, raced, entries>>
      PROVE  (SettledInv /\ PayablesAgree)'
  BY <1>0, <1>1 DEF SettledInv, PayablesAgree, OpenBills, Outstanding, Posted
<1>2. CASE (\E l \in OrderLines : Receive(l)) \/ UNCHANGED vars
  BY <1>1, <1>2 DEF Receive, vars
<1>3. ASSUME NEW b \in Bills, NEW d \in Documents, Create(b, d)
      PROVE  (SettledInv /\ PayablesAgree)'
  <2>1. /\ row[b].status = "ABSENT" /\ doc' = [doc EXCEPT ![b] = d]
        /\ UNCHANGED <<payable, raced, entries>>
    BY <1>3 DEF Create
  <2>2. /\ row'[b].status = "DRAFT" /\ row'[b].paid = 0
        /\ \A o \in Bills \ {b} : row'[o] = row[o]
    BY <1>0, <1>3, CreateType
  <2>3. \A o \in Bills \ {b} : doc'[o] = doc[o]
    BY <1>0, <2>1 DEF TypeOK
  <2>4. Owes(b) = 0 /\ Owes(b)' = 0
    BY <2>1, <2>2 DEF Owes, OpenBills
  <2>5. payable' = payable - Owes(b) + Owes(b)'
    BY <1>0, <2>1, <2>4 DEF TypeOK
  <2> QED
    BY <1>0, <2>1, <2>2, <2>3, <2>5, PayablesKeep
<1>4. ASSUME NEW b \in Bills, NEW may \in BOOLEAN, Approve(b, may)
      PROVE  (SettledInv /\ PayablesAgree)'
  <2>1. /\ UNCHANGED <<doc, raced>> /\ payable' = payable + doc[b].total
        /\ entries' = [entries EXCEPT ![b] = @ + 1]
    BY <1>4 DEF Approve
  <2>2. /\ row'[b].status = "APPROVED" /\ row'[b].paid = row[b].paid
        /\ \A o \in Bills \ {b} : row'[o] = row[o]
    BY <1>0, <1>4, ApproveType
  <2>3. entries \in [Bills -> Nat] /\ payable \in Int
    BY <1>0 DEF TypeOK
  <2>4. entries'[b] = entries[b] + 1 /\ \A o \in Bills \ {b} : entries'[o] = entries[o]
    BY <2>1, <2>3
  <2>5. Posted(b)'
    BY <2>2 DEF Posted, PostedBillStatuses
  <2>6. ASSUME ~raced'[b], entries'[b] <= 1
        PROVE  payable' = payable - Owes(b) + Owes(b)'
    <3>1. entries[b] = 0 /\ ~raced[b]
      BY <2>1, <2>3, <2>4, <2>6
    <3>2. ~Posted(b)
      BY <1>0, <3>1, Tells DEF SafeInv
    <3>3. row[b].paid = 0 /\ Owes(b) = 0
      BY <1>0, <3>1, <3>2 DEF SettledInv, Owes, OpenBills, Posted, PostedBillStatuses
    <3>4. Owes(b)' = doc[b].total - 0
      BY <2>1, <2>2, <3>3 DEF Owes, OpenBills, Outstanding
    <3>5. doc[b].total \in Nat
      BY <1>0, TotalType
    <3> QED
      BY <2>1, <2>3, <3>3, <3>4, <3>5
  <2>7. \A o \in Bills : entries'[o] <= 1 => entries[o] <= 1
    BY <2>3, <2>4
  <2> QED
    BY <1>0, <2>1, <2>2, <2>5, <2>6, <2>7, PayablesKeep
<1>5. ASSUME NEW e \in Editors, NEW b \in Bills, NEW to \in Statuses, Load(e, b, to)
      PROVE  (SettledInv /\ PayablesAgree)'
  BY <1>1, <1>5 DEF Load
<1>6. ASSUME NEW e \in Editors, Compare(e) PROVE (SettledInv /\ PayablesAgree)'
  BY <1>1, <1>6 DEF Compare
<1>7. ASSUME NEW e \in Editors, Save(e) PROVE (SettledInv /\ PayablesAgree)'
  <2>1. /\ edit[e].at = "compared" /\ UNCHANGED <<doc, payable, entries>>
    BY <1>7 DEF Save
  <2>2. /\ edit[e] # NoEdit /\ edit[e].bill \in Bills
        /\ edit[e].base \in Row /\ edit[e].copy \in Row /\ edit[e].dirty \in SUBSET DOMAIN NoRow
    BY <1>0, <2>1, EditType
  <2>3. PICK b \in Bills : b = edit[e].bill
    BY <2>2
  <2>4. PICK new \in Row : /\ new = Saved(edit[e].copy, row[b], edit[e].dirty)
                           /\ new.status \in {edit[e].copy.status, row[b].status}
                           /\ new.paid \in {edit[e].copy.paid, row[b].paid}
    <3>1. row[b] \in Row
      BY <1>0 DEF TypeOK
    <3> QED
      BY <2>2, <3>1, SavedRow
  <2>5. /\ \A o \in Bills : raced[o] => raced'[o]
        /\ \A o \in Bills \ {b} : row'[o] = row[o] /\ raced'[o] = raced[o]
        /\ \/ row'[b] = row[b] /\ raced'[b] = raced[b]
           \/ row'[b] = new /\ (raced'[b] \/ row[b] \in {edit[e].base, new})
    BY <1>0, <1>7, <2>3, <2>4, SaveType
  <2>6. /\ edit[e].base.status \in Unposted /\ edit[e].copy.status \in Unposted
        /\ edit[e].copy = [edit[e].base EXCEPT !.status = edit[e].copy.status]
    BY <1>0, <2>2 DEF SafeInv, EditInv
  <2>7. edit[e].copy.paid = edit[e].base.paid
    BY <2>2, <2>6 DEF Row, Unposted
  <2>8. ASSUME ~raced'[b]
        PROVE  /\ ~Posted(b)' => row'[b].paid = 0
               /\ row'[b].status = "PAID" => Outstanding(b)' = 0
               /\ Owes(b)' = Owes(b)
    <3>1. ~raced[b]
      BY <2>5, <2>8
    <3>2. CASE row'[b] = row[b]
      BY <1>0, <2>1, <3>1, <3>2 DEF SettledInv, Posted, Outstanding, Owes, OpenBills
    <3>3. CASE row'[b] = new /\ row[b] = edit[e].base
      <4>1. row[b].status \in Unposted /\ row'[b].status \in Unposted /\ row'[b].paid = row[b].paid
        BY <2>4, <2>6, <2>7, <3>3
      <4>2. ~Posted(b)
        BY <4>1 DEF Posted, Unposted, PostedBillStatuses
      <4>3. row[b].paid = 0
        BY <1>0, <3>1, <4>2 DEF SettledInv
      <4> QED
        BY <4>1, <4>3 DEF Owes, OpenBills, Unposted
    <3> QED
      BY <2>5, <2>8, <3>2, <3>3
  <2>9. ~raced'[b] => payable' = payable - Owes(b) + Owes(b)'
    <3>1. payable \in Int
      BY <1>0 DEF TypeOK
    <3>2. Owes(b) \in Int
      BY <1>0, OwesType DEF OwesInt
    <3>3. \A m, n \in Int : m = m - n + n
      OBVIOUS
    <3> QED
      BY <2>1, <2>8, <3>1, <3>2, <3>3
  <2> QED
    BY <1>0, <2>1, <2>5, <2>8, <2>9, PayablesKeep
<1>8. ASSUME NEW p \in Payments, NEW b \in Bills, NEW amount \in 0..MaxAmount,
             RecordPayment(p, b, amount)
      PROVE  (SettledInv /\ PayablesAgree)'
  <2>1. /\ UNCHANGED <<doc, raced, entries>> /\ payable' = payable - amount
        /\ row[b].status \in {"APPROVED", "PARTIALLY_PAID"}
    BY <1>8 DEF RecordPayment
  <2>2. /\ row'[b].status \in {"PARTIALLY_PAID", "PAID"} /\ row'[b].paid = row[b].paid + amount
        /\ row'[b].status = "PAID" <=> amount = Outstanding(b)
        /\ \A o \in Bills \ {b} : row'[o] = row[o]
    BY <1>0, <1>8, RecordType
  <2>3. Posted(b)'
    BY <2>2 DEF Posted, PostedBillStatuses
  <2>4. /\ payable \in Int /\ Outstanding(b) \in Int /\ amount \in Int
        /\ row[b].paid \in Int /\ doc[b].total \in Int
    <3>1. payable \in Int /\ row[b].paid \in Int /\ amount \in Int
      BY <1>0 DEF TypeOK, Row
    <3> QED
      BY <1>0, <3>1, OwesType, TotalType DEF OwesInt
  <2>5. Outstanding(b)' = Outstanding(b) - amount
    BY <2>1, <2>2, <2>4 DEF Outstanding
  <2>6. Owes(b) = Outstanding(b) /\ Owes(b)' = Outstanding(b) - amount
    <3>1. Owes(b) = Outstanding(b)
      BY <2>1 DEF Owes, OpenBills
    <3>2. Owes(b)' = IF row'[b].status = "PAID" THEN 0 ELSE Outstanding(b)'
      BY <2>2 DEF Owes, OpenBills
    <3> QED
      BY <2>2, <2>4, <2>5, <3>1, <3>2
  <2>7. payable' = payable - Owes(b) + Owes(b)'
    BY <2>1, <2>4, <2>6
  <2>8. row'[b].status = "PAID" => Outstanding(b)' = 0
    BY <2>2, <2>4, <2>5
  <2> QED
    BY <1>0, <2>1, <2>2, <2>3, <2>7, <2>8, PayablesKeep
<1>9. ASSUME NEW p \in Payments, ReversePayment(p) PROVE (SettledInv /\ PayablesAgree)'
  <2>1. /\ UNCHANGED <<doc, raced, entries>> /\ payable' = payable + payment[p].amount
        /\ payment[p] # NoPayment
    BY <1>9 DEF ReversePayment
  <2>2. PICK b \in Bills : b = payment[p].bill
    BY <1>0, <2>1, PaymentType
  <2>3. /\ row'[b].status \in {"APPROVED", "PARTIALLY_PAID"}
        /\ row'[b].paid = row[b].paid - payment[p].amount
        /\ \A o \in Bills \ {b} : row'[o] = row[o]
    BY <1>0, <1>9, <2>2, ReverseType
  <2>4. Posted(b)'
    BY <2>3 DEF Posted, PostedBillStatuses
  <2>5. /\ payable \in Int /\ Outstanding(b) \in Int /\ payment[p].amount \in Int
        /\ row[b].paid \in Int /\ doc[b].total \in Int
    <3>1. payable \in Int /\ row[b].paid \in Int
      BY <1>0 DEF TypeOK, Row
    <3>2. payment[p].amount \in Int
      BY <1>0, <2>1, PaymentType
    <3> QED
      BY <1>0, <3>1, <3>2, OwesType, TotalType DEF OwesInt
  <2>6. Owes(b)' = Outstanding(b) + payment[p].amount
    <3>1. Owes(b)' = Outstanding(b)'
      BY <2>3 DEF Owes, OpenBills
    <3> QED
      BY <2>1, <2>3, <2>5, <3>1 DEF Outstanding
  <2>7. ~raced[b] => Owes(b) = Outstanding(b)
    <3>1. ~raced[b] => Posted(b)
      BY <1>0, <2>1, <2>2 DEF SafeInv, PaymentInv
    <3> QED
      BY <1>0, <3>1 DEF SettledInv, Posted, PostedBillStatuses, Owes, OpenBills
  <2>8. ~raced'[b] => payable' = payable - Owes(b) + Owes(b)'
    BY <2>1, <2>5, <2>6, <2>7
  <2> QED
    BY <1>0, <2>1, <2>3, <2>4, <2>8, PayablesKeep
<1> QED
  BY <1>2, <1>3, <1>4, <1>5, <1>6, <1>7, <1>8, <1>9 DEF Next

LEMMA BooksInit == Init => PayablesInv
<1> SUFFICES ASSUME Init PROVE PayablesInv
  OBVIOUS
<1>1. PaidInv
  BY PaidInit
<1>2. SettledInv
  BY DEF Init, SettledInv, NoRow
<1>3. PayablesAgree
  <2>1. OpenBills = {} /\ payable = 0
    BY DEF Init, OpenBills, NoRow
  <2>2. \A f : DOMAIN f = {} => SumFunction(f) = 0
    BY SumEmpty
  <2>3. DOMAIN [b \in OpenBills |-> Outstanding(b)] = {}
    BY <2>1
  <2> QED
    BY <2>1, <2>2, <2>3 DEF PayablesAgree
<1> QED
  BY <1>1, <1>2, <1>3 DEF PayablesInv

LEMMA BooksAlways == Spec => []PayablesInv
BY BooksInit, BooksStep, PTL DEF Spec

(* The payables account owes what the open bills leave outstanding, unless a  *)
(* bill was saved over or approved a second time.                             *)
THEOREM PayablesAddUp == Spec => []PayablesAgree
<1>1. PayablesInv => PayablesAgree
  BY DEF PayablesInv
<1> QED
  BY <1>1, BooksAlways, PTL

--------------------------------------------------------------------------------
(* What is billed of an order line *)

Claim(b, l) == IF Posted(b) THEN QtyOn(doc[b], l) ELSE 0
ClaimedOn(l) == SumFunction([b \in {p \in Bills : Posted(p)} |-> QtyOn(doc[b], l)])

(* Sums over bills. *)
LEMMA SumsOfBills ==
  /\ \A f \in [Bills -> Int] : SumFunction(f) \in Int
  /\ \A b \in Bills : \A f, g \in [Bills -> Int] :
        (\A x \in Bills \ {b} : f[x] = g[x]) => SumFunction(g) = SumFunction(f) - f[b] + g[b]
  /\ \A T \in SUBSET Bills : \A f \in [Bills -> Int], g \in [T -> Int] :
        (\A x \in T : f[x] = g[x]) /\ (\A x \in Bills \ T : f[x] = 0)
            => SumFunction(f) = SumFunction(g)
<1>0. IsFiniteSet(Bills)
  OBVIOUS
<1>1. \A f \in [Bills -> Int] : SumFunction(f) \in Int
  BY <1>0, SumType
<1>2. \A b \in Bills : \A f, g \in [Bills -> Int] :
        (\A x \in Bills \ {b} : f[x] = g[x]) => SumFunction(g) = SumFunction(f) - f[b] + g[b]
  BY <1>0, SumChange
<1>3. \A T \in SUBSET Bills : \A f \in [Bills -> Int], g \in [T -> Int] :
        (\A x \in T : f[x] = g[x]) /\ (\A x \in Bills \ T : f[x] = 0)
            => SumFunction(f) = SumFunction(g)
  BY <1>0, SumOfPart
<1> QED
  BY <1>1, <1>2, <1>3

LinesOfOrder(d, l) == {n \in DOMAIN d.lines : d.lines[n].order = l}

LEMMA DocumentLines ==
  ASSUME NEW d \in Documents \cup {NoDocument}, NEW l \in OrderLines
  PROVE  /\ IsFiniteSet(LinesOfOrder(d, l))
         /\ \A i \in LinesOfOrder(d, l) : d.lines[i].qty \in Nat /\ i \in Linked(d)
<1>1. CASE d \in Documents
  <2>1. d.lines \in Seq(Line)
    BY <1>1
  <2>2. IsFiniteSet(DOMAIN d.lines)
    <3>1. Len(d.lines) \in Nat /\ DOMAIN d.lines = 1..Len(d.lines)
      BY <2>1
    <3>2. \A n \in Nat : IsFiniteSet(1..n)
      BY FS_Interval
    <3> QED
      BY <3>1, <3>2
  <2>3. LinesOfOrder(d, l) \subseteq DOMAIN d.lines
    BY DEF LinesOfOrder
  <2>4. \A i \in DOMAIN d.lines : d.lines[i] \in Line
    BY <2>1
  <2>5. \A i \in LinesOfOrder(d, l) : d.lines[i].qty \in Nat /\ i \in Linked(d)
    BY <2>3, <2>4 DEF Line, LinesOfOrder, Linked
  <2> QED
    BY <2>2, <2>3, <2>5, FS_Subset
<1>2. CASE d = NoDocument
  <2>1. LinesOfOrder(d, l) = {}
    BY <1>2 DEF NoDocument, LinesOfOrder
  <2> QED
    BY <2>1, FS_EmptySet
<1> QED
  BY <1>1, <1>2

LEMMA QtyType ==
  ASSUME NEW d \in Documents \cup {NoDocument}, NEW l \in OrderLines
  PROVE  QtyOn(d, l) \in Nat
<1> DEFINE S == LinesOfOrder(d, l)
<1>1. IsFiniteSet(S) /\ \A i \in S : d.lines[i].qty \in Nat
  BY DocumentLines
<1>2. QtyOn(d, l) = SumFunction([i \in S |-> d.lines[i].qty])
  BY DEF QtyOn, LinesOfOrder
<1> HIDE DEF S
<1>3. \A f \in [S -> Nat] : SumFunction(f) \in Nat
  BY <1>1, SumOfNat
<1>4. [i \in S |-> d.lines[i].qty] \in [S -> Nat]
  BY <1>1
<1> QED
  BY <1>2, <1>3, <1>4

(* An invoice that lists an order line once bills what that line says.        *)
LEMMA QtyOnce ==
  ASSUME NEW d \in Documents \cup {NoDocument}, NEW l \in OrderLines,
         \A i, j \in Linked(d) : d.lines[i].order = d.lines[j].order => i = j
  PROVE  \/ QtyOn(d, l) = 0
         \/ \E i \in Linked(d) : d.lines[i].order = l /\ QtyOn(d, l) = d.lines[i].qty
<1> DEFINE S == LinesOfOrder(d, l)
<1>1. IsFiniteSet(S) /\ \A i \in S : d.lines[i].qty \in Nat /\ i \in Linked(d)
  BY DocumentLines
<1>2. QtyOn(d, l) = SumFunction([i \in S |-> d.lines[i].qty])
  BY DEF QtyOn, LinesOfOrder
<1>3. \A i \in S : d.lines[i].order = l
  BY DEF LinesOfOrder
<1> HIDE DEF S
<1>4. PICK f \in [S -> Int] : f = [i \in S |-> d.lines[i].qty]
  <2>1. [i \in S |-> d.lines[i].qty] \in [S -> Int]
    BY <1>1
  <2> QED
    BY <2>1, Zenon
<1>5. CASE S = {}
  <2>1. \A g : DOMAIN g = {} => SumFunction(g) = 0
    BY SumEmpty
  <2>2. SumFunction(f) = 0
    BY <1>5, <2>1
  <2> QED
    BY <1>2, <1>4, <2>2
<1>6. ASSUME NEW i \in S
      PROVE  i \in Linked(d) /\ d.lines[i].order = l /\ QtyOn(d, l) = d.lines[i].qty
  <2>1. i \in Linked(d) /\ d.lines[i].order = l /\ \A j \in S : j = i
    BY <1>1, <1>3
  <2>2. \A j \in S \ {i} : f[j] = 0
    BY <2>1
  <2>3. S \ {i} = {}
    BY <2>1
  <2>4. /\ SumFunctionOnSet(f, S \ {i}) \in Int
        /\ SumFunction(f) = f[i] + SumFunctionOnSet(f, S \ {i})
    BY <1>1, SumTakeOut
  <2>5. SumFunctionOnSet(f, {}) = 0
    BY SumUnfolds, FS_EmptySet
  <2>6. f[i] = d.lines[i].qty /\ f[i] \in Int
    BY <1>4
  <2>7. SumFunction(f) = f[i]
    <3>1. SumFunction(f) = f[i] + 0
      BY <2>3, <2>4, <2>5
    <3> QED
      BY <2>6, <3>1
  <2> QED
    BY <1>2, <1>4, <2>1, <2>6, <2>7
<1> QED
  BY <1>5, <1>6

ClaimsNat == \A b \in Bills, l \in OrderLines : Claim(b, l) \in Nat
LEMMA ClaimType == TypeOK => ClaimsNat
<1> SUFFICES ASSUME TypeOK, NEW b \in Bills, NEW l \in OrderLines PROVE Claim(b, l) \in Nat
  BY DEF ClaimsNat
<1>1. doc[b] \in Documents \cup {NoDocument}
  BY DEF TypeOK
<1>2. QtyOn(doc[b], l) \in Nat
  BY <1>1, QtyType
<1> QED
  BY <1>2 DEF Claim

(* What has posted on a line is a sum over all bills; leaving one out takes   *)
(* its claim from it.                                                         *)
LEMMA ClaimsSum ==
  ASSUME TypeOK, NEW l \in OrderLines
  PROVE  /\ ClaimedOn(l) \in Int
         /\ ClaimedOn(l) = SumFunction([b \in Bills |-> Claim(b, l)])
         /\ \A b \in Bills : BilledElsewhere(b, l, PostedBillStatuses) = ClaimedOn(l) - Claim(b, l)
<1>1. \A b \in Bills : Claim(b, l) \in Int
  BY ClaimType DEF ClaimsNat
<1>2. PICK f \in [Bills -> Int] : f = [b \in Bills |-> Claim(b, l)]
  BY <1>1
<1>4. SumFunction(f) \in Int
  BY SumsOfBills
<1>5. ClaimedOn(l) = SumFunction(f)
  <2> DEFINE T == {p \in Bills : Posted(p)}
  <2>1. T \in SUBSET Bills /\ \A x \in T : f[x] = QtyOn(doc[x], l) /\ f[x] \in Int
    BY <1>2 DEF Claim
  <2>2. \A x \in Bills \ T : f[x] = 0
    BY <1>2 DEF Claim
  <2>3. ClaimedOn(l) = SumFunction([b \in T |-> QtyOn(doc[b], l)])
    BY DEF ClaimedOn
  <2> HIDE DEF T
  <2>4. PICK g \in [T -> Int] : g = [b \in T |-> QtyOn(doc[b], l)]
    BY <2>1
  <2>5. \A x \in T : f[x] = g[x]
    BY <2>1, <2>4
  <2>6. SumFunction(f) = SumFunction(g)
    <3>1. \A u \in [Bills -> Int], v \in [T -> Int] :
              (\A x \in T : u[x] = v[x]) /\ (\A x \in Bills \ T : u[x] = 0)
                  => SumFunction(u) = SumFunction(v)
      BY <2>1, SumsOfBills
    <3> QED
      BY <3>1, <2>1, <2>2, <2>5
  <2> QED
    BY <2>3, <2>4, <2>6
<1>6. ASSUME NEW b \in Bills
      PROVE  BilledElsewhere(b, l, PostedBillStatuses) = ClaimedOn(l) - Claim(b, l)
  <2> DEFINE T == {p \in Bills \ {b} : row[p].status \in PostedBillStatuses}
  <2>1. T \in SUBSET Bills /\ b \notin T /\ \A x \in T : f[x] = QtyOn(doc[x], l) /\ f[x] \in Int
    BY <1>2 DEF Claim, Posted
  <2>2. \A x \in Bills \ T : x # b => f[x] = 0
    BY <1>2 DEF Claim, Posted
  <2>3. BilledElsewhere(b, l, PostedBillStatuses) = SumFunction([o \in T |-> QtyOn(doc[o], l)])
    BY DEF BilledElsewhere
  <2> HIDE DEF T
  <2>4. PICK g \in [T -> Int] : g = [o \in T |-> QtyOn(doc[o], l)]
    BY <2>1
  <2>5. PICK h \in [Bills -> Int] : h[b] = 0 /\ \A x \in Bills \ {b} : h[x] = f[x]
    <3>1. [f EXCEPT ![b] = 0] \in [Bills -> Int]
      OBVIOUS
    <3> QED
      BY <3>1
  <2>6. SumFunction(h) = SumFunction(g)
    <3>1. (\A x \in T : h[x] = g[x]) /\ (\A x \in Bills \ T : h[x] = 0)
      BY <2>1, <2>2, <2>4, <2>5
    <3> QED
      <4>1. \A u \in [Bills -> Int], v \in [T -> Int] :
                (\A x \in T : u[x] = v[x]) /\ (\A x \in Bills \ T : u[x] = 0)
                    => SumFunction(u) = SumFunction(v)
        BY <2>1, SumsOfBills
      <4> QED
        BY <4>1, <2>1, <3>1
  <2>8. SumFunction(h) = SumFunction(f) - f[b] + 0
    BY <2>5, SumsOfBills
  <2>9. f[b] = Claim(b, l) /\ f[b] \in Int
    BY <1>2
  <2> QED
    BY <1>4, <1>5, <2>3, <2>4, <2>6, <2>8, <2>9
<1> QED
  BY <1>2, <1>4, <1>5, <1>6

BilledInv == SafeInv /\ BilledWithinReceived

(* A step after which every bill that was not run over claims what it did.    *)
LEMMA ClaimsKeep ==
  ASSUME TypeOK, TypeOK', BilledWithinReceived,
         \A o \in Bills : ~raced'[o] => /\ ~raced[o]
                                        /\ Posted(o)' <=> Posted(o)
                                        /\ Posted(o) => doc'[o] = doc[o],
         \A l \in OrderLines : received[l] <= received'[l]
  PROVE  BilledWithinReceived'
<1> SUFFICES ASSUME \A o \in Bills : ~raced'[o] /\ (Posted(o)' => OneLinePerOrderLine(o)'),
                    NEW l \in OrderLines
             PROVE  ClaimedOn(l)' <= received'[l]
  BY DEF BilledWithinReceived, ClaimedOn
<1>1. \A o \in Bills : /\ ~raced[o] /\ (Posted(o)' <=> Posted(o))
                       /\ Posted(o) => doc'[o] = doc[o]
  OBVIOUS
<1>2. \A o \in Bills : Posted(o) => OneLinePerOrderLine(o)
  BY <1>1 DEF OneLinePerOrderLine
<1>3. ClaimedOn(l) <= received[l]
  BY <1>1, <1>2 DEF BilledWithinReceived, ClaimedOn
<1>4. {p \in Bills : Posted(p)'} = {p \in Bills : Posted(p)}
  BY <1>1
<1>5. [b \in {p \in Bills : Posted(p)'} |-> QtyOn(doc'[b], l)]
         = [b \in {p \in Bills : Posted(p)} |-> QtyOn(doc[b], l)]
  BY <1>1, <1>4
<1>6. ClaimedOn(l)' = ClaimedOn(l)
  BY <1>5 DEF ClaimedOn, QtyOn
<1>7. ClaimedOn(l) \in Int
  BY ClaimsSum
<1>8. received[l] \in Int /\ received'[l] \in Int
  BY DEF TypeOK
<1> QED
  BY <1>3, <1>6, <1>7, <1>8

(* The check under the lock leaves room for the bill's own lines.             *)
LEMMA ApproveWithin ==
  ASSUME TypeOK, TypeOK', BilledWithinReceived,
         NEW b \in Bills, NEW may \in BOOLEAN, Approve(b, may)
  PROVE  BilledWithinReceived'
<1>1. /\ UNCHANGED <<received, doc, raced>>
      /\ ~QuantityVariance(doc[b], b, PostedBillStatuses)
  BY DEF Approve
<1>2. Posted(b)' /\ \A o \in Bills \ {b} : Posted(o)' <=> Posted(o)
  BY ApproveType DEF Posted, PostedBillStatuses
<1> SUFFICES ASSUME \A o \in Bills : ~raced'[o] /\ (Posted(o)' => OneLinePerOrderLine(o)'),
                    NEW l \in OrderLines
             PROVE  ClaimedOn(l)' <= received'[l]
  BY DEF BilledWithinReceived, ClaimedOn
<1>3. \A o \in Bills : OneLinePerOrderLine(o)' <=> OneLinePerOrderLine(o)
  BY <1>1 DEF OneLinePerOrderLine
<1>4. OneLinePerOrderLine(b) /\ \A o \in Bills : ~raced[o] /\ (Posted(o) => OneLinePerOrderLine(o))
  BY <1>1, <1>2, <1>3
<1>5. ClaimedOn(l) <= received[l]
  BY <1>4 DEF BilledWithinReceived, ClaimedOn
<1>6. /\ ClaimedOn(l) \in Int /\ received[l] \in Int
      /\ BilledElsewhere(b, l, PostedBillStatuses) = ClaimedOn(l) - Claim(b, l)
      /\ ClaimedOn(l) = SumFunction([o \in Bills |-> Claim(o, l)])
  BY ClaimsSum DEF TypeOK
<1>7. doc[b] \in Documents \cup {NoDocument}
  BY DEF TypeOK
<1>8. Claim(b, l) \in Nat /\ QtyOn(doc[b], l) \in Nat
  BY <1>7, ClaimType, QtyType DEF ClaimsNat
<1>9. ClaimedOn(l)' = ClaimedOn(l) - Claim(b, l) + QtyOn(doc[b], l)
  <2>2. (TypeOK => ClaimsNat)'
    BY ClaimType, PTL
  <2>3. \A o \in Bills : Claim(o, l) \in Int /\ Claim(o, l)' \in Int
    BY <2>2, ClaimType DEF ClaimsNat
  <2>4. Claim(b, l)' = QtyOn(doc[b], l) /\ \A o \in Bills \ {b} : Claim(o, l)' = Claim(o, l)
    BY <1>1, <1>2 DEF Claim, QtyOn
  <2>5. PICK f \in [Bills -> Int] : f = [o \in Bills |-> Claim(o, l)]
    BY <2>3
  <2>6. PICK g \in [Bills -> Int] : g = [o \in Bills |-> Claim(o, l)']
    BY <2>3
  <2>7. SumFunction(g) = SumFunction(f) - f[b] + g[b]
    BY <2>4, <2>5, <2>6, SumsOfBills
  <2>8. ClaimedOn(l)' = SumFunction(g)
    <3> DEFINE T == {p \in Bills : Posted(p)'}
    <3>1. T \in SUBSET Bills /\ \A x \in T : g[x] = QtyOn(doc'[x], l) /\ g[x] \in Int
      BY <1>1, <2>6 DEF Claim, QtyOn
    <3>2. \A x \in Bills \ T : g[x] = 0
      BY <2>6 DEF Claim
    <3>3. ClaimedOn(l)' = SumFunction([o \in T |-> QtyOn(doc'[o], l)])
      BY <1>1 DEF ClaimedOn, QtyOn
    <3> HIDE DEF T
    <3>4. PICK h \in [T -> Int] : h = [o \in T |-> QtyOn(doc'[o], l)]
      BY <3>1
    <3>5. \A x \in T : g[x] = h[x]
      BY <3>1, <3>4
    <3>6. SumFunction(g) = SumFunction(h)
      <4>1. \A u \in [Bills -> Int], v \in [T -> Int] :
                (\A x \in T : u[x] = v[x]) /\ (\A x \in Bills \ T : u[x] = 0)
                    => SumFunction(u) = SumFunction(v)
        BY <3>1, SumsOfBills
      <4> QED
        BY <4>1, <3>1, <3>2, <3>5
    <3> QED
      BY <3>3, <3>4, <3>6
  <2> QED
    BY <1>6, <2>4, <2>5, <2>6, <2>7, <2>8
<1>10. \/ QtyOn(doc[b], l) = 0
       \/ \E i \in Linked(doc[b]) : doc[b].lines[i].order = l /\ QtyOn(doc[b], l) = doc[b].lines[i].qty
  BY <1>4, <1>7, QtyOnce DEF OneLinePerOrderLine
<1>11. CASE QtyOn(doc[b], l) = 0
  BY <1>1, <1>5, <1>6, <1>8, <1>9, <1>11
<1>12. CASE \E i \in Linked(doc[b]) : doc[b].lines[i].order = l
                                      /\ QtyOn(doc[b], l) = doc[b].lines[i].qty
  <2>1. ~(QtyOn(doc[b], l) > received[l] - BilledElsewhere(b, l, PostedBillStatuses))
    BY <1>1, <1>12 DEF QuantityVariance
  <2> QED
    BY <1>1, <1>6, <1>8, <1>9, <2>1
<1> QED
  BY <1>10, <1>11, <1>12

LEMMA BilledStep == BilledInv /\ [Next]_vars => BilledInv'
<1> SUFFICES ASSUME BilledInv, [Next]_vars PROVE BilledInv'
  OBVIOUS
<1>0. SafeInv /\ TypeOK /\ BilledWithinReceived /\ SafeInv' /\ TypeOK'
  BY SafeStep DEF BilledInv, SafeInv
<1> SUFFICES BilledWithinReceived'
  BY <1>0 DEF BilledInv
<1>1. \A l \in OrderLines : received[l] \in Int /\ received[l] <= received[l]
  BY <1>0 DEF TypeOK
<1>2. ASSUME UNCHANGED <<row, doc, raced>>, \A l \in OrderLines : received[l] <= received'[l]
      PROVE  BilledWithinReceived'
  BY <1>0, <1>2, ClaimsKeep DEF Posted
<1>3. CASE UNCHANGED vars
  BY <1>1, <1>2, <1>3 DEF vars
<1>4. ASSUME NEW l \in OrderLines, Receive(l) PROVE BilledWithinReceived'
  <2>1. \A k \in OrderLines : received[k] <= received'[k]
    <3>1. received' = [received EXCEPT ![l] = received[l] + 1]
      BY <1>4 DEF Receive
    <3>2. received \in [OrderLines -> Int] /\ \A m \in Int : m <= m + 1
      BY <1>0 DEF TypeOK
    <3> QED
      BY <1>1, <3>1, <3>2
  <2> QED
    BY <1>2, <1>4, <2>1 DEF Receive
<1>5. ASSUME NEW b \in Bills, NEW d \in Documents, Create(b, d) PROVE BilledWithinReceived'
  <2>1. /\ row[b].status = "ABSENT" /\ doc' = [doc EXCEPT ![b] = d] /\ UNCHANGED <<raced, received>>
    BY <1>5 DEF Create
  <2>2. row'[b].status = "DRAFT" /\ \A o \in Bills \ {b} : row'[o] = row[o]
    BY <1>0, <1>5, CreateType
  <2>3. \A o \in Bills : (Posted(o)' <=> Posted(o)) /\ (Posted(o) => doc'[o] = doc[o])
    BY <1>0, <2>1, <2>2 DEF TypeOK, Posted, PostedBillStatuses
  <2> QED
    BY <1>0, <1>1, <2>1, <2>3, ClaimsKeep
<1>6. ASSUME NEW b \in Bills, NEW may \in BOOLEAN, Approve(b, may) PROVE BilledWithinReceived'
  BY <1>0, <1>6, ApproveWithin
<1>7. ASSUME NEW e \in Editors, NEW b \in Bills, NEW to \in Statuses, Load(e, b, to)
      PROVE  BilledWithinReceived'
  BY <1>1, <1>2, <1>7 DEF Load
<1>8. ASSUME NEW e \in Editors, Compare(e) PROVE BilledWithinReceived'
  BY <1>1, <1>2, <1>8 DEF Compare
<1>9. ASSUME NEW e \in Editors, Save(e) PROVE BilledWithinReceived'
  <2>1. /\ edit[e].at = "compared" /\ UNCHANGED <<doc, received>>
    BY <1>9 DEF Save
  <2>2. /\ edit[e] # NoEdit /\ edit[e].bill \in Bills
        /\ edit[e].base \in Row /\ edit[e].copy \in Row /\ edit[e].dirty \in SUBSET DOMAIN NoRow
    BY <1>0, <2>1, EditType
  <2>3. PICK b \in Bills : b = edit[e].bill
    BY <2>2
  <2>4. PICK new \in Row : /\ new = Saved(edit[e].copy, row[b], edit[e].dirty)
                           /\ new.status \in {edit[e].copy.status, row[b].status}
    <3>1. row[b] \in Row
      BY <1>0 DEF TypeOK
    <3> QED
      BY <2>2, <3>1, SavedRow
  <2>5. /\ \A o \in Bills : raced[o] => raced'[o]
        /\ \A o \in Bills \ {b} : row'[o] = row[o] /\ raced'[o] = raced[o]
        /\ \/ row'[b] = row[b] /\ raced'[b] = raced[b]
           \/ row'[b] = new /\ (raced'[b] \/ row[b] \in {edit[e].base, new})
    BY <1>0, <1>9, <2>3, <2>4, SaveType
  <2>6. edit[e].base.status \in Unposted /\ edit[e].copy.status \in Unposted
    BY <1>0, <2>2 DEF SafeInv, EditInv
  <2>7. ~raced'[b] => (Posted(b)' <=> Posted(b))
    BY <2>4, <2>5, <2>6 DEF Posted, Unposted, PostedBillStatuses
  <2>8. \A o \in Bills : ~raced'[o] => ~raced[o] /\ (Posted(o)' <=> Posted(o)) /\ doc'[o] = doc[o]
    BY <2>1, <2>5, <2>7 DEF Posted
  <2> QED
    BY <1>0, <1>1, <2>1, <2>8, ClaimsKeep
<1>10. ASSUME NEW p \in Payments, NEW b \in Bills, NEW amount \in 0..MaxAmount,
              RecordPayment(p, b, amount)
       PROVE  BilledWithinReceived'
  <2>1. /\ UNCHANGED <<doc, raced, received>>
        /\ row[b].status \in {"APPROVED", "PARTIALLY_PAID"}
    BY <1>10 DEF RecordPayment
  <2>2. /\ row'[b].status \in {"PARTIALLY_PAID", "PAID"}
        /\ \A o \in Bills \ {b} : row'[o] = row[o]
    BY <1>0, <1>10, RecordType
  <2>3. \A o \in Bills : Posted(o)' <=> Posted(o)
    BY <2>1, <2>2 DEF Posted, PostedBillStatuses
  <2> QED
    BY <1>0, <1>1, <2>1, <2>3, ClaimsKeep
<1>11. ASSUME NEW p \in Payments, ReversePayment(p) PROVE BilledWithinReceived'
  <2>1. UNCHANGED <<doc, raced, received>> /\ payment[p] # NoPayment
    BY <1>11 DEF ReversePayment
  <2>2. PICK b \in Bills : b = payment[p].bill
    BY <1>0, <2>1, PaymentType
  <2>3. /\ row'[b].status \in {"APPROVED", "PARTIALLY_PAID"}
        /\ \A o \in Bills \ {b} : row'[o] = row[o]
    BY <1>0, <1>11, <2>2, ReverseType
  <2>4. ~raced[b] => Posted(b)
    BY <1>0, <2>1, <2>2 DEF SafeInv, PaymentInv
  <2>5. \A o \in Bills : ~raced'[o] => (Posted(o)' <=> Posted(o))
    BY <2>1, <2>3, <2>4 DEF Posted, PostedBillStatuses
  <2> QED
    BY <1>0, <1>1, <2>1, <2>5, ClaimsKeep
<1> QED
  BY <1>3, <1>4, <1>5, <1>6, <1>7, <1>8, <1>9, <1>10, <1>11 DEF Next

LEMMA BilledInit == Init => BilledInv
<1> SUFFICES ASSUME Init PROVE BilledInv
  OBVIOUS
<1>1. SafeInv
  BY SafeInit
<1>2. {p \in Bills : Posted(p)} = {}
  BY DEF Init, Posted, PostedBillStatuses, NoRow
<1>3. \A f : DOMAIN f = {} => SumFunction(f) = 0
  BY SumEmpty
<1>4. ASSUME NEW l \in OrderLines PROVE ClaimedOn(l) <= received[l]
  <2>1. DOMAIN [b \in {p \in Bills : Posted(p)} |-> QtyOn(doc[b], l)] = {}
    BY <1>2
  <2>2. ClaimedOn(l) = 0
    BY <1>3, <2>1 DEF ClaimedOn
  <2> QED
    BY <2>2 DEF Init
<1>5. BilledWithinReceived
  BY <1>4 DEF BilledWithinReceived, ClaimedOn
<1> QED
  BY <1>1, <1>5 DEF BilledInv

(* The bills that have posted do not claim more of an order line than has     *)
(* arrived, however drafts, approvals and payments interleave, as long as no  *)
(* invoice lists an order line twice and no save ran over an approval.        *)
THEOREM BilledIsReceived == Spec => []BilledWithinReceived
<1>1. BilledInv => BilledWithinReceived
  BY DEF BilledInv
<1>2. Spec => []BilledInv
  BY BilledInit, BilledStep, PTL DEF Spec
<1> QED
  BY <1>1, <1>2, PTL
================================================================================
