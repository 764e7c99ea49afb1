------------------------------ MODULE SalesOrders ------------------------------
(***************************************************************************)
(* One sales order from the approved quote on: its status, the stages it   *)
(* is billed in, the delivery notes that ship it, the invoices raised for  *)
(* stages or deliveries, and the work orders planned for its lines.        *)
(*                                                                         *)
(* Raising a stage invoice, closing, cancelling, drafting and dispatching  *)
(* a note lock the order first and are one action.  Invoicing a delivery   *)
(* locks it too, but reads the earlier invoices before it counts the       *)
(* deliveries still to invoice, and voiding an invoice takes no lock of    *)
(* the order: two actions.  Starting production takes several.             *)
(***************************************************************************)
EXTENDS Integers, Sequences, FiniteSets, Functions

CONSTANTS
    Items,        \* lines of the order
    ItemQty,      \* the quantity a line orders
    Price,        \* the price of a unit of a line
    Templated,    \* the lines there is a routing for
    Totals,       \* totals the quote may have
    Schedules,    \* billing schedules the quote may have
    Notes,        \* delivery notes
    Requests,     \* requests that may be planning work at once
    MaxInvoices,  \* bound: invoices ever raised for the order
    MaxQty        \* bound: units a note carries of a line

(* What a quote may be saved with: stages that come to the whole, and        *)
(* billing by delivery only on its own.  A percent has no decimals here.     *)
ValidSchedule(schedule) ==
    /\ schedule \in Seq([trigger : {"ON_APPROVAL", "MANUAL", "ON_DELIVERY"}, percent : 1..100])
    /\ schedule # <<>> /\ Len(schedule) <= 12
    /\ SumFunction([s \in DOMAIN schedule |-> schedule[s].percent]) = 100
    /\ Len(schedule) > 1 =>
          \A s \in DOMAIN schedule : schedule[s].trigger # "ON_DELIVERY"

ASSUME SalesAssumption ==
    /\ IsFiniteSet(Items) /\ IsFiniteSet(Notes)
    /\ \A schedule \in Schedules : ValidSchedule(schedule)
    /\ ItemQty \in [Items -> Nat \ {0}] /\ Price \in [Items -> Nat \ {0}]
    /\ Templated \subseteq Items
    /\ Totals \subseteq Nat \ {0}
    /\ MaxInvoices \in Nat /\ MaxQty \in Nat

VARIABLES
    terms,      \* the total and the schedule of the quote
    order,      \* status of the order, none before it exists
    asked,      \* stages whose predecessors were found invoiced by a request
    stage,      \* per stage, the invoice it names and whether it is stamped
    note,       \* the row of a delivery note
    fulfilled,  \* units of a line that have shipped
    bill,       \* the invoices, by number
    billing,    \* the delivery being invoiced, under the lock of the order
    work,       \* the last work order of a line
    planner     \* what a planning request is doing

billingVars == <<asked, stage, bill, billing>>
deliveryVars == <<note, fulfilled>>
productionVars == <<work, planner>>
salesVars == <<terms, order, billingVars, deliveryVars, productionVars>>

--------------------------------------------------------------------------------

BillNos == 1..MaxInvoices
StagesOf == 1..Len(terms.schedule)
PerDelivery == Len(terms.schedule) = 1 /\ terms.schedule[1].trigger = "ON_DELIVERY"

NoNote == [status |-> "none"]
Quantities == [Items -> Nat]
(* What a note may carry: some of some lines. *)
Loads == {qty \in [Items -> 0..MaxQty] : \E l \in Items : qty[l] > 0}
Note == [status : {"DRAFT", "DISPATCHED", "CANCELLED"}, qty : Quantities]

NoBill == [state |-> "none"]
Bill == [state : {"live", "void"}, amount : Int, stage : Nat, note : Notes \cup {"none"}]
LiveBills == {n \in BillNos : bill[n].state = "live"}
AmountOf(n) == bill[n].amount
Billed == SumFunction([n \in LiveBills |-> AmountOf(n)])

NoBilling == [at |-> "none"]
NotPlanning == [at |-> "idle"]
Planner == [at : {"plan", "create", "failed", "crashed"}, claims : BOOLEAN,
            todo : SUBSET Items, made : BOOLEAN]

SalesInit ==
    /\ terms \in [total : Totals, schedule : Schedules]
    /\ order = "none"
    /\ asked = {}
    /\ stage = [s \in StagesOf |-> [invoice |-> 0, stamped |-> FALSE]]
    /\ note = [d \in Notes |-> NoNote]
    /\ fulfilled = [l \in Items |-> 0]
    /\ bill = [n \in BillNos |-> NoBill]
    /\ billing = NoBilling
    /\ work = [l \in Items |-> "none"]
    /\ planner = [p \in Requests |-> NotPlanning]

OrderIsFree == billing = NoBilling

--------------------------------------------------------------------------------
(* What a stage bills: its rounded share, and the last one the remainder. *)

Share(s) == (2 * terms.total * terms.schedule[s].percent + 100) \div 200
(* Variant: every stage its rounded share. *)
EachRounded(s) == Share(s)
StageAmount(s) ==
    IF s = Len(terms.schedule)
    THEN terms.total - SumFunction([t \in 1..(s - 1) |-> Share(t)])
    ELSE Share(s)

StageBill(s) == [state |-> "live", amount |-> StageAmount(s), stage |-> s, note |-> "none"]

(* The next invoice number, from the tenant's sequence. *)
NextNumber == 1 + Cardinality({n \in BillNos : bill[n] # NoBill})

(* The order of an approved quote and the invoices due on approval.  A      *)
(* second approval finds the order and changes nothing.                     *)
ProvisionOrder ==
    LET due == {s \in StagesOf : terms.schedule[s].trigger = "ON_APPROVAL"}
        Nth(s) == Cardinality({t \in due : t <= s})
    IN  /\ order = "none"
        /\ Cardinality(due) <= MaxInvoices
        /\ order' = "OPEN"
        /\ bill' = [n \in BillNos |->
                      IF \E s \in due : Nth(s) = n
                      THEN StageBill(CHOOSE s \in due : Nth(s) = n) ELSE NoBill]
        /\ stage' = [s \in StagesOf |-> IF s \in due THEN [invoice |-> Nth(s), stamped |-> TRUE]
                                        ELSE stage[s]]
        /\ UNCHANGED <<terms, asked, billing, deliveryVars, productionVars>>

(* Variant: off by one. *)
AskForNextStage(s) ==
    /\ order # "none" /\ s \in StagesOf \ asked
    /\ \A t \in 1..(s - 1) : stage[t].invoice # 0
    /\ asked' = asked \cup {s + 1}
    /\ UNCHANGED <<terms, order, stage, bill, billing, deliveryVars, productionVars>>

(* Stages are billed in order, as the request finds them without a lock. *)
AskForStage(s) ==
    /\ order # "none" /\ s \in StagesOf \ asked
    /\ \A t \in 1..(s - 1) : stage[t].invoice # 0
    /\ asked' = asked \cup {s}
    /\ UNCHANGED <<terms, order, stage, bill, billing, deliveryVars, productionVars>>

(* A stage that has its invoice returns it. *)
RaiseStageInvoice(s) ==
    /\ s \in asked /\ OrderIsFree
    /\ asked' = asked \ {s}
    /\ IF /\ stage[s].invoice = 0
          /\ order # "CANCELLED" /\ terms.schedule[s].trigger # "ON_DELIVERY"
       THEN /\ NextNumber \in BillNos
            /\ bill' = [bill EXCEPT ![NextNumber] = StageBill(s)]
            /\ stage' = [stage EXCEPT ![s] = [invoice |-> NextNumber, stamped |-> TRUE]]
       ELSE UNCHANGED <<bill, stage>>
    /\ UNCHANGED <<terms, order, billing, deliveryVars, productionVars>>

(* What the void does to the order (the rest is in Receivables): the stage *)
(* that names this invoice is freed, the delivery note keeps its link.     *)
VoidOrderInvoice(n) ==
    LET s == bill[n].stage IN
    /\ bill[n].state = "live"
    /\ bill' = [bill EXCEPT ![n].state = "void", ![n].stage = 0]
    /\ stage' = IF s # 0 /\ stage[s].invoice = n
                THEN [stage EXCEPT ![s] = [invoice |-> 0, stamped |-> FALSE]]
                ELSE stage
    /\ UNCHANGED <<terms, order, asked, billing, deliveryVars, productionVars>>

--------------------------------------------------------------------------------
(* Delivery notes. *)

NotesIn(status) == {d \in Notes : note[d].status = status}
InNotes(l, status) == SumFunction([d \in NotesIn(status) |-> note[d].qty[l]])

Shippable == order \in {"OPEN", "IN_PRODUCTION", "FULFILLED"}

CreateNote(d, qty) ==
    /\ OrderIsFree /\ Shippable
    /\ note[d] = NoNote
    /\ \A l \in Items : qty[l] <= ItemQty[l] - fulfilled[l] - InNotes(l, "DRAFT")
    /\ note' = [note EXCEPT ![d] = [status |-> "DRAFT", qty |-> qty]]
    /\ UNCHANGED <<terms, order, billingVars, fulfilled, productionVars>>

Shipped(d) == [l \in Items |-> fulfilled[l] + note[d].qty[l]]
ShipsAll(d) == \A l \in Items : Shipped(d)[l] >= ItemQty[l]

(* Variant: a cancelled order's draft is still dispatched. *)
DispatchOfCancelled(d) ==
    /\ OrderIsFree /\ note[d].status = "DRAFT"
    /\ \A l \in Items : Shipped(d)[l] <= ItemQty[l]
    /\ note' = [note EXCEPT ![d].status = "DISPATCHED"]
    /\ fulfilled' = Shipped(d)
    /\ order' = IF ShipsAll(d) /\ order \in {"OPEN", "IN_PRODUCTION"} THEN "FULFILLED" ELSE order
    /\ UNCHANGED <<terms, billingVars, productionVars>>

(* Ships it: what is left is looked at again, under the locks. *)
Dispatch(d) ==
    /\ OrderIsFree /\ Shippable
    /\ note[d].status = "DRAFT"
    /\ \A l \in Items : Shipped(d)[l] <= ItemQty[l]
    /\ note' = [note EXCEPT ![d].status = "DISPATCHED"]
    /\ fulfilled' = Shipped(d)
    /\ order' = IF ShipsAll(d) /\ order \in {"OPEN", "IN_PRODUCTION"} THEN "FULFILLED" ELSE order
    /\ UNCHANGED <<terms, billingVars, productionVars>>

(* Locks the note only. *)
CancelNote(d) ==
    /\ note[d].status = "DRAFT"
    /\ note' = [note EXCEPT ![d].status = "CANCELLED"]
    /\ UNCHANGED <<terms, order, billingVars, fulfilled, productionVars>>

Invoiced(d) == \E n \in LiveBills : bill[n].note = d

(* A dispatched note with no invoice but voided ones: the earlier invoices *)
(* of the order are read.                                                  *)
StartInvoicing(d) ==
    /\ OrderIsFree /\ PerDelivery
    /\ note[d].status = "DISPATCHED" /\ ~Invoiced(d)
    /\ billing' = [at |-> "read", note |-> d, earlier |-> Billed]
    /\ UNCHANGED <<terms, order, asked, stage, bill, deliveryVars, productionVars>>

CarriedBy(d) == SumFunction([l \in Items |-> note[d].qty[l] * Price[l]])
EverythingShipped == \A l \in Items : fulfilled[l] >= ItemQty[l]

(* The delivery that completes the order takes what is left of its total,   *)
(* and so does one that would go past it.                                   *)
Remainder == terms.total - billing.earlier
Completes(d) == EverythingShipped /\ \A e \in NotesIn("DISPATCHED") \ {d} : Invoiced(e)
DeliveryAmount(d) ==
    IF Completes(d) \/ CarriedBy(d) > Remainder THEN Remainder ELSE CarriedBy(d)

(* A voided invoice of the note still has its number in the unique index:   *)
(* the insert fails.                                                        *)
Indexed(d) == \E n \in BillNos : bill[n] # NoBill /\ bill[n].note = d

InvoiceDelivery ==
    LET d == billing.note IN
    /\ billing # NoBilling
    /\ DeliveryAmount(d) > 0 /\ ~Indexed(d)
    /\ NextNumber \in BillNos
    /\ bill' = [bill EXCEPT ![NextNumber] =
                  [state |-> "live", amount |-> DeliveryAmount(d), stage |-> 0, note |-> d]]
    /\ stage' = IF Completes(d) THEN [stage EXCEPT ![1].stamped = TRUE] ELSE stage
    /\ billing' = NoBilling
    /\ UNCHANGED <<terms, order, asked, deliveryVars, productionVars>>

(* Already invoiced in full, refused by the index, or the request fails. *)
InvoicingFails ==
    /\ billing # NoBilling
    /\ billing' = NoBilling
    /\ UNCHANGED <<terms, order, asked, stage, bill, deliveryVars, productionVars>>

--------------------------------------------------------------------------------
(* The status of the order. *)

NextStatus == [none          |-> {},
               OPEN          |-> {"IN_PRODUCTION", "FULFILLED"},
               IN_PRODUCTION |-> {"FULFILLED"},
               FULFILLED     |-> {"CLOSED"},
               CLOSED        |-> {},
               CANCELLED     |-> {}]
CanBecome(status) == status \in NextStatus[order]

(* By hand, for an order that does not ship on delivery notes. *)
MarkFulfilled ==
    /\ OrderIsFree /\ CanBecome("FULFILLED")
    /\ NotesIn("DRAFT") \cup NotesIn("DISPATCHED") = {}
    /\ order' = "FULFILLED"
    /\ fulfilled' = ItemQty
    /\ UNCHANGED <<terms, billingVars, note, productionVars>>

(* Variant: closed with stages still to bill. *)
CloseUnbilled ==
    /\ OrderIsFree /\ CanBecome("CLOSED")
    /\ order' = "CLOSED"
    /\ UNCHANGED <<terms, billingVars, deliveryVars, productionVars>>

(* Every stage has its invoice, or the deliveries completed the order. *)
Close ==
    /\ OrderIsFree /\ CanBecome("CLOSED")
    /\ \A s \in StagesOf : \/ stage[s].invoice # 0
                           \/ terms.schedule[s].trigger = "ON_DELIVERY" /\ stage[s].stamped
    /\ order' = "CLOSED"
    /\ UNCHANGED <<terms, billingVars, deliveryVars, productionVars>>

Cancel ==
    /\ OrderIsFree /\ order \notin {"none", "CANCELLED"}
    /\ LiveBills = {} /\ NotesIn("DISPATCHED") = {}
    /\ order' = "CANCELLED"
    /\ UNCHANGED <<terms, billingVars, deliveryVars, productionVars>>

--------------------------------------------------------------------------------
(* Production. *)

Begin(p, claims) ==
    planner' = [planner EXCEPT ![p] = [at |-> "plan", claims |-> claims, todo |-> Items, made |-> FALSE]]

(* The status is claimed first: only one of two racing requests can. *)
StartProduction(p) ==
    /\ OrderIsFree /\ planner[p] = NotPlanning
    /\ CanBecome("IN_PRODUCTION")
    /\ order' = "IN_PRODUCTION"
    /\ Begin(p, TRUE)
    /\ UNCHANGED <<terms, billingVars, deliveryVars, work>>

(* Work orders can be planned without a move of the order, too. *)
PlanWork(p) ==
    /\ order # "none" /\ planner[p] = NotPlanning
    /\ Begin(p, FALSE)
    /\ UNCHANGED <<terms, order, billingVars, deliveryVars, work>>

(* The status is read without a lock. *)
ReadOrder(p) ==
    /\ planner[p].at = "plan"
    /\ planner' = [planner EXCEPT ![p].at =
                     IF order \in {"CANCELLED", "CLOSED"} THEN "failed" ELSE "create"]
    /\ UNCHANGED <<terms, order, billingVars, deliveryVars, work>>

(* One transaction per line; a line that has a live work order or no        *)
(* routing, or cannot be costed, is skipped.                                *)
CreateWorkOrder(p, l) ==
    /\ planner[p].at = "create" /\ l \in planner[p].todo
    /\ l \in Templated /\ work[l] # "live"
    /\ work' = [work EXCEPT ![l] = "live"]
    /\ planner' = [planner EXCEPT ![p].todo = @ \ {l}, ![p].made = TRUE]
    /\ UNCHANGED <<terms, order, billingVars, deliveryVars>>

SkipLine(p, l) ==
    /\ planner[p].at = "create" /\ l \in planner[p].todo
    /\ planner' = [planner EXCEPT ![p].todo = @ \ {l}]
    /\ UNCHANGED <<terms, order, billingVars, deliveryVars, work>>

PlanningFails(p) ==
    /\ planner[p].at \in {"plan", "create"}
    /\ planner' = [planner EXCEPT ![p].at = "failed"]
    /\ UNCHANGED <<terms, order, billingVars, deliveryVars, work>>

(* Variant: nothing to make is a success. *)
FinishPlanningEmpty(p) ==
    /\ planner[p].at = "create" /\ planner[p].todo = {}
    /\ planner' = [planner EXCEPT ![p] = NotPlanning]
    /\ UNCHANGED <<terms, order, billingVars, deliveryVars, work>>

(* The move is refused when there is nothing to make. *)
FinishPlanning(p) ==
    /\ planner[p].at = "create" /\ planner[p].todo = {}
    /\ planner' = [planner EXCEPT ![p] =
                     IF planner[p].made \/ \E l \in Items : work[l] = "live"
                     THEN NotPlanning ELSE [@ EXCEPT !.at = "failed"]]
    /\ UNCHANGED <<terms, order, billingVars, deliveryVars, work>>

(* Variant: the order is put back whatever became of it. *)
PutBackAnyway(p) ==
    /\ OrderIsFree /\ planner[p].at = "failed"
    /\ order' = IF planner[p].claims THEN "OPEN" ELSE order
    /\ planner' = [planner EXCEPT ![p] = NotPlanning]
    /\ UNCHANGED <<terms, billingVars, deliveryVars, work>>

(* Only its own move is put back, and only if the order is still there. *)
PutBack(p) ==
    /\ OrderIsFree /\ planner[p].at = "failed"
    /\ order' = IF planner[p].claims /\ order = "IN_PRODUCTION" THEN "OPEN" ELSE order
    /\ planner' = [planner EXCEPT ![p] = NotPlanning]
    /\ UNCHANGED <<terms, billingVars, deliveryVars, work>>

PlannerCrashes(p) ==
    /\ planner[p].at \in {"plan", "create", "failed"}
    /\ planner' = [planner EXCEPT ![p].at = "crashed"]
    /\ UNCHANGED <<terms, order, billingVars, deliveryVars, work>>

CancelWorkOrder(l) ==
    /\ work[l] = "live"
    /\ work' = [work EXCEPT ![l] = "cancelled"]
    /\ UNCHANGED <<terms, order, billingVars, deliveryVars, planner>>

--------------------------------------------------------------------------------

OrderNext == ProvisionOrder \/ MarkFulfilled \/ Close \/ Cancel

BillingNext ==
    \/ \E s \in StagesOf : AskForStage(s) \/ RaiseStageInvoice(s)
    \/ \E n \in BillNos : VoidOrderInvoice(n)
    \/ \E d \in Notes : StartInvoicing(d)
    \/ InvoiceDelivery \/ InvoicingFails

DeliveryNext ==
    \E d \in Notes :
        \/ Dispatch(d) \/ CancelNote(d)
        \/ \E qty \in Loads : CreateNote(d, qty)

ProductionNext ==
    \/ \E p \in Requests :
        \/ StartProduction(p) \/ PlanWork(p) \/ ReadOrder(p) \/ PlanningFails(p)
        \/ FinishPlanning(p) \/ PutBack(p) \/ PlannerCrashes(p)
        \/ \E l \in Items : CreateWorkOrder(p, l) \/ SkipLine(p, l)
    \/ \E l \in Items : CancelWorkOrder(l)

SalesNext == OrderNext \/ BillingNext \/ DeliveryNext \/ ProductionNext

SalesSpec == SalesInit /\ [][SalesNext]_salesVars

--------------------------------------------------------------------------------
(* Properties *)

(* Types of the rows and of what the requests hold. *)
SalesTypeOK ==
    /\ order \in DOMAIN NextStatus
    /\ asked \subseteq StagesOf
    /\ stage \in [StagesOf -> [invoice : {0} \cup BillNos, stamped : BOOLEAN]]
    /\ note \in [Notes -> {NoNote} \cup Note]
    /\ fulfilled \in Quantities
    /\ bill \in [BillNos -> {NoBill} \cup Bill]
    /\ billing \in {NoBilling} \cup [at : {"read"}, note : Notes, earlier : Int]
    /\ work \in [Items -> {"none", "live", "cancelled"}]
    /\ planner \in [Requests -> {NotPlanning} \cup Planner]

(* The customer is billed the total they accepted, however the invoices are *)
(* raised, voided and raised again: never more, each stage and each         *)
(* delivery at most once, and, when everything has its invoice, to the last *)
(* cent.                                                                    *)
BilledExactly ==
    /\ Billed <= terms.total
    /\ \A m, n \in LiveBills :
           m # n => bill[m].note # bill[n].note \/ bill[m].stage # bill[n].stage
    /\ order # "none" =>
           \/ \E s \in StagesOf : stage[s].invoice \notin LiveBills
           \/ Billed = terms.total
    /\ PerDelivery /\ EverythingShipped /\ NotesIn("DISPATCHED") # {} =>
           \/ \E d \in NotesIn("DISPATCHED") : ~Invoiced(d)
           \/ Billed = terms.total

(* A cancelled order has nothing billed and nothing shipped, whatever was   *)
(* under way when it was cancelled.                                         *)
CancelledHasNothing ==
    order = "CANCELLED" => LiveBills = {} /\ NotesIn("DISPATCHED") = {}

(* What the lines say has shipped is what the dispatched notes carried, or  *)
(* the whole of an order marked by hand, and never more than was ordered;   *)
(* the order is fulfilled when, and only when, all of it has shipped, also  *)
(* when planning that failed puts the status back.                          *)
ShippedTellsNotes ==
    /\ \/ \A l \in Items : fulfilled[l] = InNotes(l, "DISPATCHED")
       \/ fulfilled = ItemQty /\ NotesIn("DISPATCHED") = {}
    /\ \A l \in Items : fulfilled[l] <= ItemQty[l]
    /\ order \in {"FULFILLED", "CLOSED"} => EverythingShipped
    /\ EverythingShipped => order \notin {"OPEN", "IN_PRODUCTION"}

(* IN_PRODUCTION claims nothing untrue: a work order has been planned, or   *)
(* the request that claimed the status is still planning, unless that       *)
(* request crashed before it could put the status back.                     *)
ProductionIsPlanned ==
    order = "IN_PRODUCTION" =>
        \/ \E l \in Items : work[l] # "none"
        \/ \E p \in Requests : planner[p] # NotPlanning /\ planner[p].claims
================================================================================
