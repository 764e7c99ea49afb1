------------------------------ MODULE SalesProofs ------------------------------
(* Theorems about sales: the order, its notes, invoices and production, and    *)
(* the contract they keep with the customer, for any number of requests and    *)
(* any quantities; the receivables, for any number of invoices and credit      *)
(* notes and any amounts.                                                      *)
EXTENDS MCSalesOrders, Receivables, SumTheorems

(* The order *)

(* What the order's invariants need of the types.                              *)
RowsInv ==
    /\ note \in [Notes -> {NoNote} \cup Note]
    /\ DOMAIN bill = BillNos
    /\ work \in [Items -> {"none", "live", "cancelled"}]
    /\ planner \in [Requests -> {NotPlanning} \cup Planner]

(* A delivery is only invoiced once it is out, which keeps the order from      *)
(* being cancelled meanwhile.                                                  *)
BillingInv == billing # NoBilling => billing.note \in NotesIn("DISPATCHED")
(* What a request says it made was made. *)
PlannerInv ==
    \A p \in Requests :
        planner[p] # NotPlanning /\ planner[p].made => \E l \in Items : work[l] # "none"

OrderInv == RowsInv /\ BillingInv /\ PlannerInv /\ CancelledHasNothing /\ ProductionIsPlanned

--------------------------------------------------------------------------------

LEMMA SalesKinds ==
  /\ NoNote \notin Note /\ NoNote.status = "none"
  /\ \A x \in Note : x.status \in {"DRAFT", "DISPATCHED", "CANCELLED"} /\ x.qty \in Quantities
  /\ NotPlanning \notin Planner /\ NotPlanning.at = "idle"
  /\ \A x \in Planner : /\ x.at \in {"plan", "create", "failed", "crashed"}
                        /\ x.claims \in BOOLEAN /\ x.todo \subseteq Items /\ x.made \in BOOLEAN
  /\ NoBill.state = "none"
BY DEF NoNote, Note, NotPlanning, Planner, NoBill

(* Bills, notes and the delivery in hand. *)
LEMMA MoneyKept ==
  ASSUME OrderInv, UNCHANGED <<bill, billing, note>>, order' = "CANCELLED" => order = "CANCELLED"
  PROVE  (DOMAIN bill = BillNos)' /\ BillingInv' /\ CancelledHasNothing'
BY DEF OrderInv, RowsInv, BillingInv, CancelledHasNothing, LiveBills, NotesIn, BillNos

(* Production. *)
LEMMA WorkKept ==
  ASSUME OrderInv, UNCHANGED <<work, planner>>, order' = "IN_PRODUCTION" => order = "IN_PRODUCTION"
  PROVE  PlannerInv' /\ ProductionIsPlanned'
BY DEF OrderInv, PlannerInv, ProductionIsPlanned

LEMMA StatusSteps == OrderInv /\ OrderNext => OrderInv'
<1> SUFFICES ASSUME OrderInv, OrderNext PROVE OrderInv'
  OBVIOUS
<1>1. UNCHANGED <<note, work, planner>>
  BY DEF OrderNext, ProvisionOrder, MarkFulfilled, Close, Cancel, deliveryVars, productionVars,
         billingVars
<1>2. order' = "IN_PRODUCTION" => order = "IN_PRODUCTION"
  BY DEF OrderNext, ProvisionOrder, MarkFulfilled, Close, Cancel
<1>3. PlannerInv' /\ ProductionIsPlanned'
  BY <1>1, <1>2, WorkKept
<1>4. CASE ProvisionOrder
  <2>1. order' = "OPEN" /\ billing' = billing /\ DOMAIN bill' = BillNos
    BY <1>4 DEF ProvisionOrder
  <2> QED
    BY <1>1, <1>3, <2>1
       DEF OrderInv, RowsInv, BillingInv, CancelledHasNothing, BillNos, NotesIn
<1>5. CASE MarkFulfilled \/ Close
  <2>1. UNCHANGED <<bill, billing>> /\ order' # "CANCELLED"
    BY <1>5 DEF MarkFulfilled, Close, billingVars
  <2> QED
    BY <1>1, <1>3, <2>1, MoneyKept DEF OrderInv, RowsInv, BillNos
<1>6. CASE Cancel
  <2>1. /\ UNCHANGED <<bill, billing>> /\ order' = "CANCELLED"
        /\ LiveBills = {} /\ NotesIn("DISPATCHED") = {}
    BY <1>6 DEF Cancel, billingVars
  <2>2. LiveBills' = {} /\ NotesIn("DISPATCHED")' = {}
    BY <1>1, <2>1 DEF LiveBills, NotesIn, BillNos
  <2> QED
    BY <1>1, <1>3, <2>1, <2>2 DEF OrderInv, RowsInv, BillingInv, CancelledHasNothing, BillNos, NotesIn
<1> QED
  BY <1>4, <1>5, <1>6 DEF OrderNext

LEMMA BillingSteps == OrderInv /\ BillingNext => OrderInv'
<1> SUFFICES ASSUME OrderInv, BillingNext PROVE OrderInv'
  OBVIOUS
<1>1. UNCHANGED <<order, note, work, planner>>
  BY DEF BillingNext, AskForStage, RaiseStageInvoice, VoidOrderInvoice, StartInvoicing,
         InvoiceDelivery, InvoicingFails, deliveryVars, productionVars
<1>2. PlannerInv' /\ ProductionIsPlanned' /\ NotesIn("DISPATCHED")' = NotesIn("DISPATCHED")
  BY <1>1, WorkKept DEF NotesIn
<1>3. SUFFICES DOMAIN bill' = BillNos /\ BillingInv' /\ (order = "CANCELLED" => LiveBills' = {})
  BY <1>1, <1>2 DEF OrderInv, RowsInv, CancelledHasNothing, BillNos
<1>4. ASSUME NEW s \in StagesOf, AskForStage(s)
      PROVE  DOMAIN bill' = BillNos /\ BillingInv' /\ (order = "CANCELLED" => LiveBills' = {})
  BY <1>1, <1>4, MoneyKept DEF AskForStage, CancelledHasNothing, BillNos
<1>5. ASSUME NEW s \in StagesOf, RaiseStageInvoice(s)
      PROVE  DOMAIN bill' = BillNos /\ BillingInv' /\ (order = "CANCELLED" => LiveBills' = {})
  <2>1. CASE UNCHANGED bill
    BY <1>1, <1>5, <2>1, MoneyKept DEF RaiseStageInvoice, CancelledHasNothing, BillNos
  <2>2. CASE order # "CANCELLED" /\ bill' = [bill EXCEPT ![NextNumber] = StageBill(s)]
    BY <1>2, <1>5, <2>2 DEF RaiseStageInvoice, OrderInv, RowsInv, BillingInv, BillNos
  <2> QED
    BY <1>5, <2>1, <2>2 DEF RaiseStageInvoice
<1>6. ASSUME NEW n \in BillNos, VoidOrderInvoice(n)
      PROVE  DOMAIN bill' = BillNos /\ BillingInv' /\ (order = "CANCELLED" => LiveBills' = {})
  <2>1. bill[n].state = "live" /\ DOMAIN bill' = DOMAIN bill /\ billing' = billing
    BY <1>6 DEF VoidOrderInvoice
  <2>2. n \in LiveBills
    BY <2>1 DEF LiveBills
  <2>3. order # "CANCELLED"
    BY <2>2 DEF OrderInv, CancelledHasNothing
  <2> QED
    BY <1>2, <2>1, <2>3 DEF OrderInv, RowsInv, BillingInv
<1>7. ASSUME NEW d \in Notes, StartInvoicing(d)
      PROVE  DOMAIN bill' = BillNos /\ BillingInv' /\ (order = "CANCELLED" => LiveBills' = {})
  <2>1. billing'.note \in NotesIn("DISPATCHED") /\ bill' = bill
    BY <1>7 DEF StartInvoicing, NotesIn
  <2> QED
    BY <1>2, <2>1 DEF OrderInv, RowsInv, BillingInv, CancelledHasNothing, LiveBills
<1>8. CASE InvoiceDelivery
  <2>1. billing # NoBilling /\ billing' = NoBilling /\ DOMAIN bill' = DOMAIN bill
    BY <1>8 DEF InvoiceDelivery
  <2>2. order # "CANCELLED"
    BY <2>1 DEF OrderInv, BillingInv, CancelledHasNothing
  <2> QED
    BY <2>1, <2>2 DEF OrderInv, RowsInv, BillingInv
<1>9. CASE InvoicingFails
  BY <1>9 DEF InvoicingFails, OrderInv, RowsInv, BillingInv, CancelledHasNothing, LiveBills, BillNos
<1> QED
  BY <1>4, <1>5, <1>6, <1>7, <1>8, <1>9 DEF BillingNext

LEMMA DeliverySteps == OrderInv /\ DeliveryNext => OrderInv'
<1> SUFFICES ASSUME OrderInv, DeliveryNext PROVE OrderInv'
  OBVIOUS
<1>1. /\ UNCHANGED <<bill, billing, work, planner>>
      /\ order' \in {order, "FULFILLED"}
  BY DEF DeliveryNext, Dispatch, CancelNote, CreateNote, billingVars, productionVars
<1>2. PlannerInv' /\ ProductionIsPlanned' /\ LiveBills' = LiveBills
  BY <1>1, WorkKept DEF LiveBills, BillNos
<1>3. PICK d \in Notes : Dispatch(d) \/ CancelNote(d) \/ \E qty \in Loads : CreateNote(d, qty)
  BY DEF DeliveryNext
<1>4. PICK x \in Note :
         /\ note' = [note EXCEPT ![d] = x]
         /\ d \notin NotesIn("DISPATCHED")
         /\ x.status = "DISPATCHED" => order # "CANCELLED"
  <2>1. CASE Dispatch(d)
    <3>1. note[d] \in Note /\ note[d].status = "DRAFT" /\ order # "CANCELLED"
      BY <2>1, SalesKinds DEF Dispatch, Shippable, OrderInv, RowsInv
    <3>2. [note[d] EXCEPT !.status = "DISPATCHED"] \in Note
      BY <3>1 DEF Note
    <3> QED
      BY <2>1, <3>1, <3>2 DEF Dispatch, NotesIn
  <2>2. CASE CancelNote(d)
    <3>1. note[d] \in Note /\ note[d].status = "DRAFT"
      BY <2>2, SalesKinds DEF CancelNote, OrderInv, RowsInv
    <3>2. /\ [note[d] EXCEPT !.status = "CANCELLED"] \in Note
          /\ [note[d] EXCEPT !.status = "CANCELLED"].status = "CANCELLED"
      BY <3>1 DEF Note
    <3> QED
      BY <2>2, <3>1, <3>2 DEF CancelNote, NotesIn
  <2>3. ASSUME NEW qty \in Loads, CreateNote(d, qty)
        PROVE  \E x \in Note : /\ note' = [note EXCEPT ![d] = x]
                               /\ d \notin NotesIn("DISPATCHED")
                               /\ x.status = "DISPATCHED" => order # "CANCELLED"
    <3>1. qty \in Quantities
      BY SalesAssumption DEF Loads, Quantities
    <3>2. [status |-> "DRAFT", qty |-> qty] \in Note
      BY <3>1 DEF Note
    <3> QED
      BY <2>3, <3>2, SalesKinds DEF CreateNote, NotesIn
  <2> QED
    BY <1>3, <2>1, <2>2, <2>3
<1>5. note' \in [Notes -> {NoNote} \cup Note]
  BY <1>4 DEF OrderInv, RowsInv
<1>6. NotesIn("DISPATCHED") \subseteq NotesIn("DISPATCHED")'
  BY <1>4 DEF OrderInv, RowsInv, NotesIn
<1>7. CancelledHasNothing'
  <2> SUFFICES ASSUME order' = "CANCELLED" PROVE LiveBills' = {} /\ NotesIn("DISPATCHED")' = {}
    BY DEF CancelledHasNothing
  <2>1. order = "CANCELLED" /\ LiveBills = {} /\ NotesIn("DISPATCHED") = {}
    BY <1>1 DEF OrderInv, CancelledHasNothing
  <2>2. NotesIn("DISPATCHED")' \subseteq NotesIn("DISPATCHED")
    BY <1>4, <2>1 DEF OrderInv, RowsInv, NotesIn
  <2> QED
    BY <1>2, <2>1, <2>2
<1> QED
  BY <1>1, <1>2, <1>5, <1>6, <1>7 DEF OrderInv, RowsInv, BillingInv, BillNos

LEMMA ProductionSteps == OrderInv /\ ProductionNext => OrderInv'
<1> SUFFICES ASSUME OrderInv, ProductionNext PROVE OrderInv'
  OBVIOUS
<1>1. UNCHANGED <<bill, billing, note>> /\ order' \in {order, "IN_PRODUCTION", "OPEN"}
  BY DEF ProductionNext, StartProduction, PlanWork, ReadOrder, PlanningFails, FinishPlanning,
         PutBack, PlannerCrashes, CreateWorkOrder, SkipLine, CancelWorkOrder, billingVars,
         deliveryVars
<1>2. /\ (DOMAIN bill = BillNos)' /\ BillingInv' /\ CancelledHasNothing'
      /\ note' \in [Notes -> {NoNote} \cup Note]
  BY <1>1, MoneyKept DEF OrderInv, RowsInv
<1>3. SUFFICES /\ work' \in [Items -> {"none", "live", "cancelled"}]
               /\ planner' \in [Requests -> {NotPlanning} \cup Planner]
               /\ PlannerInv' /\ ProductionIsPlanned'
  BY <1>2 DEF OrderInv, RowsInv
<1>4. ASSUME NEW l \in Items, CancelWorkOrder(l)
      PROVE  /\ work' \in [Items -> {"none", "live", "cancelled"}]
             /\ planner' \in [Requests -> {NotPlanning} \cup Planner]
             /\ PlannerInv' /\ ProductionIsPlanned'
  BY <1>4 DEF CancelWorkOrder, OrderInv, RowsInv, PlannerInv, ProductionIsPlanned
<1>5. ASSUME NEW p \in Requests, NEW x \in {NotPlanning} \cup Planner,
             planner' = [planner EXCEPT ![p] = x],
             work' \in [Items -> {"none", "live", "cancelled"}],
             \A l \in Items : work[l] # "none" => work'[l] # "none",
             x # NotPlanning /\ x.made => \E l \in Items : work'[l] # "none",
             order' = "IN_PRODUCTION" =>
                 \/ \E l \in Items : work'[l] # "none"
                 \/ x # NotPlanning /\ x.claims
                 \/ order = "IN_PRODUCTION" /\ (planner[p] # NotPlanning => ~planner[p].claims)
      PROVE  /\ work' \in [Items -> {"none", "live", "cancelled"}]
             /\ planner' \in [Requests -> {NotPlanning} \cup Planner]
             /\ PlannerInv' /\ ProductionIsPlanned'
  <2>1. /\ planner' \in [Requests -> {NotPlanning} \cup Planner] /\ planner'[p] = x
        /\ \A q \in Requests \ {p} : planner'[q] = planner[q]
    BY <1>5 DEF OrderInv, RowsInv
  <2>2. PlannerInv'
    BY <1>5, <2>1 DEF OrderInv, PlannerInv
  <2>3. ProductionIsPlanned'
    BY <1>5, <2>1 DEF OrderInv, ProductionIsPlanned
  <2> QED
    BY <1>5, <2>1, <2>2, <2>3
<1>6. SUFFICES ASSUME NEW p \in Requests,
                      \/ StartProduction(p) \/ PlanWork(p) \/ ReadOrder(p) \/ PlanningFails(p)
                      \/ FinishPlanning(p) \/ PutBack(p) \/ PlannerCrashes(p)
                      \/ \E l \in Items : CreateWorkOrder(p, l) \/ SkipLine(p, l)
               PROVE  /\ work' \in [Items -> {"none", "live", "cancelled"}]
                      /\ planner' \in [Requests -> {NotPlanning} \cup Planner]
                      /\ PlannerInv' /\ ProductionIsPlanned'
  BY <1>4 DEF ProductionNext
<1>7. CASE StartProduction(p) \/ PlanWork(p)
  <2>1. PICK b \in BOOLEAN :
            /\ Begin(p, b) /\ UNCHANGED work /\ planner[p] = NotPlanning
            /\ b \/ UNCHANGED order
    BY <1>7 DEF StartProduction, PlanWork
  <2> DEFINE x == [at |-> "plan", claims |-> b, todo |-> Items, made |-> FALSE]
  <2>2. x \in Planner /\ x.claims = b /\ x.made = FALSE
    BY DEF Planner
  <2>3. planner' = [planner EXCEPT ![p] = x]
    BY <2>1 DEF Begin
  <2> HIDE DEF x
  <2> QED
    BY <1>5, <2>1, <2>2, <2>3, SalesKinds DEF OrderInv, RowsInv
<1>8. ASSUME planner[p].at \in {"plan", "create", "failed"}
      PROVE  /\ planner[p] \in Planner
             /\ \A a \in {"plan", "create", "failed", "crashed"} :
                    /\ [planner[p] EXCEPT !.at = a] \in Planner
                    /\ [planner[p] EXCEPT !.at = a].claims = planner[p].claims
                    /\ [planner[p] EXCEPT !.at = a].made = planner[p].made
  <2>1. planner[p] \in Planner
    BY <1>8, SalesKinds DEF OrderInv, RowsInv
  <2> QED
    BY <2>1 DEF Planner
<1>9. ASSUME NEW a \in {"plan", "create", "failed", "crashed"},
             planner[p].at \in {"plan", "create", "failed"},
             planner' = [planner EXCEPT ![p].at = a], UNCHANGED <<order, work>>
      PROVE  /\ work' \in [Items -> {"none", "live", "cancelled"}]
             /\ planner' \in [Requests -> {NotPlanning} \cup Planner]
             /\ PlannerInv' /\ ProductionIsPlanned'
  <2> DEFINE x == [planner[p] EXCEPT !.at = a]
  <2>1. x \in Planner /\ x.claims = planner[p].claims /\ x.made = planner[p].made
    BY <1>8, <1>9
  <2>2. planner' = [planner EXCEPT ![p] = x]
    BY <1>9
  <2> HIDE DEF x
  <2>3. planner[p] # NotPlanning
    BY <1>8, <1>9, SalesKinds
  <2>4. x.made => \E l \in Items : work'[l] # "none"
    BY <1>9, <2>1, <2>3 DEF OrderInv, PlannerInv
  <2> QED
    BY <1>5, <1>9, <2>1, <2>2, <2>4, SalesKinds DEF OrderInv, RowsInv
<1>10. CASE ReadOrder(p) \/ PlanningFails(p) \/ PlannerCrashes(p)
  <2>1. UNCHANGED <<order, work>> /\ planner[p].at \in {"plan", "create", "failed"}
    BY <1>10 DEF ReadOrder, PlanningFails, PlannerCrashes
  <2>2. \E a \in {"plan", "create", "failed", "crashed"} : planner' = [planner EXCEPT ![p].at = a]
    BY <1>10 DEF ReadOrder, PlanningFails, PlannerCrashes
  <2> QED
    BY <1>9, <2>1, <2>2
<1>11. CASE FinishPlanning(p)
  <2>1. planner[p].at = "create" /\ UNCHANGED <<order, work>> /\ planner[p] # NotPlanning
    BY <1>11, SalesKinds DEF FinishPlanning
  <2>2. CASE planner[p].made \/ \E l \in Items : work[l] = "live"
    <3>1. planner' = [planner EXCEPT ![p] = NotPlanning]
      BY <1>11, <2>2 DEF FinishPlanning
    <3>2. \E l \in Items : work[l] # "none"
      BY <2>1, <2>2 DEF OrderInv, PlannerInv
    <3> QED
      BY <1>5, <2>1, <3>1, <3>2 DEF OrderInv, RowsInv
  <2>3. CASE ~(planner[p].made \/ \E l \in Items : work[l] = "live")
    <3>1. planner' = [planner EXCEPT ![p].at = "failed"]
      BY <1>11, <2>3 DEF FinishPlanning
    <3> QED
      BY <1>9, <2>1, <3>1
  <2> QED
    BY <2>2, <2>3
<1>12. CASE PutBack(p)
  <2>1. /\ planner' = [planner EXCEPT ![p] = NotPlanning] /\ UNCHANGED work
        /\ order' = IF planner[p].claims /\ order = "IN_PRODUCTION" THEN "OPEN" ELSE order
    BY <1>12 DEF PutBack
  <2> QED
    BY <1>5, <2>1 DEF OrderInv, RowsInv
<1>13. ASSUME NEW l \in Items, CreateWorkOrder(p, l) \/ SkipLine(p, l)
       PROVE  /\ work' \in [Items -> {"none", "live", "cancelled"}]
              /\ planner' \in [Requests -> {NotPlanning} \cup Planner]
              /\ PlannerInv' /\ ProductionIsPlanned'
  <2>1. planner[p].at = "create" /\ planner[p] \in Planner /\ UNCHANGED order /\ planner[p] # NotPlanning
    BY <1>8, <1>13, SalesKinds DEF CreateWorkOrder, SkipLine
  <2>2. CASE CreateWorkOrder(p, l)
    <3>1. PICK x \in Planner : /\ planner' = [planner EXCEPT ![p] = x]
                               /\ x.claims = planner[p].claims
      <4>1. \A y \in Planner : /\ [y EXCEPT !.todo = y.todo \ {l}, !.made = TRUE] \in Planner
                               /\ [y EXCEPT !.todo = y.todo \ {l}, !.made = TRUE].claims = y.claims
        BY DEF Planner
      <4>2. planner' = [planner EXCEPT ![p] = [planner[p] EXCEPT !.todo = planner[p].todo \ {l},
                                                                 !.made = TRUE]]
        BY <2>2 DEF CreateWorkOrder, OrderInv, RowsInv
      <4> QED
        BY <2>1, <4>1, <4>2
    <3>2. work' = [work EXCEPT ![l] = "live"]
      BY <2>2 DEF CreateWorkOrder
    <3>3. /\ work' \in [Items -> {"none", "live", "cancelled"}] /\ work'[l] = "live"
          /\ \A k \in Items : work[k] # "none" => work'[k] # "none"
      BY <3>2 DEF OrderInv, RowsInv
    <3> QED
      BY <1>5, <2>1, <3>1, <3>3
  <2>3. CASE SkipLine(p, l)
    <3>1. PICK x \in Planner : /\ planner' = [planner EXCEPT ![p] = x]
                               /\ x.claims = planner[p].claims /\ x.made = planner[p].made
      <4>1. \A y \in Planner : /\ [y EXCEPT !.todo = y.todo \ {l}] \in Planner
                               /\ [y EXCEPT !.todo = y.todo \ {l}].claims = y.claims
                               /\ [y EXCEPT !.todo = y.todo \ {l}].made = y.made
        BY DEF Planner
      <4>2. planner' = [planner EXCEPT ![p] = [planner[p] EXCEPT !.todo = planner[p].todo \ {l}]]
        BY <2>3 DEF SkipLine
      <4> QED
        BY <2>1, <4>1, <4>2
    <3>2. UNCHANGED work
      BY <2>3 DEF SkipLine
    <3>3. x.made => \E k \in Items : work'[k] # "none"
      BY <2>1, <3>1, <3>2 DEF OrderInv, PlannerInv
    <3> QED
      BY <1>5, <2>1, <3>1, <3>2, <3>3, SalesKinds DEF OrderInv, RowsInv
  <2> QED
    BY <1>13, <2>2, <2>3
<1> QED
  BY <1>6, <1>7, <1>10, <1>11, <1>12, <1>13

LEMMA OrderInvStep == OrderInv /\ [SalesNext]_salesVars => OrderInv'
<1>1. OrderInv /\ UNCHANGED salesVars => OrderInv'
  BY DEF salesVars, billingVars, deliveryVars, productionVars, OrderInv, RowsInv, BillingInv,
         PlannerInv, CancelledHasNothing, ProductionIsPlanned, LiveBills, NotesIn, BillNos
<1> QED
  BY <1>1, StatusSteps, BillingSteps, DeliverySteps, ProductionSteps DEF SalesNext

LEMMA OrderAlways == SalesSpec => []OrderInv
<1>1. SalesInit => OrderInv
  BY SalesKinds
     DEF SalesInit, OrderInv, RowsInv, BillingInv, PlannerInv, CancelledHasNothing,
         ProductionIsPlanned
<1> QED
  BY <1>1, OrderInvStep, PTL DEF SalesSpec

(* A cancelled order has nothing billed and nothing shipped, for any lines,    *)
(* schedules, notes and requests and however they interleave.                  *)
THEOREM CancelledIsEmpty == SalesSpec => []CancelledHasNothing
BY OrderAlways, PTL DEF OrderInv

(* An order says IN_PRODUCTION only while work was planned or its claimant has *)
(* not put it back.                                                            *)
THEOREM ProductionPlanned == SalesSpec => []ProductionIsPlanned
BY OrderAlways, PTL DEF OrderInv

--------------------------------------------------------------------------------
(* What has shipped *)

(* An order fulfilled by hand has no note that could still ship, and what has *)
(* not been ordered yet has not shipped.                                      *)
ShippingInv ==
    /\ fulfilled \in Quantities
    /\ order \in {"none", "OPEN", "IN_PRODUCTION", "FULFILLED", "CLOSED", "CANCELLED"}
    /\ \/ \A l \in Items : fulfilled[l] = InNotes(l, "DISPATCHED")
       \/ fulfilled = ItemQty /\ NotesIn("DISPATCHED") = {} /\ NotesIn("DRAFT") = {}
    /\ \A l \in Items : fulfilled[l] <= ItemQty[l]
    /\ order \in {"FULFILLED", "CLOSED"} => EverythingShipped
    /\ EverythingShipped => order \notin {"none", "OPEN", "IN_PRODUCTION"}

LEMMA InNotesType ==
    ASSUME RowsInv, NEW l \in Items, NEW status \in {"DRAFT", "DISPATCHED", "CANCELLED"}
    PROVE  IsFiniteSet(NotesIn(status)) /\ InNotes(l, status) \in Nat
<1>1. IsFiniteSet(NotesIn(status))
  BY SalesAssumption, FS_Subset DEF NotesIn
<1>2. \A d \in NotesIn(status) : note[d].qty[l] \in Nat
  BY SalesKinds DEF NotesIn, RowsInv, Quantities
<1>3. [d \in NotesIn(status) |-> note[d].qty[l]] \in [NotesIn(status) -> Nat]
  BY <1>2
<1> DEFINE S == NotesIn(status)
<1>4. \A f \in [S -> Nat] : SumFunction(f) \in Nat
  BY <1>1, SumOfNat
<1> QED
  BY <1>1, <1>3, <1>4 DEF InNotes

LEMMA InitShipping ==
    ASSUME SalesInit, Items # {}
    PROVE  ShippingInv
<1>1. fulfilled = [l \in Items |-> 0] /\ order = "none" /\ NotesIn("DISPATCHED") = {}
  BY SalesKinds DEF SalesInit, NotesIn
<1>2. ASSUME NEW l \in Items PROVE InNotes(l, "DISPATCHED") = 0
  <2>1. DOMAIN [d \in {} |-> note[d].qty[l]] = {}
    OBVIOUS
  <2> QED
    BY <1>1, <2>1, SumEmpty DEF InNotes
<1>3. fulfilled \in Quantities /\ \A l \in Items : fulfilled[l] = 0 /\ 0 < ItemQty[l]
  BY <1>1, SalesAssumption DEF Quantities
<1>4. ~ EverythingShipped
  BY <1>3, SalesAssumption DEF EverythingShipped
<1>5. \A l \in Items : fulfilled[l] <= ItemQty[l]
  BY <1>3, SalesAssumption
<1> QED
  BY <1>1, <1>2, <1>3, <1>4, <1>5 DEF ShippingInv

(* A move of the order that neither ships nor forgets what has shipped. *)
LEMMA ShippingOfMoves ==
    ASSUME ShippingInv, UNCHANGED <<note, fulfilled>>,
           \/ order' = order
           \/ order = "none" /\ order' = "OPEN"
           \/ order = "FULFILLED" /\ order' = "CLOSED"
           \/ order' = "CANCELLED"
           \/ order = "OPEN" /\ order' = "IN_PRODUCTION"
           \/ order = "IN_PRODUCTION" /\ order' = "OPEN"
    PROVE  ShippingInv'
BY DEF ShippingInv, EverythingShipped, InNotes, NotesIn

LEMMA ShippingOfOrder ==
    ASSUME OrderInv, ShippingInv, OrderNext
    PROVE  ShippingInv'
<1>1. CASE ProvisionOrder
  BY <1>1, ShippingOfMoves DEF ProvisionOrder, deliveryVars
<1>2. CASE Close
  BY <1>2, ShippingOfMoves DEF Close, deliveryVars, CanBecome, NextStatus, ShippingInv
<1>3. CASE Cancel
  BY <1>3, ShippingOfMoves DEF Cancel, deliveryVars
<1>4. CASE MarkFulfilled
  <2>1. /\ order' = "FULFILLED" /\ fulfilled' = ItemQty /\ note' = note
        /\ NotesIn("DISPATCHED") = {} /\ NotesIn("DRAFT") = {}
    BY <1>4 DEF MarkFulfilled
  <2>2. NotesIn("DISPATCHED")' = {} /\ NotesIn("DRAFT")' = {}
    BY <2>1 DEF NotesIn
  <2>3. ItemQty \in Quantities /\ \A l \in Items : ItemQty[l] \in Nat
    BY SalesAssumption DEF Quantities
  <2> QED
    BY <2>1, <2>2, <2>3 DEF ShippingInv, EverythingShipped
<1> QED
  BY <1>1, <1>2, <1>3, <1>4 DEF OrderNext

(* A note that is not dispatched changes and none is dispatched. *)
LEMMA ShippingOfDrafts ==
    ASSUME OrderInv, ShippingInv, NEW d \in Notes, NEW row, row.status # "DISPATCHED",
           note[d].status # "DISPATCHED", note' = [note EXCEPT ![d] = row],
           UNCHANGED <<fulfilled, order>>,
           NotesIn("DRAFT") = {} /\ fulfilled = ItemQty => row.status # "DRAFT"
    PROVE  ShippingInv'
<1>1. DOMAIN note = Notes
  BY DEF OrderInv, RowsInv
<1>2. NotesIn("DISPATCHED")' = NotesIn("DISPATCHED")
  BY <1>1 DEF NotesIn
<1>3. \A e \in NotesIn("DISPATCHED") : note'[e] = note[e]
  BY <1>1 DEF NotesIn
<1>4. ASSUME NEW l \in Items PROVE InNotes(l, "DISPATCHED")' = InNotes(l, "DISPATCHED")
  <2>1. [e \in NotesIn("DISPATCHED") |-> note'[e].qty[l]]
          = [e \in NotesIn("DISPATCHED") |-> note[e].qty[l]]
    BY <1>3
  <2> QED
    BY <1>2, <2>1 DEF InNotes
<1>5. NotesIn("DRAFT") = {} /\ fulfilled = ItemQty => NotesIn("DRAFT")' = {}
  BY <1>1 DEF NotesIn
<1> QED
  BY <1>2, <1>4, <1>5 DEF ShippingInv, EverythingShipped

LEMMA ShippingOfDelivery ==
    ASSUME OrderInv, ShippingInv, DeliveryNext
    PROVE  ShippingInv'
<1>0. PICK d \in Notes : Dispatch(d) \/ CancelNote(d) \/ \E qty \in Loads : CreateNote(d, qty)
  BY DEF DeliveryNext
<1>n. note \in [Notes -> {NoNote} \cup Note] /\ RowsInv
  BY DEF OrderInv, RowsInv
<1>1. CASE CancelNote(d)
  <2> DEFINE row == [note[d] EXCEPT !.status = "CANCELLED"]
  <2>1. /\ note[d].status = "DRAFT" /\ note' = [note EXCEPT ![d] = row]
        /\ UNCHANGED <<order, fulfilled>>
    BY <1>1, <1>n DEF CancelNote
  <2>2. row.status = "CANCELLED"
    BY <1>n, <2>1, SalesKinds DEF Note
  <2> HIDE DEF row
  <2> QED
    BY <2>1, <2>2, ShippingOfDrafts
<1>2. ASSUME NEW qty \in Loads, CreateNote(d, qty)
      PROVE  ShippingInv'
  <2> DEFINE row == [status |-> "DRAFT", qty |-> qty]
  <2>1. /\ note[d] = NoNote /\ note' = [note EXCEPT ![d] = row] /\ UNCHANGED <<order, fulfilled>>
        /\ \A l \in Items : qty[l] <= ItemQty[l] - fulfilled[l] - InNotes(l, "DRAFT")
    BY <1>2 DEF CreateNote, billingVars
  <2>2. PICK l \in Items : qty[l] \in Nat /\ qty[l] > 0
    BY DEF Loads
  <2>3. InNotes(l, "DRAFT") \in Nat /\ ItemQty[l] \in Nat
    BY <1>n, InNotesType, SalesAssumption
  <2>4. fulfilled # ItemQty
    <3>1. SUFFICES ASSUME fulfilled = ItemQty PROVE FALSE
      OBVIOUS
    <3>2. qty[l] <= ItemQty[l] - ItemQty[l] - InNotes(l, "DRAFT")
      BY <2>1, <3>1
    <3> QED
      BY <2>2, <2>3, <3>2
  <2> QED
    BY <2>1, <2>4, SalesKinds, ShippingOfDrafts
<1>3. CASE Dispatch(d)
  <2>1. /\ Shippable /\ note[d].status = "DRAFT"
        /\ \A l \in Items : fulfilled[l] + note[d].qty[l] <= ItemQty[l]
        /\ note' = [note EXCEPT ![d].status = "DISPATCHED"]
        /\ fulfilled' = [l \in Items |-> fulfilled[l] + note[d].qty[l]]
        /\ order' = IF ShipsAll(d) /\ order \in {"OPEN", "IN_PRODUCTION"} THEN "FULFILLED" ELSE order
    BY <1>3 DEF Dispatch, Shipped
  <2>2. note[d] \in Note /\ \A l \in Items : note[d].qty[l] \in Nat
    BY <1>n, <2>1, SalesKinds DEF Quantities
  <2>3. /\ NotesIn("DISPATCHED")' = NotesIn("DISPATCHED") \cup {d} /\ d \notin NotesIn("DISPATCHED")
        /\ d \in NotesIn("DRAFT")
        /\ \A e \in Notes \ {d} : note'[e] = note[e]
        /\ note'[d].qty = note[d].qty
    BY <1>n, <2>1, <2>2 DEF NotesIn, Note
  <2>4. \A l \in Items : fulfilled[l] = InNotes(l, "DISPATCHED")
    BY <2>3 DEF ShippingInv
  <2>5. ASSUME NEW l \in Items PROVE fulfilled'[l] = InNotes(l, "DISPATCHED")'
    <3> DEFINE S == NotesIn("DISPATCHED")
    <3>1. IsFiniteSet(S) /\ d \notin S
      BY <1>n, <2>3, InNotesType
    <3>2. \A e \in S : note[e].qty[l] \in Int /\ note'[e] = note[e]
      BY <1>n, <2>3, SalesKinds DEF NotesIn, Quantities
    <3>3. note[d].qty[l] \in Int /\ note'[d].qty[l] = note[d].qty[l]
      BY <2>2, <2>3
    <3>4. \A f \in [S -> Int], g \in [S \cup {d} -> Int] :
              (\A x \in S : g[x] = f[x]) => SumFunction(g) = SumFunction(f) + g[d]
      <4> HIDE DEF S
      <4> QED
        BY <3>1, SumExtend
    <3> HIDE DEF S
    <3>5. PICK f \in [S -> Int] : f = [e \in S |-> note[e].qty[l]]
      BY <3>2
    <3>6. PICK g \in [S \cup {d} -> Int] : g = [e \in S \cup {d} |-> note'[e].qty[l]]
      <4>1. [e \in S \cup {d} |-> note'[e].qty[l]] \in [S \cup {d} -> Int]
        BY <3>2, <3>3
      <4> QED
        BY <4>1
    <3>7. SumFunction(g) = SumFunction(f) + g[d]
      <4>1. \A x \in S : g[x] = f[x]
        BY <3>2, <3>5, <3>6
      <4> QED
        BY <3>4, <4>1
    <3>8. SumFunction(f) = InNotes(l, "DISPATCHED") /\ SumFunction(g) = InNotes(l, "DISPATCHED")'
      BY <2>3, <3>5, <3>6 DEF InNotes, S
    <3>9. g[d] = note[d].qty[l]
      BY <3>3, <3>6
    <3> QED
      BY <2>1, <2>4, <3>7, <3>8, <3>9
  <2>6. fulfilled' \in Quantities /\ \A l \in Items : fulfilled'[l] \in Nat /\ fulfilled'[l] <= ItemQty[l]
    <3>1. \A l \in Items : fulfilled[l] + note[d].qty[l] \in Nat
      BY <2>2 DEF ShippingInv, Quantities
    <3> QED
      BY <2>1, <3>1 DEF Quantities
  <2>7. EverythingShipped' <=> ShipsAll(d)
    BY <2>1 DEF EverythingShipped, ShipsAll, Shipped
  <2>8. EverythingShipped => ShipsAll(d)
    <3>1. \A l \in Items : /\ fulfilled[l] \in Nat /\ note[d].qty[l] \in Nat /\ ItemQty[l] \in Nat
      BY <2>2, SalesAssumption DEF ShippingInv, Quantities
    <3>2. \A a, b, c \in Nat : a >= c => a + b >= c
      OBVIOUS
    <3> QED
      BY <3>1, <3>2 DEF EverythingShipped, ShipsAll, Shipped
  <2>9. /\ order' \in {"none", "OPEN", "IN_PRODUCTION", "FULFILLED", "CLOSED", "CANCELLED"}
        /\ order' \in {"FULFILLED", "CLOSED"} => EverythingShipped'
        /\ EverythingShipped' => order' \notin {"none", "OPEN", "IN_PRODUCTION"}
    <3> HIDE DEF EverythingShipped, ShipsAll
    <3> QED
      BY <2>1, <2>7, <2>8 DEF ShippingInv, Shippable
  <2> QED
    BY <2>5, <2>6, <2>9 DEF ShippingInv
<1> QED
  BY <1>0, <1>1, <1>2, <1>3

LEMMA ShippingOfProduction ==
    ASSUME OrderInv, ShippingInv, ProductionNext
    PROVE  ShippingInv'
<1>1. /\ UNCHANGED <<note, fulfilled>>
      /\ \/ order' = order
         \/ order = "OPEN" /\ order' = "IN_PRODUCTION"
         \/ order = "IN_PRODUCTION" /\ order' = "OPEN"
  <2>1. ASSUME NEW p \in Requests, StartProduction(p)
        PROVE  /\ UNCHANGED <<note, fulfilled>>
               /\ order = "OPEN" /\ order' = "IN_PRODUCTION"
    BY <2>1 DEF StartProduction, CanBecome, NextStatus, deliveryVars, ShippingInv
  <2>2. ASSUME NEW p \in Requests, PutBack(p)
        PROVE  /\ UNCHANGED <<note, fulfilled>>
               /\ order' = order \/ (order = "IN_PRODUCTION" /\ order' = "OPEN")
    BY <2>2 DEF PutBack, deliveryVars
  <2>3. ASSUME NEW p \in Requests, NEW l,
               \/ PlanWork(p) \/ ReadOrder(p) \/ PlanningFails(p)
               \/ FinishPlanning(p) \/ PlannerCrashes(p)
               \/ CreateWorkOrder(p, l) \/ SkipLine(p, l) \/ CancelWorkOrder(l)
        PROVE  UNCHANGED <<note, fulfilled, order>>
    BY <2>3 DEF PlanWork, ReadOrder, PlanningFails, FinishPlanning, PlannerCrashes, CreateWorkOrder,
       SkipLine, CancelWorkOrder, deliveryVars
  <2>4. ASSUME NEW l, CancelWorkOrder(l) PROVE UNCHANGED <<note, fulfilled, order>>
    BY <2>4 DEF CancelWorkOrder, deliveryVars
  <2> QED
    BY <2>1, <2>2, <2>3, <2>4 DEF ProductionNext
<1> QED
  BY <1>1, ShippingOfMoves

LEMMA StepShipping == OrderInv /\ ShippingInv /\ [SalesNext]_salesVars => ShippingInv'
<1> SUFFICES ASSUME OrderInv, ShippingInv, [SalesNext]_salesVars PROVE ShippingInv'
  OBVIOUS
<1>1. CASE BillingNext \/ UNCHANGED salesVars
  <2>1. UNCHANGED <<note, fulfilled, order>>
    BY <1>1 DEF BillingNext, AskForStage, RaiseStageInvoice, VoidOrderInvoice, StartInvoicing,
       InvoiceDelivery, InvoicingFails, deliveryVars, salesVars
  <2> QED
    BY <2>1, ShippingOfMoves
<1> QED
  BY <1>1, ShippingOfOrder, ShippingOfDelivery, ShippingOfProduction DEF SalesNext

LEMMA TellsShipped == ShippingInv => ShippedTellsNotes
BY DEF ShippingInv, ShippedTellsNotes

(* What the lines say has shipped is what the notes carried, the order is     *)
(* fulfilled when and only when all of it has shipped, for any notes, loads   *)
(* and requests.  An order without lines has nothing to ship.                 *)
THEOREM ShippedCorrect ==
  ASSUME Items # {}
  PROVE  SalesSpec => []ShippedTellsNotes
<1>1. SalesInit => ShippingInv
  BY InitShipping
<1> QED
  BY <1>1, StepShipping, TellsShipped, OrderAlways, PTL DEF SalesSpec

--------------------------------------------------------------------------------
(* What is billed: the terms *)

TermsOK == terms \in [total : Totals, schedule : Schedules]

(* The last stage comes to at least half a cent for each of the others, which *)
(* is what rounding may add to them.                                          *)
LastStageCovers ==
    \A total \in Totals : \A schedule \in Schedules :
        total * schedule[Len(schedule)].percent >= 50 * (Len(schedule) - 1)

LEMMA TermsFields ==
    ASSUME TermsOK
    PROVE  /\ terms.total \in Nat \ {0}
           /\ Len(terms.schedule) \in Nat \ {0} /\ StagesOf = DOMAIN terms.schedule
           /\ IsFiniteSet(StagesOf) /\ StagesOf \subseteq Nat \ {0}
           /\ Len(terms.schedule) \in StagesOf
           /\ \A s \in StagesOf : /\ terms.schedule[s].percent \in 1..100
                                  /\ Share(s) \in Nat
                                  /\ 200 * Share(s) <= 2 * terms.total * terms.schedule[s].percent + 100
           /\ SumFunction([s \in StagesOf |-> terms.schedule[s].percent]) = 100
<1>1. terms.total \in Nat \ {0} /\ terms.schedule \in Schedules
  BY SalesAssumption DEF TermsOK
<1>2. ValidSchedule(terms.schedule)
  BY <1>1, SalesAssumption
<1>3. PICK T, q : q = terms.schedule /\ q \in Seq(T) /\ q # <<>>
                  /\ \A t \in T : t.percent \in 1..100
  <2>1. \A t \in [trigger : {"ON_APPROVAL", "MANUAL", "ON_DELIVERY"}, percent : 1..100] :
            t.percent \in 1..100
    OBVIOUS
  <2>2. /\ terms.schedule # <<>>
        /\ terms.schedule \in
               Seq([trigger : {"ON_APPROVAL", "MANUAL", "ON_DELIVERY"}, percent : 1..100])
    BY <1>2, Zenon DEF ValidSchedule
  <2> QED
    BY <2>1, <2>2, Zenon
<1>4. /\ Len(q) \in Nat \ {0} /\ DOMAIN q = 1..Len(q) /\ \A s \in 1..Len(q) : q[s] \in T
  BY <1>3
<1>5. IsFiniteSet(1..Len(q)) /\ 1..Len(q) \subseteq Nat \ {0} /\ Len(q) \in 1..Len(q)
  <2>1. PICK n \in Nat \ {0} : n = Len(q)
    BY <1>4, Zenon
  <2>2. IsFiniteSet(1..n)
    BY FS_Interval
  <2> QED
    BY <2>1, <2>2
<1>6. ASSUME NEW s \in StagesOf
      PROVE  /\ terms.schedule[s].percent \in 1..100 /\ Share(s) \in Nat
             /\ 200 * Share(s) <= 2 * terms.total * terms.schedule[s].percent + 100
  <2>1. terms.schedule[s].percent \in 1..100
    BY <1>3, <1>4 DEF StagesOf
  <2>2. PICK x \in Nat : x = 2 * terms.total * terms.schedule[s].percent + 100
    BY <1>1, <2>1
  <2>3. x \div 200 \in Nat /\ 200 * (x \div 200) <= x
    BY <2>2
  <2> QED
    BY <2>1, <2>2, <2>3 DEF Share
<1>7. SumFunction([s \in StagesOf |-> terms.schedule[s].percent]) = 100
  BY <1>2, <1>3, <1>4 DEF ValidSchedule, StagesOf
<1> QED
  BY <1>1, <1>3, <1>4, <1>5, <1>6, <1>7 DEF StagesOf

(* The shares before the last stage. *)
LEMMA StagesBefore ==
    ASSUME TermsOK, NEW n, n = Len(terms.schedule)
    PROVE  /\ StagesOf = 1..(n - 1) \cup {n} /\ n \notin 1..(n - 1)
           /\ IsFiniteSet(1..(n - 1)) /\ 1..(n - 1) \subseteq StagesOf
           /\ Cardinality(1..(n - 1)) = n - 1
           /\ SumFunction([t \in 1..(n - 1) |-> Share(t)]) \in Nat
<1>1. n \in Nat \ {0} /\ StagesOf = 1..n
  BY TermsFields DEF StagesOf
<1>2. IsFiniteSet(1..(n - 1)) /\ Cardinality(1..(n - 1)) = n - 1
  <2>1. PICK m \in Int : m = n - 1 /\ m >= 0
    BY <1>1
  <2>2. IsFiniteSet(1..m) /\ Cardinality(1..m) = IF 1 > m THEN 0 ELSE m - 1 + 1
    BY FS_Interval
  <2> QED
    BY <2>1, <2>2
<1>3. 1..(n - 1) \subseteq 1..n /\ 1..n = 1..(n - 1) \cup {n} /\ n \notin 1..(n - 1)
  BY <1>1
<1>4. [t \in 1..(n - 1) |-> Share(t)] \in [1..(n - 1) -> Nat]
  BY <1>1, <1>3, TermsFields
<1>5. \A f \in [1..(n - 1) -> Nat] : SumFunction(f) \in Nat
  BY <1>2, SumOfNat
<1> QED
  BY <1>1, <1>2, <1>3, <1>4, <1>5

LEMMA StageAmountType ==
    ASSUME TermsOK, NEW s \in StagesOf
    PROVE  StageAmount(s) \in Int
BY TermsFields, StagesBefore DEF StageAmount

(* The stages come to the total of the order. *)
LEMMA StagesAddUp ==
    ASSUME TermsOK
    PROVE  SumFunction([s \in StagesOf |-> StageAmount(s)]) = terms.total
<1>0. PICK n : n = Len(terms.schedule)
  OBVIOUS
<1>1. PICK R : R = 1..(n - 1)
  OBVIOUS
<1>2. IsFiniteSet(R) /\ n \notin R /\ StagesOf = R \cup {n}
  BY <1>0, <1>1, StagesBefore
<1>3. PICK f \in [R -> Int] : f = [t \in R |-> Share(t)]
  <2>1. [t \in R |-> Share(t)] \in [R -> Int]
    BY <1>2, TermsFields
  <2> QED
    BY <2>1
<1>4. PICK g \in [R \cup {n} -> Int] : g = [s \in StagesOf |-> StageAmount(s)]
  <2>1. [s \in StagesOf |-> StageAmount(s)] \in [R \cup {n} -> Int]
    BY <1>2, StageAmountType
  <2> QED
    BY <2>1
<1>5. \A x \in R : g[x] = f[x]
  BY <1>0, <1>2, <1>3, <1>4 DEF StageAmount
<1>6. g[n] = terms.total - SumFunction(f)
  BY <1>0, <1>1, <1>2, <1>3, <1>4 DEF StageAmount
<1>7. SumFunction(g) = SumFunction(f) + g[n]
  BY <1>2, <1>5, SumExtend
<1>8. SumFunction(f) \in Int
  BY <1>2, SumType
<1>9. terms.total \in Int
  BY TermsFields
<1> QED
  BY <1>4, <1>6, <1>7, <1>8, <1>9

(* The percents before the last stage. *)
LEMMA PercentsBefore ==
    ASSUME TermsOK
    PROVE  SumFunction([t \in 1..(Len(terms.schedule) - 1) |-> terms.schedule[t].percent])
             = 100 - terms.schedule[Len(terms.schedule)].percent
<1>0. PICK n : n = Len(terms.schedule)
  OBVIOUS
<1>1. PICK R : R = 1..(n - 1)
  OBVIOUS
<1>2. IsFiniteSet(R) /\ n \notin R /\ StagesOf = R \cup {n}
  BY <1>0, <1>1, StagesBefore
<1>3. \A t \in StagesOf : terms.schedule[t].percent \in Int
  <2>1. \A k \in 1..100 : k \in Int
    OBVIOUS
  <2> QED
    BY <2>1, TermsFields
<1>4. PICK f \in [R -> Int] : f = [t \in R |-> terms.schedule[t].percent]
  BY <1>2, <1>3
<1>5. PICK g \in [R \cup {n} -> Int] : g = [t \in StagesOf |-> terms.schedule[t].percent]
  BY <1>2, <1>3
<1>6. \A x \in R : g[x] = f[x]
  BY <1>2, <1>4, <1>5
<1>7. SumFunction(g) = SumFunction(f) + g[n]
  BY <1>2, <1>6, SumExtend
<1>8. SumFunction(g) = 100 /\ g[n] = terms.schedule[n].percent
  BY <1>2, <1>5, TermsFields
<1>9. SumFunction(f) \in Int
  BY <1>2, SumType
<1> QED
  BY <1>0, <1>1, <1>2, <1>3, <1>4, <1>7, <1>8, <1>9

(* No stage bills a negative amount: the shares before the last one exceed    *)
(* what their percents come to by half a cent each.                           *)
LEMMA StagesArePositive ==
    ASSUME TermsOK, LastStageCovers, NEW s \in StagesOf
    PROVE  StageAmount(s) >= 0
<1>0. PICK n : n = Len(terms.schedule)
  OBVIOUS
<1>1. CASE s # n
  <2>1. StageAmount(s) = Share(s) /\ Share(s) \in Nat
    BY <1>0, <1>1, TermsFields DEF StageAmount
  <2> QED
    BY <2>1
<1>2. CASE s = n
  <2>1. PICK R : R = 1..(n - 1)
    OBVIOUS
  <2>2. IsFiniteSet(R) /\ n \notin R /\ StagesOf = R \cup {n} /\ Cardinality(R) = n - 1
        /\ n \in Nat \ {0}
    BY <1>0, <2>1, StagesBefore, TermsFields
  <2>t. terms.total \in Nat /\ 2 * terms.total \in Int
    <3>1. terms.total \in Nat \ {0}
      BY TermsFields
    <3>2. \A k \in Nat \ {0} : k \in Nat /\ 2 * k \in Int
      OBVIOUS
    <3> QED
      BY <3>1, <3>2
  <2>p. \A t \in StagesOf : terms.schedule[t].percent \in Int
    <3>1. \A k \in 1..100 : k \in Int
      OBVIOUS
    <3> QED
      BY <3>1, TermsFields
  <2>3. PICK share \in [R -> Int] : share = [t \in R |-> Share(t)]
    <3>1. [t \in R |-> Share(t)] \in [R -> Int]
      BY <2>2, TermsFields
    <3> QED
      BY <3>1
  <2>4. PICK percent \in [R -> Int] : percent = [t \in R |-> terms.schedule[t].percent]
    BY <2>2, <2>p
  <2>5. PICK scaled \in [R -> Int] : scaled = [t \in R |-> 200 * share[t]]
    <3>1. [t \in R |-> 200 * share[t]] \in [R -> Int]
      OBVIOUS
    <3> QED
      BY <3>1
  <2>6. PICK parts \in [R -> Int] : parts = [t \in R |-> (2 * terms.total) * percent[t]]
    <3>1. [t \in R |-> (2 * terms.total) * percent[t]] \in [R -> Int]
      BY <2>t
    <3> QED
      BY <3>1
  <2>7. PICK halves \in [R -> Int] : halves = [t \in R |-> 100]
    <3>1. [t \in R |-> 100] \in [R -> Int]
      OBVIOUS
    <3> QED
      BY <3>1
  <2>8. PICK bound \in [R -> Int] : bound = [t \in R |-> parts[t] + halves[t]]
    <3>1. [t \in R |-> parts[t] + halves[t]] \in [R -> Int]
      OBVIOUS
    <3> QED
      BY <3>1
  <2>9. /\ SumFunction(scaled) = 200 * SumFunction(share)
        /\ SumFunction(parts) = (2 * terms.total) * SumFunction(percent)
        /\ SumFunction(halves) = 100 * (n - 1)
        /\ SumFunction(bound) = SumFunction(parts) + SumFunction(halves)
    <3>1. SumFunction(scaled) = 200 * SumFunction(share)
      BY <2>2, <2>5, SumScale
    <3>2. SumFunction(parts) = (2 * terms.total) * SumFunction(percent)
      <4>1. \A x \in R : parts[x] = (2 * terms.total) * percent[x]
        BY <2>6
      <4>2. PICK k \in Int : k = 2 * terms.total
        BY <2>t
      <4>3. SumFunction(parts) = k * SumFunction(percent)
        BY <2>2, <4>1, <4>2, SumScale
      <4> QED
        BY <4>2, <4>3
    <3>3. SumFunction(halves) = 100 * Cardinality(R)
      BY <2>2, <2>7, SumConstant
    <3>4. SumFunction(bound) = SumFunction(parts) + SumFunction(halves)
      BY <2>2, <2>8, SumAdd
    <3> QED
      BY <2>2, <3>1, <3>2, <3>3, <3>4
  <2>10. SumFunction(scaled) <= SumFunction(bound)
    <3>1. \A x \in R : scaled[x] <= bound[x]
      <4> TAKE x \in R
      <4>1. /\ scaled[x] = 200 * Share(x)
            /\ bound[x] = (2 * terms.total) * terms.schedule[x].percent + 100
        BY <2>3, <2>4, <2>5, <2>6, <2>7, <2>8
      <4>2. 200 * Share(x) <= 2 * terms.total * terms.schedule[x].percent + 100
        BY <2>2, TermsFields
      <4> QED
        BY <4>1, <4>2
    <3> QED
      BY <2>2, <3>1, SumMonotone
  <2>11. SumFunction(percent) = 100 - terms.schedule[n].percent
    BY <1>0, <2>1, <2>4, PercentsBefore
  <2>12. terms.total * terms.schedule[n].percent >= 50 * (n - 1)
    BY <1>0 DEF LastStageCovers, TermsOK
  <2>13. SumFunction(share) <= terms.total
    <3>1. PICK sumS \in Int, total \in Nat, p \in Int :
            sumS = SumFunction(share) /\ total = terms.total /\ p = terms.schedule[n].percent
      BY <2>2, <2>t, <2>p, SumType
    <3>2. 200 * sumS <= (2 * total) * (100 - p) + 100 * (n - 1)
      BY <2>9, <2>10, <2>11, <3>1
    <3>3. total * p >= 50 * (n - 1)
      BY <2>12, <3>1
    <3>4. (2 * total) * (100 - p) = 200 * total - 2 * (total * p)
      BY <3>1
    <3>5. \A q \in Int : q = total * p =>
            (200 * sumS <= 200 * total - 2 * q + 100 * (n - 1) /\ q >= 50 * (n - 1) => sumS <= total)
      BY <2>2
    <3>6. total * p \in Int
      BY <3>1
    <3> QED
      BY <3>1, <3>2, <3>3, <3>4, <3>5, <3>6
  <2>14. StageAmount(s) = terms.total - SumFunction(share)
    BY <1>0, <1>2, <2>1, <2>3 DEF StageAmount
  <2>15. SumFunction(share) \in Int
    BY <2>2, SumType
  <2> QED
    BY <2>t, <2>13, <2>14, <2>15
<1> QED
  BY <1>1, <1>2

--------------------------------------------------------------------------------
(* The number has been given to a bill. *)
Used(n) == bill[n] # NoBill

(* The rank of a stage among those due on approval. *)
LEMMA Ranks ==
    ASSUME NEW D, IsFiniteSet(D), D \subseteq Nat
    PROVE  /\ \A s \in D : Cardinality({t \in D : t <= s}) \in 1..Cardinality(D)
           /\ \A s, u \in D : Cardinality({t \in D : t <= s}) = Cardinality({t \in D : t <= u}) => s = u
           /\ \A n \in 1..Cardinality(D) : \E s \in D : Cardinality({t \in D : t <= s}) = n
<1> DEFINE Upto(s) == {t \in D : t <= s}
<1>1. \A s \in D : Upto(s) \in SUBSET D /\ s \in Upto(s)
  OBVIOUS
<1>2. PICK m \in Nat : m = Cardinality(D)
  BY FS_CardinalityType
<1>3. \A s \in D : /\ IsFiniteSet(Upto(s)) /\ Cardinality(Upto(s)) \in Nat
                   /\ Cardinality(Upto(s)) <= m /\ Cardinality(Upto(s)) # 0
  <2> HIDE DEF Upto
  <2> TAKE s \in D
  <2>1. IsFiniteSet(Upto(s)) /\ Cardinality(Upto(s)) <= m
    BY <1>1, <1>2, FS_Subset
  <2>2. Cardinality(Upto(s)) \in Nat /\ Cardinality(Upto(s)) # 0
    BY <1>1, <2>1, FS_CardinalityType, FS_EmptySet
  <2> QED
    BY <2>1, <2>2
<1>4. ASSUME NEW s \in D, NEW u \in D, Cardinality(Upto(s)) = Cardinality(Upto(u)), s <= u PROVE s = u
  <2>1. Upto(s) \in SUBSET Upto(u)
    <3>1. \A t \in D : t \in Nat
      OBVIOUS
    <3>2. \A t \in D : t <= s => t <= u
      BY <1>4, <3>1
    <3> QED
      BY <3>2
  <2>2. Upto(s) = Upto(u)
    <3> HIDE DEF Upto
    <3> QED
      BY <1>3, <1>4, <2>1, FS_Subset
  <2>3. u \in Upto(s)
    BY <1>1, <2>2
  <2> QED
    BY <1>4, <2>3
<1>5. \A s, u \in D : Cardinality(Upto(s)) = Cardinality(Upto(u)) => s = u
  <2> TAKE s, u \in D
  <2>1. s <= u \/ u <= s
    OBVIOUS
  <2> HIDE DEF Upto
  <2> QED
    BY <1>4, <2>1
<1>6. PICK r : r = [s \in D |-> Cardinality(Upto(s))]
  OBVIOUS
<1>7. r \in Injection(D, 1..m)
  <2> HIDE DEF Upto
  <2>1. r \in [D -> 1..m]
    BY <1>2, <1>3, <1>6
  <2> QED
    <3>1. \A s, u \in D : r[s] = r[u] => s = u
      BY <1>5, <1>6
    <3> QED
      BY <2>1, <3>1 DEF Injection, IsInjective
<1>8. IsFiniteSet(1..m) /\ Cardinality(1..m) = m
  BY FS_Interval
<1>9. r \in Surjection(D, 1..m)
  BY <1>2, <1>7, <1>8, FS_Injection
<1>10. \A n \in 1..m : \E s \in D : r[s] = n
  BY <1>9 DEF Surjection
<1> HIDE DEF Upto
<1>11. \A s \in D : Cardinality(Upto(s)) \in 1..m
  BY <1>2, <1>3
<1>12. \A n \in 1..m : \E s \in D : Cardinality(Upto(s)) = n
  BY <1>6, <1>10
<1> QED
  BY <1>2, <1>5, <1>11, <1>12 DEF Upto

(* What approval does to the bills and the stages: a stage that is due gets   *)
(* the invoice of its rank.                                                   *)
DueBilled(due, rank) ==
    /\ due = {s \in StagesOf : terms.schedule[s].trigger = "ON_APPROVAL"}
    /\ \A s, t \in due : rank[s] = rank[t] => s = t
    /\ \E k \in 0..MaxInvoices : \A n \in BillNos : n <= k <=> \E s \in due : rank[s] = n
    /\ \A s \in due : bill'[rank[s]] = StageBill(s)
    /\ \A n \in BillNos : (\A s \in due : rank[s] # n) => bill'[n] = NoBill
    /\ DOMAIN bill' = BillNos
    /\ stage' = [s \in StagesOf |-> IF s \in due THEN [invoice |-> rank[s], stamped |-> TRUE]
                                    ELSE stage[s]]

LEMMA Provisioned ==
    ASSUME TermsOK, ProvisionOrder
    PROVE  \E due \in SUBSET StagesOf : \E rank \in [due -> BillNos] : DueBilled(due, rank)
<1>1. PICK due : due = {s \in StagesOf : terms.schedule[s].trigger = "ON_APPROVAL"}
  OBVIOUS
<1>2. due \in SUBSET StagesOf /\ IsFiniteSet(due) /\ due \subseteq Nat
  <2>1. due \in SUBSET StagesOf
    BY <1>1
  <2>2. IsFiniteSet(StagesOf) /\ StagesOf \subseteq Nat
    BY TermsFields
  <2> QED
    BY <2>1, <2>2, FS_Subset
<1> DEFINE Nth(s) == Cardinality({t \in due : t <= s})
<1>3. /\ \A s \in due : Nth(s) \in 1..Cardinality(due)
      /\ \A s, t \in due : Nth(s) = Nth(t) => s = t
      /\ \A n \in 1..Cardinality(due) : \E s \in due : Nth(s) = n
  BY <1>2, Ranks
<1>4. /\ Cardinality(due) <= MaxInvoices
      /\ bill' = [n \in BillNos |-> IF \E s \in due : Nth(s) = n
                                    THEN StageBill(CHOOSE s \in due : Nth(s) = n) ELSE NoBill]
      /\ stage' = [s \in StagesOf |-> IF s \in due THEN [invoice |-> Nth(s), stamped |-> TRUE]
                                      ELSE stage[s]]
  BY <1>1 DEF ProvisionOrder
<1>5. Cardinality(due) \in 0..MaxInvoices
  BY <1>2, <1>4, FS_CardinalityType, SalesAssumption
<1> HIDE DEF Nth
<1>6. PICK rank : rank = [s \in due |-> Nth(s)]
  OBVIOUS
<1>7. rank \in [due -> BillNos]
  BY <1>3, <1>5, <1>6, SalesAssumption DEF BillNos
<1>8. \A n \in BillNos : n <= Cardinality(due) <=> \E s \in due : rank[s] = n
  BY <1>3, <1>5, <1>6 DEF BillNos
<1>9. \A s \in due : bill'[rank[s]] = StageBill(s)
  <2> TAKE s \in due
  <2>1. rank[s] = Nth(s) /\ Nth(s) \in BillNos
    BY <1>6, <1>7
  <2>2. (CHOOSE t \in due : Nth(t) = Nth(s)) = s
    BY <1>3
  <2> QED
    BY <1>4, <2>1, <2>2
<1>10. \A n \in BillNos : (\A s \in due : rank[s] # n) => bill'[n] = NoBill
  BY <1>4, <1>6
<1>11. stage' = [s \in StagesOf |-> IF s \in due THEN [invoice |-> rank[s], stamped |-> TRUE]
                                    ELSE stage[s]]
  BY <1>4, <1>6
<1>12. DOMAIN bill' = BillNos
  BY <1>4
<1>13. \A s, t \in due : rank[s] = rank[t] => s = t
  BY <1>3, <1>6
<1>14. \E k \in 0..MaxInvoices : \A n \in BillNos : n <= k <=> \E s \in due : rank[s] = n
  BY <1>5, <1>8
<1>15. DueBilled(due, rank)
  BY <1>1, <1>9, <1>10, <1>11, <1>12, <1>13, <1>14 DEF DueBilled
<1> QED
  BY <1>2, <1>7, <1>15

--------------------------------------------------------------------------------
(* The types *)

LEMMA MoneyKinds ==
  /\ NoBill \notin Bill
  /\ \A x \in Bill : /\ x.state \in {"live", "void"} /\ x.amount \in Int /\ x.stage \in Nat
                     /\ x.note \in Notes \cup {"none"}
  /\ NoBilling \notin [at : {"read"}, note : Notes, earlier : Int]
BY DEF NoBill, Bill, NoBilling

(* The amounts are integers. *)
LEMMA AmountTypes ==
    ASSUME TermsOK, SalesTypeOK
    PROVE  /\ IsFiniteSet(BillNos) /\ IsFiniteSet(LiveBills)
           /\ \A n \in LiveBills : bill[n] \in Bill /\ AmountOf(n) \in Int
           /\ Billed \in Int
           /\ \A d \in NotesIn("DISPATCHED") : CarriedBy(d) \in Int
<1>1. IsFiniteSet(BillNos)
  BY SalesAssumption, FS_Interval DEF BillNos
<1>2. IsFiniteSet(LiveBills)
  BY <1>1, FS_Subset DEF LiveBills
<1>3. \A n \in LiveBills : bill[n] \in Bill /\ AmountOf(n) \in Int
  BY MoneyKinds, SalesKinds DEF SalesTypeOK, LiveBills, AmountOf
<1>4. Billed \in Int
  <2>1. [n \in LiveBills |-> AmountOf(n)] \in [LiveBills -> Int]
    BY <1>3
  <2>2. \A f \in [LiveBills -> Int] : SumFunction(f) \in Int
    BY <1>2, SumType
  <2> QED
    BY <2>1, <2>2 DEF Billed
<1>5. ASSUME NEW d \in NotesIn("DISPATCHED") PROVE CarriedBy(d) \in Int
  <2>1. note[d].qty \in Quantities
    BY SalesKinds DEF NotesIn, SalesTypeOK
  <2>2. \A l \in Items : note[d].qty[l] * Price[l] \in Int
    BY <2>1, SalesAssumption DEF Quantities
  <2>3. [l \in Items |-> note[d].qty[l] * Price[l]] \in [Items -> Int]
    BY <2>2
  <2>4. \A f \in [Items -> Int] : SumFunction(f) \in Int
    BY SumType, SalesAssumption
  <2> QED
    BY <2>3, <2>4 DEF CarriedBy
<1> QED
  BY <1>1, <1>2, <1>3, <1>4, <1>5

MoneyTypes ==
    /\ asked \subseteq StagesOf
    /\ stage \in [StagesOf -> [invoice : {0} \cup BillNos, stamped : BOOLEAN]]
    /\ bill \in [BillNos -> {NoBill} \cup Bill]
    /\ billing \in {NoBilling} \cup [at : {"read"}, note : Notes, earlier : Int]

LEMMA StageBillType ==
    ASSUME TermsOK, NEW s \in StagesOf
    PROVE  StageBill(s) \in Bill
BY StageAmountType, TermsFields DEF StageBill, Bill

LEMMA MoneyOfOrder ==
    ASSUME TermsOK, SalesTypeOK, OrderNext
    PROVE  MoneyTypes' /\ terms' = terms
<1>1. CASE ProvisionOrder
  <2>1. UNCHANGED <<terms, asked, billing>>
    BY <1>1 DEF ProvisionOrder
  <2>2. PICK due \in SUBSET StagesOf : \E rank \in [due -> BillNos] : DueBilled(due, rank)
    BY <1>1, Provisioned
  <2>3. PICK rank \in [due -> BillNos] :
              /\ \A s \in due : bill'[rank[s]] = StageBill(s)
              /\ \A n \in BillNos : (\A s \in due : rank[s] # n) => bill'[n] = NoBill
              /\ DOMAIN bill' = BillNos
              /\ stage' = [s \in StagesOf |-> IF s \in due THEN [invoice |-> rank[s], stamped |-> TRUE]
                                              ELSE stage[s]]
    BY <2>2 DEF DueBilled
  <2>4. \A n \in BillNos : bill'[n] \in {NoBill} \cup Bill
    BY <2>3, StageBillType
  <2>5. stage' \in [StagesOf -> [invoice : {0} \cup BillNos, stamped : BOOLEAN]]
    <3>1. \A s \in due : [invoice |-> rank[s], stamped |-> TRUE] \in [invoice : {0} \cup BillNos, stamped : BOOLEAN]
      BY <2>3
    <3> QED
      BY <2>3, <3>1 DEF SalesTypeOK
  <2>6. bill' \in [BillNos -> {NoBill} \cup Bill]
    <3> DEFINE b == bill'
    <3>0. b = [n \in BillNos |-> b[n]]
      (* A function, as ProvisionOrder writes it. *)
      BY <1>1 DEF ProvisionOrder
    <3>1. DOMAIN b = BillNos /\ \A n \in BillNos : b[n] \in {NoBill} \cup Bill
      BY <2>3, <2>4
    <3> HIDE DEF b
    <3>2. b \in [BillNos -> {NoBill} \cup Bill]
      BY <3>0, <3>1
    <3> QED
      BY <3>2 DEF b
  <2>7. StagesOf' = StagesOf
    BY <2>1 DEF StagesOf
  <2> QED
    BY <2>1, <2>5, <2>6, <2>7 DEF MoneyTypes, SalesTypeOK, BillNos
<1>2. CASE MarkFulfilled \/ Close \/ Cancel
  BY <1>2 DEF MarkFulfilled, Close, Cancel, billingVars, MoneyTypes, SalesTypeOK, StagesOf, BillNos
<1> QED
  BY <1>1, <1>2 DEF OrderNext

LEMMA MoneyOfBilling ==
    ASSUME TermsOK, OrderInv, SalesTypeOK, BillingNext
    PROVE  MoneyTypes' /\ terms' = terms
<1>0. /\ terms' = terms /\ StagesOf' = StagesOf
      /\ MoneyTypes' <=> /\ asked' \subseteq StagesOf
                         /\ stage' \in [StagesOf -> [invoice : {0} \cup BillNos, stamped : BOOLEAN]]
                         /\ bill' \in [BillNos -> {NoBill} \cup Bill]
                         /\ billing' \in {NoBilling} \cup [at : {"read"}, note : Notes, earlier : Int]
  <2>1. terms' = terms
    BY DEF BillingNext, AskForStage, RaiseStageInvoice, VoidOrderInvoice, StartInvoicing,
           InvoiceDelivery, InvoicingFails
  <2> QED
    BY <2>1 DEF StagesOf, MoneyTypes, BillNos
<1>m. MoneyTypes
  BY DEF MoneyTypes, SalesTypeOK
<1>1. ASSUME NEW s \in StagesOf, AskForStage(s) PROVE MoneyTypes'
  BY <1>0, <1>1, <1>m DEF AskForStage, MoneyTypes
<1>2. ASSUME NEW s \in StagesOf, RaiseStageInvoice(s) PROVE MoneyTypes'
  <2>1. asked' \subseteq StagesOf /\ billing' = billing
    BY <1>2, <1>m DEF RaiseStageInvoice, MoneyTypes
  <2>2. CASE UNCHANGED <<bill, stage>>
    BY <1>0, <1>m, <2>1, <2>2 DEF MoneyTypes
  <2>3. ASSUME NEW n \in BillNos, bill' = [bill EXCEPT ![n] = StageBill(s)],
               stage' = [stage EXCEPT ![s] = [invoice |-> n, stamped |-> TRUE]]
        PROVE  MoneyTypes'
    <3>1. StageBill(s) \in Bill /\ [invoice |-> n, stamped |-> TRUE]
                                     \in [invoice : {0} \cup BillNos, stamped : BOOLEAN]
      BY StageBillType
    <3> QED
      BY <1>0, <1>m, <2>1, <2>3, <3>1 DEF MoneyTypes
  <2> QED
    BY <1>2, <2>2, <2>3 DEF RaiseStageInvoice
<1>3. ASSUME NEW n \in BillNos, VoidOrderInvoice(n) PROVE MoneyTypes'
  <2>1. bill[n] \in Bill
    BY <1>3, SalesKinds DEF VoidOrderInvoice, SalesTypeOK
  <2>2. [[bill[n] EXCEPT !.state = "void"] EXCEPT !.stage = 0] \in Bill
    BY <2>1 DEF Bill
  <2>3. bill' \in [BillNos -> {NoBill} \cup Bill]
    BY <1>3, <1>m, <2>1, <2>2 DEF VoidOrderInvoice, MoneyTypes
  <2>4. stage' \in [StagesOf -> [invoice : {0} \cup BillNos, stamped : BOOLEAN]]
    BY <1>3, <1>m DEF VoidOrderInvoice, MoneyTypes
  <2> QED
    BY <1>0, <1>3, <1>m, <2>3, <2>4 DEF VoidOrderInvoice, MoneyTypes
<1>4. ASSUME NEW d \in Notes, StartInvoicing(d) PROVE MoneyTypes'
  BY <1>0, <1>4, <1>m, AmountTypes DEF StartInvoicing, MoneyTypes
<1>5. CASE InvoiceDelivery
  <2>1. /\ billing # NoBilling /\ billing.note \in Notes /\ billing.earlier \in Int
        /\ billing.note \in NotesIn("DISPATCHED")
    BY <1>5 DEF InvoiceDelivery, SalesTypeOK, OrderInv, BillingInv
  <2>2. DeliveryAmount(billing.note) \in Int
    BY <2>1, AmountTypes, TermsFields DEF DeliveryAmount, Remainder
  <2>3. [state |-> "live", amount |-> DeliveryAmount(billing.note), stage |-> 0, note |-> billing.note]
           \in Bill
    BY <2>1, <2>2 DEF Bill
  <2>4. bill' \in [BillNos -> {NoBill} \cup Bill]
    BY <1>5, <1>m, <2>3 DEF InvoiceDelivery, MoneyTypes
  <2>5. stage' \in [StagesOf -> [invoice : {0} \cup BillNos, stamped : BOOLEAN]]
    BY <1>5, <1>m DEF InvoiceDelivery, MoneyTypes
  <2> QED
    BY <1>0, <1>5, <1>m, <2>4, <2>5 DEF InvoiceDelivery, MoneyTypes
<1>6. CASE InvoicingFails
  BY <1>0, <1>6, <1>m DEF InvoicingFails, MoneyTypes
<1> QED
  BY <1>0, <1>1, <1>2, <1>3, <1>4, <1>5, <1>6 DEF BillingNext

(* The order and what has shipped. *)
LEMMA FulfilledType ==
    ASSUME OrderInv, SalesTypeOK, [SalesNext]_salesVars
    PROVE  (order \in DOMAIN NextStatus)' /\ (fulfilled \in Quantities)'
<1>0. order \in DOMAIN NextStatus /\ fulfilled \in Quantities
  BY DEF SalesTypeOK
<1>1. DOMAIN NextStatus = {"none", "OPEN", "IN_PRODUCTION", "FULFILLED", "CLOSED", "CANCELLED"}
      /\ DOMAIN NextStatus' = DOMAIN NextStatus /\ Quantities' = Quantities
  BY DEF NextStatus, Quantities
<1>2. CASE OrderNext
  BY <1>0, <1>1, <1>2, SalesAssumption
     DEF OrderNext, ProvisionOrder, MarkFulfilled, Close, Cancel, deliveryVars, Quantities
<1>3. CASE BillingNext \/ UNCHANGED salesVars
  BY <1>0, <1>1, <1>3
     DEF BillingNext, AskForStage, RaiseStageInvoice, VoidOrderInvoice, StartInvoicing,
         InvoiceDelivery, InvoicingFails, deliveryVars, salesVars
<1>4. CASE DeliveryNext
  <2>1. ASSUME NEW d \in Notes, Dispatch(d) PROVE order' \in DOMAIN NextStatus /\ fulfilled' \in Quantities
    <3>1. note[d].qty \in Quantities
      BY <2>1, SalesKinds DEF Dispatch, SalesTypeOK
    <3>2. \A l \in Items : fulfilled[l] + note[d].qty[l] \in Nat
      BY <1>0, <3>1 DEF Quantities
    <3> QED
      BY <1>0, <1>1, <2>1, <3>2 DEF Dispatch, Shipped, Quantities
  <2>2. ASSUME NEW d \in Notes, CancelNote(d) \/ \E qty \in Loads : CreateNote(d, qty)
        PROVE  UNCHANGED <<order, fulfilled>>
    BY <2>2 DEF CancelNote, CreateNote
  <2> QED
    BY <1>0, <1>1, <1>4, <2>1, <2>2 DEF DeliveryNext
<1>5. CASE ProductionNext
  <2>1. fulfilled' = fulfilled /\ order' \in {order, "IN_PRODUCTION", "OPEN"}
    BY <1>5 DEF ProductionNext, StartProduction, PlanWork, ReadOrder, PlanningFails, FinishPlanning,
         PutBack, PlannerCrashes, CreateWorkOrder, SkipLine, CancelWorkOrder, deliveryVars
  <2> QED
    BY <1>0, <1>1, <2>1
<1> QED
  BY <1>2, <1>3, <1>4, <1>5 DEF SalesNext

LEMMA StepSalesTypes ==
    TermsOK /\ SalesTypeOK /\ OrderInv /\ [SalesNext]_salesVars => TermsOK' /\ SalesTypeOK'
<1> SUFFICES ASSUME TermsOK, SalesTypeOK, OrderInv, [SalesNext]_salesVars
             PROVE  TermsOK' /\ SalesTypeOK'
  OBVIOUS
<1>1. RowsInv'
  BY OrderInvStep DEF OrderInv
<1>2. MoneyTypes' /\ terms' = terms
  <2>1. CASE DeliveryNext \/ ProductionNext \/ UNCHANGED salesVars
    <3>1. UNCHANGED <<terms, asked, stage, bill, billing>>
      BY <2>1 DEF DeliveryNext, Dispatch, CancelNote, CreateNote, ProductionNext, StartProduction,
         PlanWork, ReadOrder, PlanningFails, FinishPlanning, PutBack, PlannerCrashes,
         CreateWorkOrder, SkipLine, CancelWorkOrder, billingVars, salesVars
    <3> QED
      BY <3>1 DEF MoneyTypes, SalesTypeOK, StagesOf, BillNos
  <2> QED
    BY <2>1, MoneyOfOrder, MoneyOfBilling DEF SalesNext
<1>3. (order \in DOMAIN NextStatus)' /\ (fulfilled \in Quantities)'
  BY FulfilledType
<1> QED
  BY <1>1, <1>2, <1>3 DEF TermsOK, SalesTypeOK, MoneyTypes, RowsInv

LEMMA InitSalesTypes == SalesInit => TermsOK /\ SalesTypeOK
BY DEF SalesInit, TermsOK, SalesTypeOK, NextStatus, Quantities, BillNos

LEMMA SalesTypesAlways == SalesSpec => [](TermsOK /\ SalesTypeOK)
BY InitSalesTypes, StepSalesTypes, OrderAlways, PTL DEF SalesSpec

(* The rows of an order, and what the requests hold of it, keep their types.  *)
THEOREM SalesTypeCorrect == SalesSpec => []SalesTypeOK
BY SalesTypesAlways, PTL

--------------------------------------------------------------------------------
(* Billing in stages *)

(* Numbers are given out in order and never again, and there is nothing of an *)
(* order that is not placed.                                                  *)
NumbersInv ==
    /\ \E k \in 0..MaxInvoices : \A n \in BillNos : Used(n) <=> n <= k
    /\ order = "none" => /\ asked = {} /\ NotesIn("DISPATCHED") = {}
                         /\ \A n \in BillNos : ~ Used(n)
                         /\ \A s \in StagesOf : stage[s].invoice = 0

(* An order that is billed in stages: the live invoices and the stages that   *)
(* name one are the same pairs.                                               *)
StageInv ==
    ~ PerDelivery =>
        /\ billing = NoBilling
        /\ \A n \in LiveBills : /\ bill[n].stage \in StagesOf /\ stage[bill[n].stage].invoice = n
                                /\ bill[n].amount = StageAmount(bill[n].stage)
        /\ \A s \in StagesOf : stage[s].invoice # 0 =>
              /\ stage[s].invoice \in LiveBills
              /\ bill[stage[s].invoice].stage = s

LEMMA NextIsFree ==
    ASSUME NumbersInv, NextNumber \in BillNos
    PROVE  /\ ~ Used(NextNumber)
           /\ \A n \in BillNos : Used(n) \/ n = NextNumber <=> n <= NextNumber
<1>1. PICK k \in 0..MaxInvoices : \A n \in BillNos : Used(n) <=> n <= k
  BY DEF NumbersInv
<1>2. {n \in BillNos : bill[n] # NoBill} = 1..k
  BY <1>1, SalesAssumption DEF Used, BillNos
<1>3. Cardinality(1..k) = k
  BY SalesAssumption, FS_Interval
<1>4. NextNumber = k + 1
  <2>1. NextNumber = 1 + Cardinality({n \in BillNos : bill[n] # NoBill})
    BY DEF NextNumber
  <2>2. Cardinality({n \in BillNos : bill[n] # NoBill}) = Cardinality(1..k)
    BY <1>2
  <2> QED
    BY <1>3, <2>1, <2>2
<1> QED
  BY <1>1, <1>4 DEF BillNos

(* The order is placed, or nothing of it changes. *)
LEMMA NumbersOfMoves ==
    ASSUME TermsOK, NumbersInv, UNCHANGED terms,
           \A n \in BillNos : Used(n)' <=> Used(n),
           order' # "none"
    PROVE  NumbersInv'
<1>1. BillNos' = BillNos
  BY DEF BillNos
<1>2. PICK k \in 0..MaxInvoices : \A n \in BillNos : Used(n) <=> n <= k
  BY DEF NumbersInv
<1> QED
  BY <1>1, <1>2 DEF NumbersInv

LEMMA NumbersOfNext ==
    ASSUME NumbersInv, NextNumber \in BillNos, DOMAIN bill = BillNos, order' # "none",
           NEW b, b # NoBill, bill' = [bill EXCEPT ![NextNumber] = b]
    PROVE  NumbersInv'
<1>1. \A n \in BillNos : Used(n)' <=> n <= NextNumber
  BY NextIsFree DEF Used
<1>2. NextNumber \in 0..MaxInvoices /\ BillNos' = BillNos
  BY SalesAssumption DEF BillNos
<1>3. PICK k \in 0..MaxInvoices : k = NextNumber
  BY <1>2
<1> QED
  BY <1>1, <1>2, <1>3 DEF NumbersInv

LEMMA StageBillKind ==
    \A s : StageBill(s) # NoBill /\ StageBill(s).state = "live" /\ StageBill(s).note = "none"
           /\ StageBill(s).stage = s /\ StageBill(s).amount = StageAmount(s)
BY DEF StageBill, NoBill

LEMMA StepNumbers ==
    TermsOK /\ SalesTypeOK /\ OrderInv /\ NumbersInv /\ [SalesNext]_salesVars => NumbersInv'
<1> SUFFICES ASSUME TermsOK, SalesTypeOK, OrderInv, NumbersInv, [SalesNext]_salesVars
             PROVE  NumbersInv'
  OBVIOUS
<1>b. DOMAIN bill = BillNos /\ \A n \in BillNos : bill[n].state = "live" => Used(n)
  BY SalesKinds DEF SalesTypeOK, Used
<1>1. CASE OrderNext
  <2>1. CASE ProvisionOrder
    <3>1. PICK due \in SUBSET StagesOf : \E rank \in [due -> BillNos] : DueBilled(due, rank)
      BY <2>1, Provisioned
    <3>p. PICK rank \in [due -> BillNos] : DueBilled(due, rank)
      BY <3>1
    <3>2. PICK k \in 0..MaxInvoices :
              /\ \A n \in BillNos : n <= k <=> \E s \in due : rank[s] = n
              /\ \A s \in due : bill'[rank[s]] = StageBill(s)
              /\ \A n \in BillNos : (\A s \in due : rank[s] # n) => bill'[n] = NoBill
      BY <3>p DEF DueBilled
    <3>3. \A n \in BillNos : Used(n)' <=> n <= k
      BY <3>2, StageBillKind DEF Used, NoBill
    <3>4. order' # "none" /\ BillNos' = BillNos
      BY <2>1 DEF ProvisionOrder, BillNos
    <3> QED
      BY <3>3, <3>4 DEF NumbersInv
  <2>2. CASE MarkFulfilled \/ Close \/ Cancel
    <3>1. UNCHANGED <<terms, bill>> /\ order' # "none"
      BY <2>2 DEF MarkFulfilled, Close, Cancel, billingVars
    <3> QED
      BY <3>1, NumbersOfMoves DEF Used, NoBill
  <2> QED
    BY <1>1, <2>1, <2>2 DEF OrderNext
<1>2. CASE BillingNext
  <2>1. CASE order = "none"
    <3>1. asked = {} /\ billing = NoBilling /\ \A n \in BillNos : ~ Used(n)
      BY <2>1 DEF NumbersInv, OrderInv, BillingInv
    <3>2. FALSE
      BY <1>2, <1>b, <2>1, <3>1 DEF BillingNext, AskForStage, RaiseStageInvoice, VoidOrderInvoice,
         StartInvoicing, InvoiceDelivery, InvoicingFails, NumbersInv, NotesIn
    <3> QED
      BY <3>2
  <2>2. CASE order # "none"
    <3>0. order' # "none" /\ terms' = terms
      BY <1>2, <2>2 DEF BillingNext, AskForStage, RaiseStageInvoice, VoidOrderInvoice,
         StartInvoicing, InvoiceDelivery, InvoicingFails
    <3>1. ASSUME NEW s \in StagesOf, RaiseStageInvoice(s) PROVE NumbersInv'
      <4>1. CASE UNCHANGED bill
        BY <3>0, <4>1, NumbersOfMoves DEF Used, NoBill
      <4>2. CASE NextNumber \in BillNos /\ bill' = [bill EXCEPT ![NextNumber] = StageBill(s)]
        BY <1>b, <3>0, <4>2, StageBillKind, NumbersOfNext
      <4> QED
        BY <3>1, <4>1, <4>2 DEF RaiseStageInvoice
    <3>2. CASE InvoiceDelivery
      <4> DEFINE b == [state |-> "live", amount |-> DeliveryAmount(billing.note), stage |-> 0,
                       note |-> billing.note]
      <4>1. NextNumber \in BillNos /\ bill' = [bill EXCEPT ![NextNumber] = b]
        BY <3>2 DEF InvoiceDelivery
      <4>2. b # NoBill
        BY DEF NoBill
      <4> HIDE DEF b
      <4> QED
        BY <1>b, <3>0, <4>1, <4>2, NumbersOfNext
    <3>3. ASSUME NEW n \in BillNos, VoidOrderInvoice(n) PROVE NumbersInv'
      <4>1. bill[n] \in Bill /\ [[bill[n] EXCEPT !.state = "void"] EXCEPT !.stage = 0] # NoBill
        BY <3>3, SalesKinds DEF VoidOrderInvoice, SalesTypeOK, Bill, NoBill
      <4>2. \A m \in BillNos : Used(m)' <=> Used(m)
        BY <1>b, <3>3, <4>1, MoneyKinds DEF VoidOrderInvoice, Used
      <4> QED
        BY <3>0, <4>2, NumbersOfMoves
    <3>4. CASE UNCHANGED bill
      BY <3>0, <3>4, NumbersOfMoves DEF Used, NoBill
    <3> QED
      BY <1>2, <3>1, <3>2, <3>3, <3>4 DEF BillingNext, AskForStage, StartInvoicing, InvoicingFails
  <2> QED
    BY <2>1, <2>2
<1>3. CASE DeliveryNext \/ ProductionNext \/ UNCHANGED salesVars
  <2>1. UNCHANGED <<terms, asked, stage, bill, billing>>
    BY <1>3 DEF DeliveryNext, Dispatch, CancelNote, CreateNote, ProductionNext, StartProduction,
         PlanWork, ReadOrder, PlanningFails, FinishPlanning, PutBack, PlannerCrashes,
         CreateWorkOrder, SkipLine, CancelWorkOrder, billingVars, salesVars
  <2>2. CASE order' # "none"
    BY <2>1, <2>2, NumbersOfMoves DEF Used, NoBill
  <2>3. CASE order' = "none"
    <3>1. order = "none"
      BY <1>3, <2>3 DEF DeliveryNext, Dispatch, CancelNote, CreateNote, ProductionNext,
         StartProduction, PlanWork, ReadOrder, PlanningFails, FinishPlanning, PutBack,
         PlannerCrashes, CreateWorkOrder, SkipLine, CancelWorkOrder, salesVars
    <3>2. NotesIn("DISPATCHED")' = {}
      <4>1. NotesIn("DISPATCHED") = {}
        BY <3>1 DEF NumbersInv
      <4>2. CASE ProductionNext \/ UNCHANGED salesVars
        <5>1. note' = note
          BY <4>2 DEF ProductionNext, StartProduction, PlanWork, ReadOrder, PlanningFails,
            FinishPlanning, PutBack, PlannerCrashes, CreateWorkOrder, SkipLine, CancelWorkOrder,
            deliveryVars, salesVars
        <5> QED
          BY <4>1, <5>1 DEF NotesIn
      <4>3. ASSUME NEW d \in Notes, CancelNote(d) PROVE NotesIn("DISPATCHED")' = {}
        <5>1. \A e \in Notes : note'[e].status = "DISPATCHED" => note[e].status = "DISPATCHED"
          BY <4>3, SalesKinds DEF CancelNote, SalesTypeOK, Note
        <5> QED
          BY <4>1, <5>1 DEF NotesIn
      <4> QED
        BY <1>3, <3>1, <4>2, <4>3 DEF DeliveryNext, Dispatch, CreateNote, Shippable
    <3>3. \A n \in BillNos : Used(n)' <=> Used(n)
      BY <2>1 DEF Used, NoBill
    <3> QED
      BY <2>1, <3>1, <3>2, <3>3 DEF NumbersInv, StagesOf, BillNos
  <2> QED
    BY <2>2, <2>3
<1> QED
  BY <1>1, <1>2, <1>3 DEF SalesNext

LEMMA InitNumbers == SalesInit => NumbersInv
<1> SUFFICES ASSUME SalesInit PROVE NumbersInv
  OBVIOUS
<1>1. /\ \A n \in BillNos : ~ Used(n)
      /\ NotesIn("DISPATCHED") = {} /\ asked = {} /\ \A s \in StagesOf : stage[s].invoice = 0
  BY SalesKinds DEF SalesInit, Used, NotesIn
<1>2. 0 \in 0..MaxInvoices /\ \A n \in BillNos : ~ (n <= 0)
  BY SalesAssumption DEF BillNos
<1> QED
  BY <1>1, <1>2 DEF NumbersInv

(* One more stage gets an invoice. *)
LEMMA StageOfNext ==
    ASSUME TermsOK, SalesTypeOK, NumbersInv, StageInv, UNCHANGED <<terms, billing>>,
           NEW s \in StagesOf, stage[s].invoice = 0, NextNumber \in BillNos,
           bill' = [bill EXCEPT ![NextNumber] = StageBill(s)],
           stage' = [stage EXCEPT ![s] = [invoice |-> NextNumber, stamped |-> TRUE]]
    PROVE  StageInv'
<1> SUFFICES ASSUME ~ PerDelivery PROVE StageInv'
  BY DEF StageInv, PerDelivery
<1>0. PICK k \in BillNos : k = NextNumber
  OBVIOUS
<1>1. ~ Used(k) /\ k \notin LiveBills
  BY <1>0, NextIsFree, SalesKinds DEF Used, LiveBills
<1>2. DOMAIN bill = BillNos /\ DOMAIN stage = StagesOf /\ k # 0
  BY SalesAssumption DEF SalesTypeOK, BillNos
<1>3. /\ bill'[k] = StageBill(s) /\ stage'[s].invoice = k
      /\ \A n \in BillNos \ {k} : bill'[n] = bill[n]
      /\ \A t \in StagesOf \ {s} : stage'[t] = stage[t]
  BY <1>0, <1>2
<1>4. /\ StagesOf' = StagesOf /\ BillNos' = BillNos
      /\ \A t \in StagesOf : StageAmount(t)' = StageAmount(t)
  BY DEF StagesOf, BillNos, StageAmount, Share
<1>5. LiveBills' = LiveBills \cup {k}
  BY <1>3, <1>4, StageBillKind DEF LiveBills
<1>6. /\ \A n \in LiveBills : /\ bill[n].stage \in StagesOf /\ stage[bill[n].stage].invoice = n
                              /\ bill[n].amount = StageAmount(bill[n].stage)
      /\ \A t \in StagesOf : stage[t].invoice # 0 =>
              stage[t].invoice \in LiveBills /\ bill[stage[t].invoice].stage = t
  BY DEF StageInv
<1>7. ASSUME NEW n \in LiveBills'
      PROVE  /\ bill'[n].stage \in StagesOf /\ stage'[bill'[n].stage].invoice = n
             /\ bill'[n].amount = StageAmount(bill'[n].stage)
  <2>1. CASE n = k
    BY <1>3, <2>1, StageBillKind
  <2>2. CASE n # k
    <3>1. n \in LiveBills /\ bill'[n] = bill[n] /\ n # 0
      BY <1>3, <1>5, <2>2 DEF LiveBills, BillNos
    <3>2. bill[n].stage # s
      BY <1>6, <3>1
    <3> QED
      BY <1>3, <1>6, <3>1, <3>2
  <2> QED
    BY <2>1, <2>2
<1>8. ASSUME NEW t \in StagesOf, stage'[t].invoice # 0
      PROVE  stage'[t].invoice \in LiveBills' /\ bill'[stage'[t].invoice].stage = t
  <2>1. CASE t = s
    BY <1>3, <1>5, <2>1, StageBillKind
  <2>2. CASE t # s
    BY <1>1, <1>3, <1>5, <1>6, <1>8, <2>2 DEF LiveBills
  <2> QED
    BY <2>1, <2>2
<1> QED
  BY <1>4, <1>7, <1>8 DEF StageInv

LEMMA StageOfVoid ==
    ASSUME TermsOK, SalesTypeOK, StageInv, NEW n \in BillNos, VoidOrderInvoice(n)
    PROVE  StageInv'
<1> SUFFICES ASSUME ~ PerDelivery PROVE StageInv'
  BY DEF StageInv, PerDelivery, VoidOrderInvoice
<1>1. /\ \A m \in LiveBills : /\ bill[m].stage \in StagesOf /\ stage[bill[m].stage].invoice = m
                              /\ bill[m].amount = StageAmount(bill[m].stage)
      /\ \A t \in StagesOf : stage[t].invoice # 0 =>
              stage[t].invoice \in LiveBills /\ bill[stage[t].invoice].stage = t
      /\ billing = NoBilling
  BY DEF StageInv
<1>2. n \in LiveBills /\ bill[n] \in Bill /\ UNCHANGED <<terms, billing>>
  BY SalesKinds DEF VoidOrderInvoice, LiveBills, SalesTypeOK
<1>3. PICK s \in StagesOf : s = bill[n].stage /\ stage[s].invoice = n /\ s # 0
  BY <1>1, <1>2 DEF StagesOf
<1>4. DOMAIN bill = BillNos /\ DOMAIN stage = StagesOf /\ n # 0
  BY SalesAssumption DEF SalesTypeOK, BillNos
<1>5. /\ stage' = [stage EXCEPT ![s] = [invoice |-> 0, stamped |-> FALSE]]
      /\ \A m \in BillNos \ {n} : bill'[m] = bill[m]
      /\ bill'[n].state = "void"
  BY <1>2, <1>3, <1>4 DEF VoidOrderInvoice, Bill
<1>6. /\ StagesOf' = StagesOf /\ BillNos' = BillNos
      /\ \A t \in StagesOf : StageAmount(t)' = StageAmount(t)
  BY <1>2 DEF StagesOf, BillNos, StageAmount, Share
<1>7. LiveBills' = LiveBills \ {n}
  BY <1>5, <1>6 DEF LiveBills
<1>8. ASSUME NEW m \in LiveBills'
      PROVE  /\ bill'[m].stage \in StagesOf /\ stage'[bill'[m].stage].invoice = m
             /\ bill'[m].amount = StageAmount(bill'[m].stage)
  <2>1. m \in LiveBills /\ m # n /\ bill'[m] = bill[m]
    BY <1>5, <1>7 DEF LiveBills
  <2>2. bill[m].stage # s
    BY <1>1, <1>3, <2>1
  <2> QED
    BY <1>1, <1>4, <1>5, <2>1, <2>2
<1>9. ASSUME NEW t \in StagesOf, stage'[t].invoice # 0
      PROVE  stage'[t].invoice \in LiveBills' /\ bill'[stage'[t].invoice].stage = t
  <2>1. t # s /\ stage'[t] = stage[t]
    BY <1>4, <1>5, <1>9
  <2>2. stage[t].invoice # n
    BY <1>1, <1>2, <1>3, <1>9, <2>1
  <2> QED
    BY <1>1, <1>5, <1>7, <1>9, <2>1, <2>2 DEF LiveBills
<1> QED
  BY <1>1, <1>2, <1>6, <1>8, <1>9 DEF StageInv

LEMMA StageOfApproval ==
    ASSUME TermsOK, SalesTypeOK, NumbersInv, StageInv, ProvisionOrder
    PROVE  StageInv'
<1> SUFFICES ASSUME ~ PerDelivery PROVE StageInv'
  BY DEF StageInv, PerDelivery, ProvisionOrder
<1>1. UNCHANGED <<terms, billing>> /\ billing = NoBilling /\ order = "none"
  BY DEF StageInv, ProvisionOrder
<1>2. \A s \in StagesOf : stage[s].invoice = 0
  BY <1>1 DEF NumbersInv
<1>3. PICK due \in SUBSET StagesOf : \E rank \in [due -> BillNos] : DueBilled(due, rank)
  BY Provisioned
<1>4. PICK rank \in [due -> BillNos] : DueBilled(due, rank)
  BY <1>3
<1>5. /\ StagesOf' = StagesOf /\ BillNos' = BillNos
      /\ \A t \in StagesOf : StageAmount(t)' = StageAmount(t)
  BY <1>1 DEF StagesOf, BillNos, StageAmount, Share
<1>6. /\ \A s, t \in due : rank[s] = rank[t] => s = t
      /\ \A s \in due : bill'[rank[s]] = StageBill(s)
      /\ \A n \in BillNos : (\A s \in due : rank[s] # n) => bill'[n] = NoBill
      /\ \A s \in due : stage'[s].invoice = rank[s]
      /\ \A s \in StagesOf \ due : stage'[s].invoice = 0
  BY <1>2, <1>4 DEF DueBilled
<1>7. ASSUME NEW n \in LiveBills' PROVE \E s \in due : rank[s] = n
  <2>1. n \in BillNos /\ bill'[n].state = "live"
    BY <1>5 DEF LiveBills
  <2>2. bill'[n] # NoBill
    BY <2>1, SalesKinds DEF NoBill
  <2> QED
    BY <1>6, <2>1, <2>2
<1>8. ASSUME NEW n \in LiveBills'
      PROVE  /\ bill'[n].stage \in StagesOf /\ stage'[bill'[n].stage].invoice = n
             /\ bill'[n].amount = StageAmount(bill'[n].stage)
  <2>1. PICK s \in due : rank[s] = n
    BY <1>7
  <2> QED
    BY <1>6, <2>1, StageBillKind
<1>9. ASSUME NEW t \in StagesOf, stage'[t].invoice # 0
      PROVE  stage'[t].invoice \in LiveBills' /\ bill'[stage'[t].invoice].stage = t
  <2>1. t \in due /\ stage'[t].invoice = rank[t] /\ rank[t] \in BillNos
    BY <1>6, <1>9
  <2>2. bill'[rank[t]].state = "live" /\ bill'[rank[t]].stage = t
    BY <1>6, <2>1, StageBillKind
  <2> QED
    BY <1>5, <2>1, <2>2 DEF LiveBills
<1> QED
  BY <1>1, <1>5, <1>8, <1>9 DEF StageInv

LEMMA StepStages ==
    TermsOK /\ SalesTypeOK /\ NumbersInv /\ StageInv /\ [SalesNext]_salesVars => StageInv'
<1> SUFFICES ASSUME TermsOK, SalesTypeOK, NumbersInv, StageInv, [SalesNext]_salesVars
             PROVE  StageInv'
  OBVIOUS
<1>1. CASE UNCHANGED <<terms, stage, bill, billing>>
  BY <1>1 DEF StageInv, PerDelivery, LiveBills, BillNos, StagesOf, StageAmount, Share
<1>2. CASE PerDelivery /\ UNCHANGED terms
  BY <1>2 DEF StageInv, PerDelivery
<1>3. ASSUME NEW s \in StagesOf, RaiseStageInvoice(s) PROVE StageInv'
  BY <1>1, <1>3, StageOfNext DEF RaiseStageInvoice
<1>4. ASSUME NEW d \in Notes, StartInvoicing(d) PROVE PerDelivery /\ UNCHANGED terms
  BY <1>4 DEF StartInvoicing
<1>5. ASSUME InvoiceDelivery \/ InvoicingFails PROVE PerDelivery /\ UNCHANGED terms
  BY <1>5 DEF InvoiceDelivery, InvoicingFails, StageInv
<1>6. ASSUME NEW s \in StagesOf, AskForStage(s) PROVE UNCHANGED <<terms, stage, bill, billing>>
  BY <1>6 DEF AskForStage
<1>7. CASE BillingNext
  BY <1>1, <1>2, <1>3, <1>4, <1>5, <1>6, <1>7, StageOfVoid DEF BillingNext
<1>8. CASE OrderNext
  <2>1. MarkFulfilled \/ Close \/ Cancel => UNCHANGED <<terms, stage, bill, billing>>
    BY DEF MarkFulfilled, Close, Cancel, billingVars
  <2> QED
    BY <1>1, <1>8, <2>1, StageOfApproval DEF OrderNext
<1>9. CASE DeliveryNext \/ ProductionNext \/ UNCHANGED salesVars
  <2>1. UNCHANGED <<terms, asked, stage, bill, billing>>
    BY <1>9 DEF DeliveryNext, Dispatch, CancelNote, CreateNote, ProductionNext, StartProduction,
         PlanWork, ReadOrder, PlanningFails, FinishPlanning, PutBack, PlannerCrashes,
         CreateWorkOrder, SkipLine, CancelWorkOrder, billingVars, salesVars
  <2> QED
    BY <1>1, <2>1
<1> QED
  BY <1>7, <1>8, <1>9 DEF SalesNext

LEMMA InitStages == SalesInit => StageInv
<1> SUFFICES ASSUME SalesInit PROVE StageInv
  OBVIOUS
<1>1. LiveBills = {} /\ billing = NoBilling /\ \A s \in StagesOf : stage[s].invoice = 0
  BY SalesKinds DEF SalesInit, LiveBills
<1> QED
  BY <1>1 DEF StageInv

(* What the stages say of the amounts. *)
LEMMA StagesBillExactly ==
    ASSUME TermsOK, SalesTypeOK, StageInv, ~ PerDelivery, LastStageCovers
    PROVE  BilledExactly
<1>1. /\ \A n \in LiveBills : /\ bill[n].stage \in StagesOf /\ stage[bill[n].stage].invoice = n
                              /\ bill[n].amount = StageAmount(bill[n].stage)
      /\ \A t \in StagesOf : stage[t].invoice # 0 =>
              stage[t].invoice \in LiveBills /\ bill[stage[t].invoice].stage = t
  BY DEF StageInv
<1>2. PICK Raised : Raised = LiveBills
  OBVIOUS
<1>3. PICK Of : Of = [n \in Raised |-> bill[n].stage]
  OBVIOUS
<1>4. PICK S : S = StagesOf
  OBVIOUS
<1>5. PICK T : T = {Of[n] : n \in Raised}
  OBVIOUS
<1>6. T \in SUBSET S /\ \A m, n \in Raised : Of[m] = Of[n] => m = n
  BY <1>1, <1>2, <1>3, <1>4, <1>5
<1>7. IsFiniteSet(S) /\ IsFiniteSet(Raised) /\ IsFiniteSet(T)
  BY <1>2, <1>4, <1>6, TermsFields, AmountTypes, FS_Subset
<1>8. PICK amount \in [Raised -> Int] : amount = [n \in LiveBills |-> AmountOf(n)]
  BY <1>2, AmountTypes
<1>9. PICK all \in [S -> Int] : all = [s \in StagesOf |-> StageAmount(s)]
  <2>1. [s \in S |-> StageAmount(s)] \in [S -> Int]
    BY <1>4, StageAmountType
  <2> QED
    BY <1>4, <2>1
<1>10. PICK billed \in [T -> Int] : billed = [s \in T |-> all[s]]
  BY <1>6
<1>11. PICK least \in [S -> Int] : least = [s \in S |-> IF s \in T THEN all[s] ELSE 0]
  <2>1. [s \in S |-> IF s \in T THEN all[s] ELSE 0] \in [S -> Int]
    BY <1>6
  <2> QED
    BY <2>1
<1>12. SumFunction(billed) = SumFunction(amount)
  <2>1. \A n \in Raised : billed[Of[n]] = amount[n]
    BY <1>1, <1>2, <1>3, <1>4, <1>5, <1>8, <1>9, <1>10 DEF AmountOf
  <2>2. \A g \in [{Of[x] : x \in Raised} -> Int] :
          (\A x \in Raised : g[Of[x]] = amount[x]) => SumFunction(g) = SumFunction(amount)
    BY <1>6, <1>7, SumRename
  <2>3. billed \in [{Of[x] : x \in Raised} -> Int]
    BY <1>5
  <2> QED
    BY <2>1, <2>2, <2>3
<1>13. SumFunction(least) = SumFunction(billed)
  <2>1. /\ \A x \in T : least[x] = billed[x]
        /\ \A x \in S \ T : least[x] = 0
    BY <1>6, <1>10, <1>11
  <2> QED
    BY <1>6, <1>7, <2>1, SumOfPart
<1>14. SumFunction(least) <= SumFunction(all)
  <2>1. \A x \in S : least[x] <= all[x]
    <3> TAKE x \in S
    <3>1. all[x] >= 0 /\ all[x] \in Int
      BY <1>4, <1>9, StagesArePositive
    <3> QED
      BY <1>11, <3>1
  <2> QED
    BY <1>7, <2>1, SumMonotone
<1>15. SumFunction(all) = terms.total /\ Billed = SumFunction(amount)
  BY <1>8, <1>9, StagesAddUp DEF Billed
<1>16. Billed <= terms.total
  BY <1>12, <1>13, <1>14, <1>15
<1>17. \A m, n \in LiveBills : m # n => bill[m].stage # bill[n].stage
  BY <1>1
<1>18. ASSUME \A s \in StagesOf : stage[s].invoice \in LiveBills PROVE Billed = terms.total
  <2>1. T = S
    <3>1. ASSUME NEW s \in S PROVE s \in T
      <4>1. stage[s].invoice \in Raised /\ stage[s].invoice # 0
        BY <1>2, <1>4, <1>18 DEF LiveBills, BillNos
      <4>2. Of[stage[s].invoice] = s
        BY <1>1, <1>3, <1>4, <4>1
      <4> QED
        BY <1>5, <4>1, <4>2
    <3> QED
      BY <1>6, <3>1
  <2>2. billed = all
    BY <1>10, <2>1
  <2> QED
    BY <1>12, <1>15, <2>2
<1> QED
  BY <1>16, <1>17, <1>18 DEF BilledExactly

--------------------------------------------------------------------------------
(* Billing by deliveries *)

(* An order that is billed by its deliveries: a delivery gets at most one     *)
(* invoice ever, the invoices do not exceed the total, and come to all of it  *)
(* when everything has shipped and has one.  What a request read of the       *)
(* earlier invoices is still so, unless one was voided since, whose delivery  *)
(* then has none.                                                             *)
InvoicedOnce ==
    /\ stage[1].invoice = 0
    /\ \A n \in BillNos : Used(n) =>
          bill[n].note \in NotesIn("DISPATCHED") /\ bill[n].stage = 0 /\ bill[n].amount > 0
    /\ \A m, n \in BillNos : Used(m) /\ Used(n) /\ bill[m].note = bill[n].note => m = n
LeftToInvoice == \E d \in NotesIn("DISPATCHED") : ~ Invoiced(d)
TotalInv ==
    /\ Billed <= terms.total
    /\ EverythingShipped /\ NotesIn("DISPATCHED") # {} => LeftToInvoice \/ Billed = terms.total
ReadInv ==
    billing # NoBilling =>
        /\ ~ Invoiced(billing.note) /\ Billed <= billing.earlier
        /\ billing.earlier <= terms.total
        /\ \/ Billed = billing.earlier
           \/ \E e \in NotesIn("DISPATCHED") \ {billing.note} : ~ Invoiced(e)
DeliveryInv == PerDelivery => InvoicedOnce /\ TotalInv /\ ReadInv

LEMMA PerDeliveryStage ==
    ASSUME TermsOK, PerDelivery
    PROVE  StagesOf = {1} /\ terms.schedule[1].trigger = "ON_DELIVERY"
BY DEF PerDelivery, StagesOf

LEMMA LiveIsUsed ==
    ASSUME SalesTypeOK, NEW n \in LiveBills
    PROVE  n \in BillNos /\ Used(n) /\ bill[n] \in Bill /\ bill[n].state = "live" /\ AmountOf(n) \in Int
BY MoneyKinds, SalesKinds DEF SalesTypeOK, LiveBills, Used, AmountOf

(* One more bill adds its amount. *)
LEMMA BilledMore ==
    ASSUME TermsOK, SalesTypeOK, NEW k \in BillNos, ~ Used(k),
           NEW b, b.state = "live", b.amount \in Int, bill' = [bill EXCEPT ![k] = b]
    PROVE  /\ LiveBills' = LiveBills \cup {k} /\ k \notin LiveBills
           /\ Billed' = Billed + b.amount
<1>1. DOMAIN bill = BillNos /\ BillNos' = BillNos /\ k \notin LiveBills
  BY LiveIsUsed DEF SalesTypeOK, BillNos
<1>2. LiveBills' = LiveBills \cup {k} /\ bill'[k] = b
      /\ \A n \in LiveBills : bill'[n] = bill[n]
  BY <1>1 DEF LiveBills
<1>3. PICK S : S = LiveBills
  OBVIOUS
<1>4. IsFiniteSet(S) /\ k \notin S /\ \A n \in S : AmountOf(n) \in Int
  BY <1>1, <1>3, AmountTypes
<1>5. PICK f \in [S -> Int] : f = [n \in S |-> AmountOf(n)]
  BY <1>4
<1>6. PICK g \in [S \cup {k} -> Int] : g = [n \in S \cup {k} |-> AmountOf(n)']
  <2>1. \A n \in S \cup {k} : AmountOf(n)' \in Int
    BY <1>2, <1>3, <1>4 DEF AmountOf
  <2>2. [n \in S \cup {k} |-> AmountOf(n)'] \in [S \cup {k} -> Int]
    BY <2>1
  <2> QED
    BY <2>2
<1>7. \A n \in S : g[n] = f[n]
  BY <1>2, <1>3, <1>5, <1>6 DEF AmountOf
<1>8. SumFunction(g) = SumFunction(f) + g[k]
  <2>1. \A p \in [S -> Int], q \in [S \cup {k} -> Int] :
           (\A n \in S : q[n] = p[n]) => SumFunction(q) = SumFunction(p) + q[k]
    BY <1>4, SumExtend
  <2> QED
    BY <1>7, <2>1
<1>9. g[k] = b.amount
  BY <1>2, <1>6 DEF AmountOf
<1>10. SumFunction(f) = Billed /\ SumFunction(g) = Billed'
  <2>1. Billed' = SumFunction([n \in LiveBills' |-> AmountOf(n)'])
    BY DEF Billed
  <2> QED
    BY <1>2, <1>3, <1>5, <1>6, <2>1 DEF Billed
<1> QED
  BY <1>1, <1>2, <1>8, <1>9, <1>10

(* A voided bill takes its amount away. *)
LEMMA BilledLess ==
    ASSUME TermsOK, SalesTypeOK, NEW k \in LiveBills,
           NEW b, b.state = "void", bill' = [bill EXCEPT ![k] = b]
    PROVE  /\ LiveBills' = LiveBills \ {k}
           /\ Billed' = Billed - bill[k].amount
<1>1. DOMAIN bill = BillNos /\ BillNos' = BillNos /\ k \in BillNos
  BY DEF SalesTypeOK, BillNos, LiveBills
<1>2. LiveBills' = LiveBills \ {k} /\ \A n \in LiveBills \ {k} : bill'[n] = bill[n]
  BY <1>1 DEF LiveBills
<1>3. PICK S : S = LiveBills \ {k}
  OBVIOUS
<1>4. IsFiniteSet(S) /\ k \notin S /\ S \cup {k} = LiveBills /\ \A n \in S \cup {k} : AmountOf(n) \in Int
  BY <1>3, AmountTypes, FS_Subset
<1>5. PICK f \in [S -> Int] : f = [n \in S |-> AmountOf(n)]
  BY <1>4
<1>6. PICK g \in [S \cup {k} -> Int] : g = [n \in S \cup {k} |-> AmountOf(n)]
  <2>1. [n \in S \cup {k} |-> AmountOf(n)] \in [S \cup {k} -> Int]
    BY <1>4
  <2> QED
    BY <2>1
<1>7. \A n \in S : g[n] = f[n]
  BY <1>5, <1>6
<1>8. SumFunction(g) = SumFunction(f) + g[k]
  <2>1. \A p \in [S -> Int], q \in [S \cup {k} -> Int] :
           (\A n \in S : q[n] = p[n]) => SumFunction(q) = SumFunction(p) + q[k]
    BY <1>4, SumExtend
  <2> QED
    BY <1>7, <2>1
<1>9. g[k] = bill[k].amount /\ g[k] \in Int
  BY <1>6 DEF AmountOf
<1>10. SumFunction(g) = Billed /\ SumFunction(f) = Billed'
  <2>1. Billed' = SumFunction([n \in LiveBills' |-> AmountOf(n)'])
    BY DEF Billed
  <2>2. [n \in S |-> AmountOf(n)] = [n \in S |-> AmountOf(n)']
    BY <1>2, <1>3 DEF AmountOf
  <2> QED
    BY <1>2, <1>3, <1>4, <1>5, <1>6, <2>1, <2>2 DEF Billed
<1>11. SumFunction(f) \in Int
  BY <1>4, SumType
<1> QED
  BY <1>2, <1>8, <1>9, <1>10, <1>11

(* Nothing of the bills changes, and nothing ships. *)
LEMMA DeliveryOfMoves ==
    ASSUME DeliveryInv, UNCHANGED <<terms, stage, bill, billing>>,
           NotesIn("DISPATCHED")' = NotesIn("DISPATCHED"),
           NotesIn("DISPATCHED") # {} => fulfilled' = fulfilled
    PROVE  DeliveryInv'
<1> SUFFICES ASSUME PerDelivery PROVE DeliveryInv'
  BY DEF DeliveryInv, PerDelivery
<1>1. InvoicedOnce /\ TotalInv /\ ReadInv
  BY DEF DeliveryInv
<1>2. /\ LiveBills' = LiveBills /\ Billed' = Billed /\ BillNos' = BillNos
      /\ \A n \in BillNos : Used(n)' <=> Used(n)
      /\ \A d : Invoiced(d)' <=> Invoiced(d)
  BY DEF LiveBills, Billed, BillNos, Used, NoBill, Invoiced, AmountOf
<1>3. NotesIn("DISPATCHED") # {} => (EverythingShipped' <=> EverythingShipped)
  BY DEF EverythingShipped
<1>4. InvoicedOnce'
  BY <1>1, <1>2 DEF InvoicedOnce
<1>5. TotalInv'
  BY <1>1, <1>2, <1>3 DEF TotalInv, LeftToInvoice
<1>6. ReadInv'
  BY <1>1, <1>2 DEF ReadInv, NoBilling
<1> QED
  BY <1>4, <1>5, <1>6 DEF DeliveryInv

(* A note that has shipped and has no bill. *)
LEMMA DeliveryOfDispatch ==
    ASSUME SalesTypeOK, DeliveryInv, NEW d \in Notes, Dispatch(d)
    PROVE  DeliveryInv'
<1> SUFFICES ASSUME PerDelivery PROVE DeliveryInv'
  BY DEF DeliveryInv, PerDelivery, Dispatch, billingVars
<1>1. InvoicedOnce /\ TotalInv /\ ReadInv
  BY DEF DeliveryInv
<1>0. UNCHANGED <<terms, stage, bill, billing>> /\ billing = NoBilling
      /\ note[d].status = "DRAFT" /\ note' = [note EXCEPT ![d].status = "DISPATCHED"]
  BY DEF Dispatch, billingVars, OrderIsFree
<1>2. /\ LiveBills' = LiveBills /\ Billed' = Billed /\ BillNos' = BillNos
      /\ \A n \in BillNos : Used(n)' <=> Used(n)
      /\ \A e : Invoiced(e)' <=> Invoiced(e)
  BY <1>0 DEF LiveBills, Billed, BillNos, Used, NoBill, Invoiced, AmountOf
<1>3. /\ NotesIn("DISPATCHED") \subseteq NotesIn("DISPATCHED")' /\ d \in NotesIn("DISPATCHED")'
      /\ d \notin NotesIn("DISPATCHED")
  BY <1>0, SalesKinds DEF NotesIn, SalesTypeOK, Note
<1>4. ~ Invoiced(d)
  BY <1>1, <1>3, LiveIsUsed DEF Invoiced, InvoicedOnce
<1>5. InvoicedOnce'
  BY <1>0, <1>1, <1>2, <1>3 DEF InvoicedOnce
<1>6. TotalInv'
  BY <1>0, <1>1, <1>2, <1>3, <1>4 DEF TotalInv, LeftToInvoice
<1>7. ReadInv'
  BY <1>0 DEF ReadInv, NoBilling
<1> QED
  BY <1>5, <1>6, <1>7 DEF DeliveryInv

LEMMA DeliveryOfVoid ==
    ASSUME TermsOK, SalesTypeOK, DeliveryInv, NEW n \in BillNos, VoidOrderInvoice(n)
    PROVE  DeliveryInv'
<1> SUFFICES ASSUME PerDelivery PROVE DeliveryInv'
  BY DEF DeliveryInv, PerDelivery, VoidOrderInvoice
<1>1. InvoicedOnce /\ TotalInv /\ ReadInv
  BY DEF DeliveryInv
<1>2. /\ n \in LiveBills /\ UNCHANGED <<terms, billing, note, fulfilled>>
  BY DEF VoidOrderInvoice, LiveBills, deliveryVars
<1>3. PICK old \in Bill : old = bill[n] /\ old.state = "live" /\ Used(n)
  BY <1>2, LiveIsUsed
<1>4. old.stage = 0 /\ old.note \in NotesIn("DISPATCHED") /\ old.amount > 0 /\ old.amount \in Int
  BY <1>1, <1>3, MoneyKinds DEF InvoicedOnce
<1>5. PICK new \in Bill : /\ new.state = "void" /\ new.note = old.note /\ new.stage = 0
                          /\ new.amount = old.amount /\ bill' = [bill EXCEPT ![n] = new]
  <2>1. [[old EXCEPT !.state = "void"] EXCEPT !.stage = 0] \in Bill
    BY DEF Bill
  <2>2. PICK new \in Bill : new = [[old EXCEPT !.state = "void"] EXCEPT !.stage = 0]
    BY <2>1
  <2>3. new.state = "void" /\ new.note = old.note /\ new.stage = 0 /\ new.amount = old.amount
    BY <2>2 DEF Bill
  <2>4. bill' = [bill EXCEPT ![n] = new]
    BY <1>3, <2>2 DEF VoidOrderInvoice, SalesTypeOK
  <2> QED
    BY <2>3, <2>4
<1>6. stage' = stage
  BY <1>3, <1>4 DEF VoidOrderInvoice
<1>7. LiveBills' = LiveBills \ {n} /\ Billed' = Billed - old.amount /\ Billed \in Int
  BY <1>2, <1>3, <1>5, BilledLess, AmountTypes
<1>8. /\ DOMAIN bill = BillNos /\ BillNos' = BillNos /\ NotesIn("DISPATCHED")' = NotesIn("DISPATCHED")
      /\ bill'[n] = new /\ \A m \in BillNos \ {n} : bill'[m] = bill[m]
      /\ (EverythingShipped' <=> EverythingShipped)
  BY <1>2, <1>5 DEF BillNos, NotesIn, SalesTypeOK, EverythingShipped
<1>9. \A m \in BillNos : /\ Used(m)' <=> Used(m)
                         /\ bill'[m].note = bill[m].note /\ bill'[m].amount = bill[m].amount
                         /\ Used(m) => bill'[m].stage = 0
  <2>1. new # NoBill
    BY MoneyKinds
  <2> QED
    BY <1>1, <1>3, <1>5, <1>8, <2>1 DEF Used, NoBill, InvoicedOnce
<1>10. InvoicedOnce'
  BY <1>1, <1>6, <1>8, <1>9 DEF InvoicedOnce
<1>11. \A e : Invoiced(e)' => Invoiced(e)
  BY <1>7, <1>9 DEF Invoiced, LiveBills
<1>12. ~ Invoiced(old.note)'
  <2>1. \A m \in LiveBills' : m \in BillNos /\ m # n /\ Used(m)
    BY <1>7, LiveIsUsed
  <2> QED
    BY <1>1, <1>3, <1>9, <2>1 DEF Invoiced, InvoicedOnce
<1>13. TotalInv'
  <2>1. Billed' <= terms.total
    <3>1. terms.total \in Int
      BY TermsFields
    <3> QED
      BY <1>1, <1>4, <1>7, <3>1 DEF TotalInv
  <2> QED
    BY <1>2, <1>4, <1>8, <1>12, <2>1 DEF TotalInv, LeftToInvoice
<1>14. ReadInv'
  <2> SUFFICES ASSUME billing # NoBilling PROVE ReadInv'
    BY <1>2 DEF ReadInv, NoBilling
  <2>1. /\ ~ Invoiced(billing.note) /\ Billed <= billing.earlier /\ billing.earlier \in Int
        /\ billing.earlier <= terms.total
    BY <1>1 DEF ReadInv, SalesTypeOK
  <2>2. old.note # billing.note
    BY <1>2, <1>3, <2>1 DEF Invoiced
  <2>3. Billed' <= billing.earlier
    BY <1>4, <1>7, <2>1
  <2> QED
    BY <1>2, <1>4, <1>8, <1>11, <1>12, <2>1, <2>2, <2>3 DEF ReadInv
<1> QED
  BY <1>10, <1>13, <1>14 DEF DeliveryInv

LEMMA DeliveryOfRead ==
    ASSUME TermsOK, SalesTypeOK, DeliveryInv, NEW d \in Notes, StartInvoicing(d)
    PROVE  DeliveryInv'
<1>1. InvoicedOnce /\ TotalInv
  BY DEF DeliveryInv, StartInvoicing
<1>2. /\ UNCHANGED <<terms, stage, bill, note, fulfilled>> /\ ~ Invoiced(d)
      /\ billing' = [at |-> "read", note |-> d, earlier |-> Billed]
  BY DEF StartInvoicing, deliveryVars
<1>3. /\ Billed' = Billed /\ BillNos' = BillNos
      /\ \A n \in BillNos : Used(n)' <=> Used(n)
      /\ \A e : Invoiced(e)' <=> Invoiced(e)
      /\ NotesIn("DISPATCHED")' = NotesIn("DISPATCHED")
      /\ (EverythingShipped' <=> EverythingShipped)
  BY <1>2 DEF LiveBills, Billed, BillNos, Used, NoBill, Invoiced, AmountOf, NotesIn, EverythingShipped
<1>4. InvoicedOnce' /\ TotalInv'
  BY <1>1, <1>2, <1>3 DEF InvoicedOnce, TotalInv, LeftToInvoice
<1>5. Billed \in Int /\ Billed <= terms.total
  BY <1>1, AmountTypes DEF TotalInv
<1>6. ReadInv'
  BY <1>2, <1>3, <1>5 DEF ReadInv
<1> QED
  BY <1>4, <1>6 DEF DeliveryInv

LEMMA DeliveryOfFailure ==
    ASSUME DeliveryInv, InvoicingFails
    PROVE  DeliveryInv'
<1> SUFFICES ASSUME PerDelivery PROVE DeliveryInv'
  BY DEF DeliveryInv, PerDelivery, InvoicingFails
<1>1. InvoicedOnce /\ TotalInv
  BY DEF DeliveryInv
<1>2. UNCHANGED <<terms, stage, bill, note, fulfilled>> /\ billing' = NoBilling
  BY DEF InvoicingFails, deliveryVars
<1>3. /\ Billed' = Billed /\ BillNos' = BillNos
      /\ \A n \in BillNos : Used(n)' <=> Used(n)
      /\ \A e : Invoiced(e)' <=> Invoiced(e)
      /\ NotesIn("DISPATCHED")' = NotesIn("DISPATCHED")
      /\ (EverythingShipped' <=> EverythingShipped)
  BY <1>2 DEF LiveBills, Billed, BillNos, Used, NoBill, Invoiced, AmountOf, NotesIn, EverythingShipped
<1>4. InvoicedOnce' /\ TotalInv'
  BY <1>1, <1>2, <1>3 DEF InvoicedOnce, TotalInv, LeftToInvoice
<1> QED
  BY <1>2, <1>4 DEF DeliveryInv, ReadInv, NoBilling

(* The invoice of a delivery. *)
LEMMA DeliveryOfInvoice ==
    ASSUME TermsOK, SalesTypeOK, OrderInv, NumbersInv, DeliveryInv, InvoiceDelivery
    PROVE  DeliveryInv'
<1> SUFFICES ASSUME PerDelivery PROVE DeliveryInv'
  BY DEF DeliveryInv, PerDelivery, InvoiceDelivery
<1>1. InvoicedOnce /\ TotalInv /\ ReadInv
  BY DEF DeliveryInv
<1>2. /\ billing # NoBilling /\ billing' = NoBilling /\ UNCHANGED <<terms, note, fulfilled>>
      /\ NextNumber \in BillNos
      /\ DeliveryAmount(billing.note) > 0 /\ ~ Indexed(billing.note)
  BY DEF InvoiceDelivery, deliveryVars
<1>3. PICK d \in Notes, k \in BillNos, amount \in Int :
         d = billing.note /\ k = NextNumber /\ amount = DeliveryAmount(d)
  <2>1. billing.note \in NotesIn("DISPATCHED") /\ billing.note \in Notes /\ billing.earlier \in Int
    BY <1>2 DEF OrderInv, BillingInv, SalesTypeOK
  <2>2. DeliveryAmount(billing.note) \in Int
    BY <2>1, AmountTypes, TermsFields DEF DeliveryAmount, Remainder
  <2> QED
    BY <1>2, <2>1, <2>2
<1>4. d \in NotesIn("DISPATCHED") /\ amount > 0 /\ ~ Used(k)
  BY <1>2, <1>3, NextIsFree DEF OrderInv, BillingInv
<1>5. PICK b : b = [state |-> "live", amount |-> amount, stage |-> 0, note |-> d]
  OBVIOUS
<1>6. bill' = [bill EXCEPT ![k] = b] /\ b # NoBill
  BY <1>3, <1>5 DEF InvoiceDelivery, NoBill
<1>7. /\ LiveBills' = LiveBills \cup {k} /\ k \notin LiveBills /\ Billed' = Billed + amount
      /\ Billed \in Int
  <2>1. b.state = "live" /\ b.amount = amount
    BY <1>5
  <2>2. LiveBills' = LiveBills \cup {k} /\ k \notin LiveBills /\ Billed' = Billed + b.amount
    BY <1>4, <1>6, <2>1, BilledMore
  <2> QED
    BY <2>1, <2>2, AmountTypes
<1>8. /\ DOMAIN bill = BillNos /\ BillNos' = BillNos /\ NotesIn("DISPATCHED")' = NotesIn("DISPATCHED")
      /\ bill'[k] = b /\ \A m \in BillNos \ {k} : bill'[m] = bill[m]
      /\ (EverythingShipped' <=> EverythingShipped)
  BY <1>2, <1>6 DEF BillNos, NotesIn, SalesTypeOK, EverythingShipped
<1>9. stage'[1].invoice = 0
  BY <1>1, PerDeliveryStage DEF InvoiceDelivery, InvoicedOnce, SalesTypeOK
<1>10. InvoicedOnce'
  <2>1. \A n \in BillNos : Used(n)' <=> Used(n) \/ n = k
    BY <1>6, <1>8 DEF Used, NoBill
  <2>2. \A n \in BillNos : Used(n) => bill[n].note # d /\ n # k
    BY <1>2, <1>3, <1>4 DEF Used, Indexed
  <2> QED
    BY <1>1, <1>4, <1>5, <1>8, <1>9, <2>1, <2>2 DEF InvoicedOnce
<1>11. \A e : Invoiced(e)' <=> Invoiced(e) \/ e = d
  <2>1. bill'[k].note = d
    BY <1>5, <1>8
  <2> QED
    BY <1>7, <1>8, <2>1 DEF Invoiced, LiveBills
<1>12. /\ Billed <= billing.earlier /\ billing.earlier <= terms.total
       /\ billing.earlier \in Int /\ terms.total \in Int
       /\ \/ Billed = billing.earlier
          \/ \E e \in NotesIn("DISPATCHED") \ {d} : ~ Invoiced(e)
  BY <1>1, <1>2, <1>3, TermsFields DEF ReadInv, SalesTypeOK
<1>13. /\ amount <= terms.total - billing.earlier
       /\ Completes(d) => amount = terms.total - billing.earlier
  <2>1. CarriedBy(d) \in Int
    BY <1>4, AmountTypes
  <2> QED
    BY <1>3, <1>12, <2>1 DEF DeliveryAmount, Remainder
<1>14. Billed' <= terms.total
  BY <1>7, <1>12, <1>13
<1>15. ASSUME EverythingShipped, \A e \in NotesIn("DISPATCHED") : Invoiced(e)'
       PROVE  Billed' = terms.total
  <2>1. \A e \in NotesIn("DISPATCHED") \ {d} : Invoiced(e)
    BY <1>11, <1>15
  <2>2. Completes(d)
    BY <1>15, <2>1 DEF Completes
  <2>3. Billed = billing.earlier
    BY <1>12, <2>1
  <2> QED
    BY <1>7, <1>12, <1>13, <2>2, <2>3
<1>16. TotalInv'
  BY <1>2, <1>8, <1>14, <1>15 DEF TotalInv, LeftToInvoice
<1> QED
  BY <1>2, <1>10, <1>16 DEF DeliveryInv, ReadInv, NoBilling

LEMMA DeliveryOfApproval ==
    ASSUME TermsOK, SalesTypeOK, NumbersInv, DeliveryInv, ProvisionOrder
    PROVE  DeliveryInv'
<1> SUFFICES ASSUME PerDelivery PROVE DeliveryInv'
  BY DEF DeliveryInv, PerDelivery, ProvisionOrder
<1>1. {s \in StagesOf : terms.schedule[s].trigger = "ON_APPROVAL"} = {}
  BY PerDeliveryStage
<1>2. PICK due \in SUBSET StagesOf : \E rank \in [due -> BillNos] : DueBilled(due, rank)
  BY Provisioned
<1>3. PICK rank \in [due -> BillNos] : DueBilled(due, rank)
  BY <1>2
<1>4. /\ due = {} /\ \A n \in BillNos : bill'[n] = NoBill
      /\ DOMAIN bill' = BillNos /\ stage' = [s \in StagesOf |-> stage[s]]
  BY <1>1, <1>3 DEF DueBilled
<1>5. order = "none" /\ DOMAIN bill = BillNos /\ \A n \in BillNos : bill[n] = NoBill
  BY DEF ProvisionOrder, NumbersInv, Used, SalesTypeOK
<1>6. bill' = bill
  <2>1. bill' = [n \in BillNos |-> bill'[n]]
    BY DEF ProvisionOrder
  <2>2. bill = [n \in BillNos |-> bill[n]]
    BY DEF SalesTypeOK
  <2> QED
    BY <1>4, <1>5, <2>1, <2>2
<1>7. stage' = stage
  BY <1>4 DEF SalesTypeOK
<1>8. UNCHANGED <<terms, billing, note, fulfilled>>
  BY DEF ProvisionOrder, deliveryVars
<1> QED
  BY <1>6, <1>7, <1>8, DeliveryOfMoves DEF NotesIn

LEMMA StepDeliveries ==
    TermsOK /\ SalesTypeOK /\ OrderInv /\ NumbersInv /\ DeliveryInv /\ [SalesNext]_salesVars
      => DeliveryInv'
<1> SUFFICES ASSUME TermsOK, SalesTypeOK, OrderInv, NumbersInv, DeliveryInv, [SalesNext]_salesVars
             PROVE  DeliveryInv'
  OBVIOUS
<1>1. CASE UNCHANGED <<terms, stage, bill, billing, note, fulfilled>>
  BY <1>1, DeliveryOfMoves DEF NotesIn
<1>2. CASE BillingNext
  <2>1. ASSUME NEW s \in StagesOf, AskForStage(s) PROVE DeliveryInv'
    BY <1>1, <2>1 DEF AskForStage, deliveryVars
  <2>2. ASSUME NEW s \in StagesOf, RaiseStageInvoice(s) PROVE DeliveryInv'
    <3>1. CASE ~ PerDelivery
      BY <2>2, <3>1 DEF RaiseStageInvoice, DeliveryInv, PerDelivery
    <3>2. CASE PerDelivery
      <4>1. terms.schedule[s].trigger = "ON_DELIVERY"
        BY <3>2, PerDeliveryStage
      <4> QED
        BY <1>1, <2>2, <4>1 DEF RaiseStageInvoice, deliveryVars
    <3> QED
      BY <3>1, <3>2
  <2> QED
    BY <1>2, <2>1, <2>2, DeliveryOfVoid, DeliveryOfRead, DeliveryOfInvoice, DeliveryOfFailure
       DEF BillingNext
<1>3. CASE OrderNext
  <2>1. CASE MarkFulfilled
    <3>1. NotesIn("DISPATCHED") = {} /\ UNCHANGED <<terms, stage, bill, billing, note>>
      BY <2>1 DEF MarkFulfilled, billingVars
    <3> QED
      BY <3>1, DeliveryOfMoves DEF NotesIn
  <2>2. CASE Close \/ Cancel
    BY <1>1, <2>2 DEF Close, Cancel, billingVars, deliveryVars
  <2> QED
    BY <1>3, <2>1, <2>2, DeliveryOfApproval DEF OrderNext
<1>4. CASE DeliveryNext
  <2>1. ASSUME NEW d \in Notes, CancelNote(d) \/ \E qty \in Loads : CreateNote(d, qty)
        PROVE  DeliveryInv'
    <3>1. UNCHANGED <<terms, stage, bill, billing, fulfilled>>
      BY <2>1 DEF CancelNote, CreateNote, billingVars
    <3>2. PICK x : /\ note' = [note EXCEPT ![d] = x] /\ x.status # "DISPATCHED"
                   /\ note[d].status # "DISPATCHED"
      <4>1. CASE CancelNote(d)
        <5>1. note[d] \in Note /\ note[d].status = "DRAFT"
          BY <4>1, SalesKinds DEF CancelNote, SalesTypeOK
        <5>2. PICK x : x = [note[d] EXCEPT !.status = "CANCELLED"]
          OBVIOUS
        <5>3. x.status = "CANCELLED"
          BY <5>1, <5>2 DEF Note
        <5>4. note' = [note EXCEPT ![d] = x]
          BY <4>1, <5>2 DEF CancelNote, SalesTypeOK
        <5> QED
          BY <5>1, <5>3, <5>4
      <4>2. ASSUME NEW qty \in Loads, CreateNote(d, qty)
            PROVE  \E x : /\ note' = [note EXCEPT ![d] = x] /\ x.status # "DISPATCHED"
                          /\ note[d].status # "DISPATCHED"
        BY <4>2, SalesKinds DEF CreateNote
      <4> QED
        BY <2>1, <4>1, <4>2
    <3>3. NotesIn("DISPATCHED")' = NotesIn("DISPATCHED")
      BY <3>2 DEF NotesIn, SalesTypeOK
    <3> QED
      BY <3>1, <3>3, DeliveryOfMoves
  <2> QED
    BY <1>4, <2>1, DeliveryOfDispatch DEF DeliveryNext
<1>5. CASE ProductionNext \/ UNCHANGED salesVars
  <2>1. UNCHANGED <<terms, stage, bill, billing, note, fulfilled>>
    BY <1>5 DEF ProductionNext, StartProduction, PlanWork, ReadOrder, PlanningFails, FinishPlanning,
         PutBack, PlannerCrashes, CreateWorkOrder, SkipLine, CancelWorkOrder, billingVars,
         deliveryVars, salesVars
  <2> QED
    BY <1>1, <2>1
<1> QED
  BY <1>2, <1>3, <1>4, <1>5 DEF SalesNext

LEMMA InitDeliveries == SalesInit /\ TermsOK => DeliveryInv
<1> SUFFICES ASSUME SalesInit, TermsOK, PerDelivery PROVE InvoicedOnce /\ TotalInv /\ ReadInv
  BY DEF DeliveryInv
<1>1. /\ \A n \in BillNos : ~ Used(n)
      /\ NotesIn("DISPATCHED") = {} /\ billing = NoBilling /\ LiveBills = {}
      /\ stage[1].invoice = 0
  BY SalesKinds, PerDeliveryStage DEF SalesInit, Used, NotesIn, LiveBills
<1>2. Billed = 0
  <2>1. DOMAIN [n \in {} |-> AmountOf(n)] = {}
    OBVIOUS
  <2> QED
    BY <1>1, <2>1, SumEmpty DEF Billed
<1>3. 0 <= terms.total
  BY TermsFields
<1> QED
  BY <1>1, <1>2, <1>3 DEF InvoicedOnce, TotalInv, ReadInv

(* What the invoices of the deliveries say of the amounts. *)
LEMMA DeliveriesBillExactly ==
    ASSUME SalesTypeOK, TermsOK, DeliveryInv, PerDelivery
    PROVE  BilledExactly
<1>1. InvoicedOnce /\ TotalInv
  BY DEF DeliveryInv
<1>2. \A m, n \in LiveBills : m # n => bill[m].note # bill[n].note
  BY <1>1, LiveIsUsed DEF InvoicedOnce
<1>3. 1 \in StagesOf /\ stage[1].invoice \notin LiveBills
  BY <1>1, PerDeliveryStage DEF InvoicedOnce, LiveBills, BillNos
<1> QED
  BY <1>1, <1>2, <1>3 DEF BilledExactly, TotalInv, LeftToInvoice

(* The customer is billed the total, never more, and each stage and delivery  *)
(* once, for any schedule whose last stage covers the rounding of the others, *)
(* any prices and loads, and however many invoices are voided and raised      *)
(* again.                                                                     *)
THEOREM BilledCorrect ==
  ASSUME LastStageCovers
  PROVE  SalesSpec => []BilledExactly
<1>1. TermsOK /\ SalesTypeOK /\ StageInv /\ DeliveryInv => BilledExactly
  BY StagesBillExactly, DeliveriesBillExactly
<1>2. SalesInit => NumbersInv /\ StageInv /\ DeliveryInv
  BY InitSalesTypes, InitNumbers, InitStages, InitDeliveries
<1> QED
  BY <1>1, <1>2, SalesTypesAlways, OrderAlways, StepNumbers, StepStages, StepDeliveries, PTL
     DEF SalesSpec

--------------------------------------------------------------------------------
(* The contract with the customer *)

(* Everything the steps of the contract rest on. *)
SalesInv ==
    /\ TermsOK /\ SalesTypeOK /\ OrderInv /\ ShippingInv
    /\ NumbersInv /\ StageInv /\ DeliveryInv

BilledInRange == Billed \in 0..terms.total

(* No invoice is of less than nothing. *)
LEMMA AmountsAreNatural ==
    ASSUME SalesInv, LastStageCovers, NEW n \in LiveBills
    PROVE  AmountOf(n) \in Nat
<1>1. AmountOf(n) \in Int /\ n \in BillNos /\ Used(n)
  BY LiveIsUsed DEF SalesInv
<1>2. CASE PerDelivery
  BY <1>1, <1>2 DEF SalesInv, DeliveryInv, InvoicedOnce, AmountOf
<1>3. CASE ~ PerDelivery
  <2>1. bill[n].stage \in StagesOf /\ AmountOf(n) = StageAmount(bill[n].stage)
    BY <1>3 DEF SalesInv, StageInv, AmountOf
  <2>2. StageAmount(bill[n].stage) >= 0
    BY <2>1, StagesArePositive DEF SalesInv
  <2> QED
    BY <1>1, <2>1, <2>2
<1> QED
  BY <1>2, <1>3

LEMMA BilledStaysInRange ==
    ASSUME SalesInv, LastStageCovers
    PROVE  BilledExactly /\ BilledInRange
<1>1. BilledExactly
  BY StagesBillExactly, DeliveriesBillExactly DEF SalesInv
<1>2. PICK S : S = LiveBills
  OBVIOUS
<1>3. PICK f : f = [n \in LiveBills |-> AmountOf(n)]
  OBVIOUS
<1>4. IsFiniteSet(S) /\ f \in [S -> Nat]
  BY <1>2, <1>3, AmountsAreNatural, AmountTypes DEF SalesInv
<1>5. SumFunction(f) \in Nat
  BY <1>4, SumOfNat
<1>6. Billed \in Nat /\ terms.total \in Int
  BY <1>3, <1>5, TermsFields DEF Billed, SalesInv
<1> QED
  BY <1>1, <1>6 DEF BilledExactly, BilledInRange

LEMMA SalesInvAlways ==
    ASSUME LastStageCovers, Items # {}
    PROVE  SalesSpec => [](SalesInv /\ BilledExactly /\ BilledInRange)
<1>1. SalesInit => NumbersInv /\ StageInv /\ DeliveryInv /\ ShippingInv
  BY InitSalesTypes, InitNumbers, InitStages, InitDeliveries, InitShipping
<1>2. TermsOK /\ SalesTypeOK /\ OrderInv /\ ShippingInv /\ NumbersInv /\ StageInv /\ DeliveryInv
        => SalesInv
  BY DEF SalesInv
<1>3. SalesInv => BilledExactly /\ BilledInRange
  BY BilledStaysInRange
<1> QED
  BY <1>1, <1>2, <1>3, SalesTypesAlways, OrderAlways, StepShipping, StepNumbers, StepStages,
     StepDeliveries, PTL DEF SalesSpec

LEMMA NothingCarried ==
    ASSUME NotesIn("DISPATCHED") = {}
    PROVE  Carried = Contract!Nothing
<1>1. ASSUME NEW l \in Items PROVE InNotes(l, "DISPATCHED") = 0
  <2>1. DOMAIN [d \in {} |-> note[d].qty[l]] = {}
    OBVIOUS
  <2> QED
    BY <2>1, SumEmpty DEF InNotes
<1> QED
  BY <1>1 DEF Carried, Contract!Nothing

LEMMA NothingBilled ==
    ASSUME LiveBills = {}
    PROVE  Billed = 0
<1>1. DOMAIN [n \in {} |-> AmountOf(n)] = {}
  OBVIOUS
<1> QED
  BY <1>1, SumEmpty DEF Billed

(* What is billed and what has left, when the rows stay as they are. *)
LEMMA SameBills ==
    ASSUME UNCHANGED bill
    PROVE  Billed' = Billed
BY DEF Billed, LiveBills, BillNos, AmountOf

LEMMA SameNotes ==
    ASSUME UNCHANGED note
    PROVE  Carried' = Carried
BY DEF Carried, InNotes, NotesIn

LEMMA SameQuote ==
    ASSUME UNCHANGED terms
    PROVE  UNCHANGED [total |-> terms.total, byDelivery |-> PerDelivery]
BY DEF PerDelivery

LEMMA ContractIdles ==
    ASSUME UNCHANGED <<terms, order, note>>, Billed' = Billed
    PROVE  UNCHANGED Contract!vars
BY SameNotes, SameQuote DEF Contract!vars

(* Only an order billed by delivery has a stage that waits for deliveries.    *)
LEMMA OnlyDeliveriesWait ==
    ASSUME TermsOK, ~ PerDelivery, NEW s \in StagesOf
    PROVE  terms.schedule[s].trigger # "ON_DELIVERY"
<1>1. ValidSchedule(terms.schedule)
  BY SalesAssumption DEF TermsOK
<1>2. Len(terms.schedule) \in Nat /\ DOMAIN terms.schedule = StagesOf
  BY <1>1 DEF ValidSchedule, StagesOf
<1>3. CASE Len(terms.schedule) > 1
  BY <1>1, <1>2, <1>3 DEF ValidSchedule
<1>4. CASE ~ (Len(terms.schedule) > 1)
  <2>1. PICK n \in Nat : n = Len(terms.schedule) /\ s \in 1..n /\ ~ (n > 1)
    BY <1>2, <1>4 DEF StagesOf
  <2>2. \A m \in Nat : \A t \in 1..m : m <= 1 => t = 1 /\ m = 1
    OBVIOUS
  <2>3. n <= 1
    BY <2>1
  <2> QED
    BY <2>1, <2>2, <2>3 DEF PerDelivery
<1> QED
  BY <1>3, <1>4

LEMMA ContractOfOrder ==
    ASSUME SalesInv, BilledExactly, BilledInRange, BilledInRange', OrderNext
    PROVE  [Contract!Next]_(Contract!vars)
<1>1. CASE ProvisionOrder
  <2>1. order = "none" /\ order' = "OPEN" /\ UNCHANGED <<terms, note>>
    BY <1>1 DEF ProvisionOrder, deliveryVars
  <2>2. Contract!Accept
    BY <2>1, SameNotes, SameQuote DEF Contract!Accept, BilledInRange
  <2> QED
    BY <2>2 DEF Contract!Next
<1>2. CASE MarkFulfilled
  <2>1. /\ order \in {"OPEN", "IN_PRODUCTION"} /\ order' = "FULFILLED"
        /\ NotesIn("DISPATCHED") = {} /\ UNCHANGED <<terms, note, bill>>
    BY <1>2 DEF MarkFulfilled, CanBecome, NextStatus, billingVars, SalesInv, ShippingInv
  <2>2. Contract!Fulfil
    BY <2>1, NothingCarried, SameNotes, SameBills, SameQuote DEF Contract!Fulfil, Contract!Open
  <2> QED
    BY <2>2 DEF Contract!Next
<1>3. CASE Close
  <2>1. /\ order = "FULFILLED" /\ order' = "CLOSED" /\ UNCHANGED <<terms, note, bill>>
        /\ \A s \in StagesOf : \/ stage[s].invoice # 0
                               \/ terms.schedule[s].trigger = "ON_DELIVERY" /\ stage[s].stamped
    BY <1>3 DEF Close, CanBecome, NextStatus, billingVars, deliveryVars, SalesInv, ShippingInv
  <2>2. PerDelivery \/ Billed = terms.total
    <3> SUFFICES ASSUME ~ PerDelivery PROVE Billed = terms.total
      OBVIOUS
    <3>1. \A s \in StagesOf : terms.schedule[s].trigger # "ON_DELIVERY"
      BY OnlyDeliveriesWait DEF SalesInv
    <3>2. \A s \in StagesOf : stage[s].invoice \in LiveBills
      BY <2>1, <3>1 DEF SalesInv, StageInv
    <3> QED
      BY <2>1, <3>2 DEF BilledExactly
  <2>3. Contract!Close
    BY <2>1, <2>2, SameNotes, SameBills, SameQuote DEF Contract!Close
  <2> QED
    BY <2>3 DEF Contract!Next
<1>4. CASE Cancel
  <2>1. /\ order \notin {"none", "CANCELLED"} /\ order' = "CANCELLED"
        /\ LiveBills = {} /\ NotesIn("DISPATCHED") = {} /\ UNCHANGED <<terms, note, bill>>
    BY <1>4 DEF Cancel, billingVars, deliveryVars
  <2>2. Contract!Cancel
    BY <2>1, NothingCarried, NothingBilled, SameNotes, SameBills, SameQuote
       DEF Contract!Cancel, Contract!Exists
  <2> QED
    BY <2>2 DEF Contract!Next
<1> QED
  BY <1>1, <1>2, <1>3, <1>4 DEF OrderNext

(* A bill is raised only while the order is there, and a void lowers what is *)
(* billed.                                                                    *)
LEMMA ContractOfBilling ==
    ASSUME SalesInv, LastStageCovers, BilledInRange, BilledInRange', BillingNext
    PROVE  [Contract!Next]_(Contract!vars)
<1>0. UNCHANGED <<terms, order, note>>
  BY DEF BillingNext, AskForStage, RaiseStageInvoice, VoidOrderInvoice, StartInvoicing,
     InvoiceDelivery, InvoicingFails, deliveryVars
<1>1. ASSUME order \notin {"none", "CANCELLED"}, Billed' >= Billed
      PROVE  [Contract!Next]_(Contract!vars)
  <2>1. Billed' \in Billed..terms.total
    BY <1>0, <1>1 DEF BilledInRange
  <2>2. Contract!Bill
    BY <1>0, <1>1, <2>1, SameNotes, SameQuote DEF Contract!Bill, Contract!Exists
  <2> QED
    BY <2>2 DEF Contract!Next
<1>2. ASSUME UNCHANGED bill PROVE [Contract!Next]_(Contract!vars)
  BY <1>0, <1>2, SameBills, ContractIdles
<1>3. ASSUME NEW s \in StagesOf, RaiseStageInvoice(s) PROVE [Contract!Next]_(Contract!vars)
  <2> SUFFICES ASSUME ~ UNCHANGED bill PROVE [Contract!Next]_(Contract!vars)
    BY <1>2
  <2>1. /\ order # "CANCELLED" /\ s \in asked /\ NextNumber \in BillNos
        /\ bill' = [bill EXCEPT ![NextNumber] = StageBill(s)]
    BY <1>3 DEF RaiseStageInvoice
  <2>2. order # "none"
    BY <2>1 DEF SalesInv, NumbersInv
  <2>3. StageAmount(s) \in Int /\ StageAmount(s) >= 0
    BY StageAmountType, StagesArePositive DEF SalesInv
  <2>4. StageBill(s).state = "live" /\ StageBill(s).amount = StageAmount(s)
    BY DEF StageBill
  <2>5. Billed' = Billed + StageAmount(s)
    BY <2>1, <2>3, <2>4, NextIsFree, BilledMore DEF SalesInv
  <2> QED
    BY <1>1, <2>1, <2>2, <2>3, <2>5 DEF BilledInRange
<1>4. CASE InvoiceDelivery
  <2>1. /\ billing # NoBilling /\ NextNumber \in BillNos /\ DeliveryAmount(billing.note) > 0
        /\ bill' = [bill EXCEPT ![NextNumber] =
                      [state |-> "live", amount |-> DeliveryAmount(billing.note), stage |-> 0,
                       note |-> billing.note]]
    BY <1>4 DEF InvoiceDelivery
  <2>2. billing.note \in NotesIn("DISPATCHED") /\ billing.earlier \in Int
    BY <2>1 DEF SalesInv, OrderInv, BillingInv, SalesTypeOK
  <2>3. DeliveryAmount(billing.note) \in Int
    BY <2>2, AmountTypes, TermsFields DEF DeliveryAmount, Remainder, SalesInv
  <2>4. Billed' = Billed + DeliveryAmount(billing.note)
    <3>1. PICK b : b = [state |-> "live", amount |-> DeliveryAmount(billing.note), stage |-> 0,
                        note |-> billing.note]
      OBVIOUS
    <3>2. b.state = "live" /\ b.amount = DeliveryAmount(billing.note)
      BY <3>1
    <3>3. bill' = [bill EXCEPT ![NextNumber] = b]
      BY <2>1, <3>1
    <3> QED
      BY <2>1, <2>3, <3>2, <3>3, NextIsFree, BilledMore DEF SalesInv
  <2>5. order \notin {"none", "CANCELLED"}
    BY <2>2 DEF SalesInv, NumbersInv, OrderInv, CancelledHasNothing
  <2> QED
    BY <1>1, <2>1, <2>3, <2>4, <2>5 DEF BilledInRange
<1>5. ASSUME NEW n \in BillNos, VoidOrderInvoice(n) PROVE [Contract!Next]_(Contract!vars)
  <2>1. n \in LiveBills
    BY <1>5 DEF VoidOrderInvoice, LiveBills
  <2>2. PICK b : b.state = "void" /\ bill' = [bill EXCEPT ![n] = b]
    <3>1. bill[n] \in Bill /\ DOMAIN bill = BillNos
      BY <2>1, LiveIsUsed DEF SalesInv, SalesTypeOK
    <3>2. PICK b : b = [[bill[n] EXCEPT !.state = "void"] EXCEPT !.stage = 0]
      OBVIOUS
    <3>3. b.state = "void"
      BY <3>1, <3>2 DEF Bill
    <3>4. bill' = [bill EXCEPT ![n] = b]
      BY <1>5, <3>1, <3>2 DEF VoidOrderInvoice
    <3> QED
      BY <3>3, <3>4
  <2>3. Billed' = Billed - AmountOf(n)
    BY <2>1, <2>2, BilledLess DEF SalesInv, AmountOf
  <2>4. Billed' \in 0..Billed
    BY <1>0, <2>1, <2>3, AmountsAreNatural DEF BilledInRange
  <2>5. Contract!Void
    BY <1>0, <2>4, SameNotes, SameQuote DEF Contract!Void
  <2> QED
    BY <2>5 DEF Contract!Next
<1>6. ASSUME NEW s, NEW d, AskForStage(s) \/ StartInvoicing(d) \/ InvoicingFails
      PROVE  UNCHANGED bill
  BY <1>6 DEF AskForStage, StartInvoicing, InvoicingFails
<1> QED
  BY <1>2, <1>3, <1>4, <1>5, <1>6 DEF BillingNext

(* A dispatch ships what the note carries; of an order that is fulfilled      *)
(* there is nothing left to carry.                                            *)
LEMMA ContractOfDelivery ==
    ASSUME SalesInv, ShippingInv', DeliveryNext
    PROVE  [Contract!Next]_(Contract!vars)
<1>0. UNCHANGED <<terms, bill>> /\ Billed' = Billed
  BY SameBills DEF DeliveryNext, Dispatch, CancelNote, CreateNote, billingVars
<1>1. ASSUME NEW d \in Notes, Dispatch(d) PROVE [Contract!Next]_(Contract!vars)
  <2>1. /\ Shippable /\ note[d].status = "DRAFT" /\ fulfilled' = Shipped(d)
        /\ note' = [note EXCEPT ![d].status = "DISPATCHED"]
        /\ order' = IF ShipsAll(d) /\ order \in {"OPEN", "IN_PRODUCTION"} THEN "FULFILLED" ELSE order
    BY <1>1 DEF Dispatch
  <2>2. note[d] \in Note /\ DOMAIN note = Notes /\ d \in NotesIn("DRAFT")
    BY <2>1, SalesKinds DEF SalesInv, SalesTypeOK, NotesIn
  <2>3. d \in NotesIn("DISPATCHED")'
    BY <2>1, <2>2 DEF NotesIn, Note
  <2>4. /\ \A l \in Items : fulfilled[l] = InNotes(l, "DISPATCHED")
        /\ \A l \in Items : fulfilled'[l] = InNotes(l, "DISPATCHED")'
    BY <2>2, <2>3 DEF SalesInv, ShippingInv
  <2>5. \A l \in Items : /\ fulfilled[l] \in Nat /\ note[d].qty[l] \in Nat /\ ItemQty[l] \in Nat
                         /\ fulfilled'[l] = fulfilled[l] + note[d].qty[l]
                         /\ fulfilled'[l] \in Nat /\ fulfilled'[l] <= ItemQty[l]
    BY <2>1, <2>2, SalesKinds, SalesAssumption DEF SalesInv, ShippingInv, Quantities, Shipped
  <2>6. Carried = fulfilled /\ Carried' = fulfilled'
    BY <2>4 DEF Carried, SalesInv, ShippingInv, Quantities
  <2>7. ShipsAll(d) <=> fulfilled' = ItemQty
    <3>1. ShipsAll(d) <=> \A l \in Items : fulfilled'[l] >= ItemQty[l]
      BY <2>1 DEF ShipsAll
    <3>2. (\A l \in Items : fulfilled'[l] >= ItemQty[l]) <=> \A l \in Items : fulfilled'[l] = ItemQty[l]
      BY <2>5
    <3>3. (\A l \in Items : fulfilled'[l] = ItemQty[l]) <=> fulfilled' = ItemQty
      BY SalesAssumption DEF ShippingInv, Quantities
    <3> QED
      BY <3>1, <3>2, <3>3
  <2>8. CASE order \in {"OPEN", "IN_PRODUCTION"}
    <3>1. Carried' \in [Items -> Nat]
      BY <2>6 DEF ShippingInv, Quantities
    <3>2. \A l \in Items : Carried[l] <= Carried'[l] /\ Carried'[l] <= ItemQty[l]
      BY <2>5, <2>6
    <3>3. order' = IF Carried' = ItemQty THEN "FULFILLED" ELSE order
      BY <2>1, <2>6, <2>7, <2>8
    <3>4. Contract!Ship
      BY <1>0, <2>8, <3>1, <3>2, <3>3, SameQuote DEF Contract!Ship, Contract!Open
    <3> QED
      BY <3>4 DEF Contract!Next
  <2>9. CASE order \notin {"OPEN", "IN_PRODUCTION"}
    <3>1. order' = order /\ EverythingShipped
      BY <2>1, <2>9 DEF Shippable, SalesInv, ShippingInv
    <3>2. \A l \in Items : fulfilled'[l] = fulfilled[l]
      BY <2>5, <3>1 DEF EverythingShipped
    <3>3. Carried' = Carried
      BY <2>6, <3>2 DEF SalesInv, ShippingInv, Quantities
    <3> QED
      BY <1>0, <3>1, <3>3, SameQuote DEF Contract!vars
  <2> QED
    BY <2>8, <2>9
<1>2. ASSUME NEW d \in Notes, CancelNote(d) \/ \E qty \in Loads : CreateNote(d, qty)
      PROVE  [Contract!Next]_(Contract!vars)
  <2>1. order' = order
    BY <1>2 DEF CancelNote, CreateNote
  <2>2. Carried' = Carried
    <3>1. /\ DOMAIN note = Notes /\ note[d].status # "DISPATCHED" /\ note'[d].status # "DISPATCHED"
          /\ \A e \in Notes \ {d} : note'[e] = note[e]
      <4>1. note[d] \in {NoNote} \cup Note /\ DOMAIN note = Notes
        BY DEF SalesInv, SalesTypeOK
      <4>2. CASE CancelNote(d)
        BY <4>1, <4>2, SalesKinds DEF CancelNote, Note
      <4>3. ASSUME NEW qty \in Loads, CreateNote(d, qty)
            PROVE  /\ note[d].status # "DISPATCHED" /\ note'[d].status # "DISPATCHED"
                   /\ \A e \in Notes \ {d} : note'[e] = note[e]
        BY <4>1, <4>3, SalesKinds DEF CreateNote
      <4> QED
        BY <1>2, <4>1, <4>2, <4>3
    <3>2. /\ NotesIn("DISPATCHED")' = NotesIn("DISPATCHED")
          /\ \A e \in NotesIn("DISPATCHED") : note'[e] = note[e]
      BY <3>1 DEF NotesIn
    <3>3. ASSUME NEW l \in Items PROVE InNotes(l, "DISPATCHED")' = InNotes(l, "DISPATCHED")
      <4>1. [e \in NotesIn("DISPATCHED") |-> note'[e].qty[l]]
              = [e \in NotesIn("DISPATCHED") |-> note[e].qty[l]]
        BY <3>2
      <4> QED
        BY <3>2, <4>1 DEF InNotes
    <3> QED
      BY <3>3 DEF Carried
  <2> QED
    BY <1>0, <2>1, <2>2, SameQuote DEF Contract!vars
<1> QED
  BY <1>1, <1>2 DEF DeliveryNext

LEMMA ContractOfProduction ==
    ASSUME SalesInv, ProductionNext
    PROVE  [Contract!Next]_(Contract!vars)
<1>1. /\ UNCHANGED <<terms, note, bill>>
      /\ \/ order' = order
         \/ order = "OPEN" /\ order' = "IN_PRODUCTION"
         \/ order = "IN_PRODUCTION" /\ order' = "OPEN"
  <2>1. UNCHANGED <<terms, note, bill>>
    BY DEF ProductionNext, StartProduction, PlanWork, ReadOrder, PlanningFails, FinishPlanning,
       PutBack, PlannerCrashes, CreateWorkOrder, SkipLine, CancelWorkOrder, billingVars, deliveryVars
  <2>2. ASSUME NEW p \in Requests, StartProduction(p)
        PROVE  order = "OPEN" /\ order' = "IN_PRODUCTION"
    BY <2>2 DEF StartProduction, CanBecome, NextStatus, SalesInv, ShippingInv
  <2>3. ASSUME NEW p \in Requests, PutBack(p)
        PROVE  order' = order \/ (order = "IN_PRODUCTION" /\ order' = "OPEN")
    BY <2>3 DEF PutBack
  <2>4. ASSUME NEW p, NEW l, \/ PlanWork(p) \/ ReadOrder(p) \/ PlanningFails(p)
                             \/ FinishPlanning(p) \/ PlannerCrashes(p)
                             \/ CreateWorkOrder(p, l) \/ SkipLine(p, l) \/ CancelWorkOrder(l)
        PROVE  order' = order
    BY <2>4 DEF PlanWork, ReadOrder, PlanningFails, FinishPlanning, PlannerCrashes, CreateWorkOrder,
       SkipLine, CancelWorkOrder
  <2> QED
    BY <2>1, <2>2, <2>3, <2>4 DEF ProductionNext
<1>2. CASE order' = order
  BY <1>1, <1>2, SameBills, ContractIdles
<1>3. CASE order = "OPEN" /\ order' = "IN_PRODUCTION"
  <2>1. Contract!StartProduction
    BY <1>1, <1>3, SameBills, SameNotes, SameQuote DEF Contract!StartProduction
  <2> QED
    BY <2>1 DEF Contract!Next
<1>4. CASE order = "IN_PRODUCTION" /\ order' = "OPEN"
  <2>1. Contract!GiveUpProduction
    BY <1>1, <1>4, SameBills, SameNotes, SameQuote DEF Contract!GiveUpProduction
  <2> QED
    BY <2>1 DEF Contract!Next
<1> QED
  BY <1>1, <1>2, <1>3, <1>4

(* Every step of the order is a step of its contract or none: what is billed  *)
(* and shipped moves within the quote, the last unit fulfils the order, it is *)
(* closed in full, and nothing happens to a cancelled one.                    *)
THEOREM ContractWithCustomer ==
  ASSUME LastStageCovers, Items # {}
  PROVE  SalesSpec => OrderKeepsContract
<1> DEFINE Safe == SalesInv /\ BilledExactly /\ BilledInRange
<1>1. SalesInit => Contract!Init
  <2> SUFFICES ASSUME SalesInit PROVE Contract!Init
    OBVIOUS
  <2>1. LiveBills = {} /\ NotesIn("DISPATCHED") = {} /\ order = "none"
    BY SalesKinds DEF SalesInit, LiveBills, NotesIn
  <2>2. terms.total \in Nat /\ PerDelivery \in BOOLEAN
    BY InitSalesTypes, TermsFields DEF PerDelivery
  <2> QED
    BY <2>1, <2>2, NothingBilled, NothingCarried DEF Contract!Init
<1>2. Safe /\ Safe' /\ [SalesNext]_salesVars => [Contract!Next]_(Contract!vars)
  <2> SUFFICES ASSUME Safe, Safe', [SalesNext]_salesVars PROVE [Contract!Next]_(Contract!vars)
    OBVIOUS
  <2>1. ShippingInv'
    BY DEF SalesInv
  <2>2. CASE UNCHANGED salesVars
    BY <2>2, SameBills, ContractIdles DEF salesVars, billingVars, deliveryVars
  <2> QED
    BY <2>1, <2>2, ContractOfOrder, ContractOfBilling, ContractOfDelivery, ContractOfProduction
       DEF SalesNext
<1>3. SalesSpec => []Safe
  BY SalesInvAlways
<1> QED
  BY <1>1, <1>2, <1>3, PTL DEF SalesSpec, OrderKeepsContract, Contract!Spec

--------------------------------------------------------------------------------
(* The receivables *)

USE ReceivablesAssumption

(* What the position of one invoice keeps to.  Nothing is paid beyond the     *)
(* amount, nothing credited beyond it, and nothing refunded that was not both *)
(* credited and paid; an invoice that is not live has no credit.              *)
Bounds(i) ==
    /\ invoice[i].paid <= invoice[i].amount
    /\ invoice[i].credited <= invoice[i].amount
    /\ invoice[i].refunded <= invoice[i].credited
    /\ invoice[i].refunded <= invoice[i].paid
    /\ ~Live(invoice[i]) => invoice[i].credited = 0

(* What the journal says of it. *)
Told(i) ==
    IF Live(invoice[i])
    THEN /\ receivable[i] = Balance(invoice[i])
         /\ bank[i] = invoice[i].paid - invoice[i].refunded
         /\ invoice[i].status = "PAID" <=> Balance(invoice[i]) <= 0
    ELSE receivable[i] = 0 /\ bank[i] = 0

NoteInv(c) == creditNote[c].status # "none" => creditNote[c].refunded <= creditNote[c].total

LedgerInv ==
    /\ ReceivablesTypeOK
    /\ \A i \in Invoices : Bounds(i) /\ Told(i)
    /\ \A c \in CreditNotes : NoteInv(c)

(* Only invoice i changes, and to a row that keeps to the bounds and that the *)
(* journal tells.                                                             *)
InvoiceStep(i) ==
    /\ invoice' \in [Invoices -> Invoice]
    /\ receivable' \in [Invoices -> Int] /\ bank' \in [Invoices -> Int]
    /\ \A j \in Invoices \ {i} :
           invoice'[j] = invoice[j] /\ receivable'[j] = receivable[j] /\ bank'[j] = bank[j]
    /\ Bounds(i)' /\ Told(i)'

NotesStep ==
    /\ creditNote' \in [CreditNotes -> {Unwritten} \cup CreditNote]
    /\ \A c \in CreditNotes : NoteInv(c)'

(* A row that was written has its fields. *)
LEMMA NoteFields ==
  ASSUME ReceivablesTypeOK, NEW c \in CreditNotes, creditNote[c].status # "none"
  PROVE  /\ creditNote[c] \in CreditNote
         /\ creditNote[c].invoice \in Invoices
         /\ creditNote[c].total \in Nat /\ creditNote[c].refunded \in Nat
<1>1. creditNote[c] \in CreditNote
  BY DEF ReceivablesTypeOK, Unwritten
<1> QED
  BY <1>1 DEF CreditNote

LEMMA InvoiceFields ==
  ASSUME ReceivablesTypeOK, NEW i \in Invoices
  PROVE  /\ invoice[i] \in Invoice /\ receivable[i] \in Int /\ bank[i] \in Int
         /\ invoice[i].amount \in Nat /\ invoice[i].paid \in Nat
         /\ invoice[i].credited \in Nat /\ invoice[i].refunded \in Nat
         /\ Balance(invoice[i]) \in Int
BY DEF ReceivablesTypeOK, Invoice, Balance

(* A step of one invoice, and of credit notes that stay within their totals,  *)
(* preserves the invariant.                                                   *)
LEMMA OneInvoice ==
  ASSUME LedgerInv, NEW i \in Invoices, InvoiceStep(i), NotesStep
  PROVE  LedgerInv'
<1>2. ReceivablesTypeOK'
  BY DEF InvoiceStep, NotesStep, ReceivablesTypeOK
<1>4. \A j \in Invoices : Bounds(j)' /\ Told(j)'
  <2> TAKE j \in Invoices
  <2>1. CASE j = i
    BY <2>1 DEF InvoiceStep
  <2>2. CASE j # i
    BY <2>2 DEF InvoiceStep, LedgerInv, Bounds, Told
  <2> QED
    BY <2>1, <2>2
<1> QED
  BY <1>2, <1>4 DEF LedgerInv, NotesStep

(* Credit notes alone. *)
LEMMA OnlyNotes ==
  ASSUME LedgerInv, NotesStep, UNCHANGED <<invoice, receivable, bank>>
  PROVE  LedgerInv'
BY DEF LedgerInv, NotesStep, ReceivablesTypeOK, Bounds, Told

LEMMA NotesUnchanged ==
  ASSUME LedgerInv, UNCHANGED creditNote
  PROVE  NotesStep
BY DEF LedgerInv, NotesStep, ReceivablesTypeOK, NoteInv

--------------------------------------------------------------------------------

LEMMA LedgerInvInit == ReceivablesInit => LedgerInv
<1> SUFFICES ASSUME ReceivablesInit PROVE LedgerInv
  OBVIOUS
<1>1. Unissued \in Invoice
  BY DEF Unissued, Invoice
<1>2. ReceivablesTypeOK
  BY <1>1 DEF ReceivablesInit, ReceivablesTypeOK
<1>3. \A i \in Invoices : Bounds(i) /\ Told(i)
  <2>1. Unissued.status = "none" /\ Unissued.amount = 0 /\ Unissued.paid = 0
        /\ Unissued.credited = 0 /\ Unissued.refunded = 0
    BY DEF Unissued
  <2> SUFFICES ASSUME NEW i \in Invoices PROVE Bounds(i) /\ Told(i)
    OBVIOUS
  <2>2. invoice[i] = Unissued /\ receivable[i] = 0 /\ bank[i] = 0
    BY DEF ReceivablesInit
  <2>3. ~Live(invoice[i])
    BY <2>1, <2>2 DEF Live
  <2>4. Bounds(i)
    BY <2>1, <2>2 DEF Bounds
  <2> QED
    BY <2>2, <2>3, <2>4 DEF Told
<1>4. \A c \in CreditNotes : NoteInv(c)
  BY DEF ReceivablesInit, NoteInv, Unwritten
<1> QED
  BY <1>2, <1>3, <1>4 DEF LedgerInv

LEMMA IssueKeeps ==
  ASSUME LedgerInv, NEW i \in Invoices, NEW amount \in 1..MaxBilled, IssueInvoice(i, amount)
  PROVE  LedgerInv'
<1> DEFINE inv == [Unissued EXCEPT !.status = "ISSUED", !.amount = amount]
<1>1. inv \in Invoice /\ inv.status = "ISSUED" /\ inv.amount = amount /\ amount \in Nat \ {0}
      /\ inv.paid = 0 /\ inv.credited = 0 /\ inv.refunded = 0
  <2>1. Unissued \in Invoice /\ Unissued.paid = 0 /\ Unissued.credited = 0 /\ Unissued.refunded = 0
    BY DEF Unissued, Invoice
  <2>2. amount \in Nat \ {0}
    OBVIOUS
  <2>3. inv \in Invoice /\ inv.status = "ISSUED" /\ inv.amount = amount
        /\ inv.paid = Unissued.paid /\ inv.credited = Unissued.credited
        /\ inv.refunded = Unissued.refunded
    BY <2>1, <2>2 DEF Invoice
  <2> QED
    BY <2>1, <2>2, <2>3
<1> HIDE DEF inv
<1>2. /\ invoice' = [invoice EXCEPT ![i] = inv]
      /\ receivable' = [receivable EXCEPT ![i] = receivable[i] + amount]
      /\ bank' = [bank EXCEPT ![i] = bank[i]]
  BY DEF IssueInvoice, inv, LedgerInv, ReceivablesTypeOK
<1>3. receivable[i] = 0 /\ bank[i] = 0
  BY DEF IssueInvoice, LedgerInv, Told, Live
<1>4. invoice'[i] = inv /\ receivable'[i] = amount /\ bank'[i] = 0
  BY <1>1, <1>2, <1>3 DEF LedgerInv, ReceivablesTypeOK
<1>5. Bounds(i)'
  BY <1>1, <1>4 DEF Bounds, Live
<1>6. Told(i)'
  BY <1>1, <1>4 DEF Told, Live, Balance
<1>7. InvoiceStep(i)
  BY <1>1, <1>2, <1>3, <1>5, <1>6 DEF InvoiceStep, LedgerInv, ReceivablesTypeOK
<1> QED
  BY <1>7, NotesUnchanged, OneInvoice DEF IssueInvoice

LEMMA PaymentKeeps ==
  ASSUME LedgerInv, NEW i \in Invoices, NEW amount \in 1..MaxBilled, ReceivePayment(i, amount)
  PROVE  LedgerInv'
<1> DEFINE old == invoice[i]
           paid == [old EXCEPT !.paid = @ + amount]
           inv == [paid EXCEPT !.status = IF Balance(paid) <= 0 THEN "PAID" ELSE "PARTIALLY_PAID"]
<1>1. old \in Invoice /\ old.amount \in Nat /\ old.paid \in Nat /\ old.credited \in Nat
      /\ old.refunded \in Nat /\ receivable[i] \in Int /\ bank[i] \in Int /\ amount \in Nat \ {0}
  BY InvoiceFields DEF LedgerInv
<1>2. /\ inv \in Invoice /\ inv.amount = old.amount /\ inv.paid = old.paid + amount
      /\ inv.credited = old.credited /\ inv.refunded = old.refunded
      /\ inv.status = IF Balance(inv) <= 0 THEN "PAID" ELSE "PARTIALLY_PAID"
  <2>1. paid \in Invoice /\ paid.amount = old.amount /\ paid.paid = old.paid + amount
        /\ paid.credited = old.credited /\ paid.refunded = old.refunded
    BY <1>1 DEF Invoice
  <2> HIDE DEF paid
  <2>2. inv \in Invoice /\ inv.amount = paid.amount /\ inv.paid = paid.paid
        /\ inv.credited = paid.credited /\ inv.refunded = paid.refunded
        /\ inv.status = IF Balance(paid) <= 0 THEN "PAID" ELSE "PARTIALLY_PAID"
    BY <2>1 DEF Invoice
  <2>3. Balance(inv) = Balance(paid)
    BY <2>2 DEF Balance
  <2> QED
    BY <2>1, <2>2, <2>3
<1>3. /\ invoice' = [invoice EXCEPT ![i] = inv]
      /\ receivable' = [receivable EXCEPT ![i] = receivable[i] - amount]
      /\ bank' = [bank EXCEPT ![i] = bank[i] + amount]
  BY DEF ReceivePayment, LedgerInv, ReceivablesTypeOK
<1>4. invoice'[i] = inv /\ receivable'[i] = receivable[i] - amount /\ bank'[i] = bank[i] + amount
  BY <1>3 DEF LedgerInv, ReceivablesTypeOK
<1>5. Live(old) /\ amount <= Balance(old) /\ Bounds(i) /\ Told(i)
  BY DEF ReceivePayment, Live, LedgerInv
<1> HIDE DEF inv
<1>6. Bounds(i)'
  BY <1>1, <1>2, <1>4, <1>5 DEF Bounds, Live, Balance
<1>7. Told(i)'
  BY <1>1, <1>2, <1>4, <1>5 DEF Told, Live, Balance
<1>8. InvoiceStep(i)
  BY <1>1, <1>2, <1>3, <1>6, <1>7 DEF InvoiceStep, LedgerInv, ReceivablesTypeOK
<1> QED
  BY <1>8, NotesUnchanged, OneInvoice DEF ReceivePayment

LEMMA VoidKeeps ==
  ASSUME LedgerInv, NEW i \in Invoices, VoidInvoice(i)
  PROVE  LedgerInv'
<1> DEFINE old == invoice[i]
           inv == [old EXCEPT !.status = "CANCELLED"]
<1>1. old \in Invoice /\ old.amount \in Nat /\ old.paid \in Nat /\ old.credited \in Nat
      /\ old.refunded \in Nat /\ receivable[i] \in Int /\ bank[i] \in Int
  BY InvoiceFields DEF LedgerInv
<1>2. inv \in Invoice /\ inv.status = "CANCELLED" /\ inv.amount = old.amount
      /\ inv.paid = old.paid /\ inv.credited = old.credited /\ inv.refunded = old.refunded
  BY <1>1 DEF Invoice
<1>3. /\ invoice' = [invoice EXCEPT ![i] = inv]
      /\ receivable' = [receivable EXCEPT ![i] = receivable[i] + old.paid - old.amount]
      /\ bank' = [bank EXCEPT ![i] = bank[i] - old.paid]
  BY DEF VoidInvoice, LedgerInv, ReceivablesTypeOK
<1>4. /\ invoice'[i] = inv /\ receivable'[i] = receivable[i] + old.paid - old.amount
      /\ bank'[i] = bank[i] - old.paid
  BY <1>3 DEF LedgerInv, ReceivablesTypeOK
<1>5. Live(old) /\ old.credited = 0 /\ Bounds(i) /\ Told(i)
  BY DEF VoidInvoice, LedgerInv
<1> HIDE DEF inv
<1>6. old.refunded = 0 /\ receivable[i] = old.amount - old.paid /\ bank[i] = old.paid
  BY <1>1, <1>5 DEF Bounds, Told, Balance
<1>7. Bounds(i)'
  BY <1>1, <1>2, <1>4, <1>5 DEF Bounds, Live
<1>8. Told(i)'
  BY <1>1, <1>2, <1>4, <1>6 DEF Told, Live
<1>9. InvoiceStep(i)
  BY <1>1, <1>2, <1>3, <1>7, <1>8 DEF InvoiceStep, LedgerInv, ReceivablesTypeOK
<1> QED
  BY <1>9, NotesUnchanged, OneInvoice DEF VoidInvoice

LEMMA DraftKeeps ==
  ASSUME LedgerInv, NEW c \in CreditNotes, NEW i \in Invoices, NEW total \in 1..MaxBilled,
         DraftCreditNote(c, i, total)
  PROVE  LedgerInv'
<1> DEFINE n == [status |-> "DRAFT", invoice |-> i, total |-> total, refunded |-> 0]
<1>1. n \in CreditNote /\ n.refunded = 0 /\ n.total >= 0
  BY DEF CreditNote
<1> HIDE DEF n
<1>2. creditNote' = [creditNote EXCEPT ![c] = n]
  BY DEF DraftCreditNote, n
<1>3. NotesStep
  BY <1>1, <1>2 DEF NotesStep, LedgerInv, ReceivablesTypeOK, NoteInv
<1> QED
  BY <1>3, OnlyNotes DEF DraftCreditNote

LEMMA CancelKeeps ==
  ASSUME LedgerInv, NEW c \in CreditNotes, CancelCreditNote(c)
  PROVE  LedgerInv'
<1> DEFINE n == [creditNote[c] EXCEPT !.status = "CANCELLED"]
<1>1. creditNote[c] \in CreditNote
  BY NoteFields DEF CancelCreditNote, LedgerInv
<1>2. n \in CreditNote /\ n.refunded <= n.total
  <2>1. creditNote[c].status # "none" /\ NoteInv(c)
    BY DEF CancelCreditNote, LedgerInv
  <2> QED
    BY <1>1, <2>1 DEF CreditNote, NoteInv
<1> HIDE DEF n
<1>3. creditNote' = [creditNote EXCEPT ![c] = n]
  BY DEF CancelCreditNote, n
<1>4. NotesStep
  BY <1>2, <1>3 DEF NotesStep, LedgerInv, ReceivablesTypeOK, NoteInv
<1> QED
  BY <1>4, OnlyNotes DEF CancelCreditNote

LEMMA CreditKeeps ==
  ASSUME LedgerInv, NEW c \in CreditNotes, IssueCreditNote(c)
  PROVE  LedgerInv'
<1>0. PICK i \in Invoices : i = creditNote[c].invoice
  BY NoteFields DEF IssueCreditNote, LedgerInv
<1> DEFINE total == creditNote[c].total
           old == invoice[i]
           credited == [old EXCEPT !.credited = @ + total]
           inv == IF Balance(credited) <= 0 THEN [credited EXCEPT !.status = "PAID"] ELSE credited
           n == [creditNote[c] EXCEPT !.status = "ISSUED"]
<1>1. creditNote[c] \in CreditNote  /\ total \in Nat /\ creditNote[c].refunded \in Nat
  BY <1>0, NoteFields DEF IssueCreditNote, LedgerInv
<1>2. old \in Invoice /\ old.amount \in Nat /\ old.paid \in Nat /\ old.credited \in Nat
      /\ old.refunded \in Nat /\ receivable[i] \in Int /\ bank[i] \in Int
  BY <1>1, InvoiceFields DEF LedgerInv
<1>3. credited \in Invoice
  BY <1>1, <1>2 DEF Invoice
<1>4. /\ inv \in Invoice /\ inv.amount = old.amount /\ inv.paid = old.paid
      /\ inv.credited = old.credited + total /\ inv.refunded = old.refunded
      /\ inv.status = IF Balance(inv) <= 0 THEN "PAID" ELSE old.status
  BY <1>1, <1>2, <1>3 DEF Invoice, Balance
<1>5. /\ invoice' = [invoice EXCEPT ![i] = inv]
      /\ receivable' = [receivable EXCEPT ![i] = receivable[i] - total]
      /\ bank' = [bank EXCEPT ![i] = bank[i]]
      /\ creditNote' = [creditNote EXCEPT ![c] = n]
  BY <1>0, <1>1 DEF IssueCreditNote, LedgerInv, ReceivablesTypeOK
<1>6. invoice'[i] = inv /\ receivable'[i] = receivable[i] - total /\ bank'[i] = bank[i]
  BY <1>1, <1>5 DEF LedgerInv, ReceivablesTypeOK
<1>7. Live(old) /\ total <= Creditable(old) /\ creditNote[c].status = "DRAFT" /\ Bounds(i) /\ Told(i)
  BY <1>0, <1>1 DEF IssueCreditNote, LedgerInv
<1>8. n \in CreditNote /\ n.refunded <= n.total
  <2>1. creditNote[c].status # "none" /\ NoteInv(c)
    BY <1>7 DEF LedgerInv
  <2> QED
    BY <1>1, <2>1 DEF CreditNote, NoteInv
<1> HIDE DEF inv, n
<1>9. Bounds(i)'
  BY <1>1, <1>2, <1>4, <1>6, <1>7 DEF Bounds, Live, Creditable
<1>10. Told(i)'
  BY <1>1, <1>2, <1>4, <1>6, <1>7 DEF Told, Live, Balance
<1>11. InvoiceStep(i)
  BY <1>1, <1>2, <1>4, <1>5, <1>9, <1>10 DEF InvoiceStep, LedgerInv, ReceivablesTypeOK
<1>12. NotesStep
  BY <1>5, <1>8 DEF NotesStep, LedgerInv, ReceivablesTypeOK, NoteInv
<1> QED
  BY <1>1, <1>11, <1>12, OneInvoice

LEMMA RefundKeeps ==
  ASSUME LedgerInv, NEW c \in CreditNotes, NEW amount \in 1..MaxBilled, RefundCreditNote(c, amount)
  PROVE  LedgerInv'
<1>0. PICK i \in Invoices : i = creditNote[c].invoice
  BY NoteFields DEF RefundCreditNote, LedgerInv
<1> DEFINE old == invoice[i]
           inv == [old EXCEPT !.refunded = @ + amount]
           n == [creditNote[c] EXCEPT !.refunded = @ + amount]
<1>1. /\ creditNote[c] \in CreditNote 
      /\ creditNote[c].total \in Nat /\ creditNote[c].refunded \in Nat /\ amount \in Nat \ {0}
  BY <1>0, NoteFields DEF RefundCreditNote, LedgerInv
<1>2. old \in Invoice /\ old.amount \in Nat /\ old.paid \in Nat /\ old.credited \in Nat
      /\ old.refunded \in Nat /\ receivable[i] \in Int /\ bank[i] \in Int
  BY <1>1, InvoiceFields DEF LedgerInv
<1>3. /\ inv \in Invoice /\ inv.status = old.status /\ inv.amount = old.amount
      /\ inv.paid = old.paid /\ inv.credited = old.credited /\ inv.refunded = old.refunded + amount
  BY <1>1, <1>2 DEF Invoice
<1>4. /\ invoice' = [invoice EXCEPT ![i] = inv]
      /\ receivable' = [receivable EXCEPT ![i] = receivable[i] + amount]
      /\ bank' = [bank EXCEPT ![i] = bank[i] - amount]
      /\ creditNote' = [creditNote EXCEPT ![c] = n]
  BY <1>0, <1>1 DEF RefundCreditNote, LedgerInv, ReceivablesTypeOK
<1>5. /\ invoice'[i] = inv /\ receivable'[i] = receivable[i] + amount
      /\ bank'[i] = bank[i] - amount
  BY <1>1, <1>4 DEF LedgerInv, ReceivablesTypeOK
<1>6. /\ Bounds(i) /\ Told(i) /\ amount <= Refundable(old)
      /\ amount <= creditNote[c].total - creditNote[c].refunded
  BY <1>0, <1>1 DEF RefundCreditNote, LedgerInv
<1>7. n \in CreditNote /\ n.refunded <= n.total
  BY <1>1, <1>6 DEF CreditNote
<1> HIDE DEF inv, n
<1>8. Balance(old) < 0 /\ amount <= -Balance(old) /\ Balance(old) \in Int
  BY <1>1, <1>2, <1>6 DEF Refundable, Balance
<1>9. Live(old)
  BY <1>1, <1>2, <1>6, <1>8 DEF Bounds, Balance
<1>10. Bounds(i)'
  BY <1>1, <1>2, <1>3, <1>5, <1>6, <1>8, <1>9 DEF Bounds, Live, Balance
<1>11. Told(i)'
  BY <1>1, <1>2, <1>3, <1>5, <1>6, <1>8, <1>9 DEF Told, Live, Balance
<1>12. InvoiceStep(i)
  BY <1>1, <1>2, <1>3, <1>4, <1>10, <1>11 DEF InvoiceStep, LedgerInv, ReceivablesTypeOK
<1>13. NotesStep
  BY <1>4, <1>7 DEF NotesStep, LedgerInv, ReceivablesTypeOK, NoteInv
<1> QED
  BY <1>1, <1>12, <1>13, OneInvoice

LEMMA LedgerInvStep == LedgerInv /\ [ReceivablesNext]_receivablesVars => LedgerInv'
<1> SUFFICES ASSUME LedgerInv, [ReceivablesNext]_receivablesVars PROVE LedgerInv'
  OBVIOUS
<1>1. ASSUME NEW i \in Invoices, VoidInvoice(i) PROVE LedgerInv'
  BY <1>1, VoidKeeps
<1>2. ASSUME NEW i \in Invoices, NEW amount \in 1..MaxBilled,
             IssueInvoice(i, amount) \/ ReceivePayment(i, amount)
      PROVE LedgerInv'
  BY <1>2, IssueKeeps, PaymentKeeps
<1>3. ASSUME NEW i \in Invoices, NEW amount \in 1..MaxBilled, NEW c \in CreditNotes,
             DraftCreditNote(c, i, amount)
      PROVE LedgerInv'
  BY <1>3, DraftKeeps
<1>4. ASSUME NEW c \in CreditNotes, CancelCreditNote(c) \/ IssueCreditNote(c) PROVE LedgerInv'
  BY <1>4, CancelKeeps, CreditKeeps
<1>5. ASSUME NEW c \in CreditNotes, NEW amount \in 1..MaxBilled, RefundCreditNote(c, amount)
      PROVE LedgerInv'
  BY <1>5, RefundKeeps
<1>6. CASE UNCHANGED receivablesVars
  BY <1>6, NotesUnchanged, OnlyNotes DEF receivablesVars
<1> QED
  BY <1>1, <1>2, <1>3, <1>4, <1>5, <1>6 DEF ReceivablesNext

LEMMA LedgerAlways == ReceivablesSpec => []LedgerInv
<1> QED
  BY LedgerInvInit, LedgerInvStep, PTL DEF ReceivablesSpec

--------------------------------------------------------------------------------

(* The rows and the balances keep their types: no refund, payment or void     *)
(* makes a figure of an invoice negative.                                     *)
THEOREM ReceivablesTypeCorrect == ReceivablesSpec => []ReceivablesTypeOK
<1>1. LedgerInv => ReceivablesTypeOK
  BY DEF LedgerInv
<1> QED
  BY <1>1, LedgerAlways, PTL

(* The journal agrees with the invoices, in whatever order they are paid,     *)
(* credited, refunded and voided.                                             *)
THEOREM LedgerCorrect == ReceivablesSpec => []LedgerTellsInvoice
<1>1. LedgerInv => LedgerTellsInvoice
  BY DEF LedgerInv, Told, LedgerTellsInvoice
<1> QED
  BY <1>1, LedgerAlways, PTL

(* Only money received is refunded, and no invoice credited beyond its amount.*)
THEOREM RefundsCorrect == ReceivablesSpec => []RefundsWereReceived
<1>1. LedgerInv => RefundsWereReceived
  BY DEF LedgerInv, Bounds, NoteInv, RefundsWereReceived
<1> QED
  BY <1>1, LedgerAlways, PTL
================================================================================
