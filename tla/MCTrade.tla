-------------------------------- MODULE MCTrade --------------------------------
(* Purchasing, stock and payables, a sales order with its receivables, and    *)
(* the jobs of the shop floor, on small instances.  A behaviour moves one     *)
(* part, so that the states explored are the sum of the parts' states rather  *)
(* than their product:                                                        *)
(*  - "sending" and "stock" both have the purchase orders and their receipts; *)
(*    sending moves an order between APPROVED and SENT only, which expect the *)
(*    same goods, and never touches the stock row.  Closing short before any  *)
(*    receipt, which takes a SENT order, is in "sending";                     *)
(*  - "bills": what the payables read of a purchase is the quantity received  *)
(*    of an order line, which receipts make grow and nothing else; the part   *)
(*    makes it grow by itself;                                                *)
(*  - "billing" and "floor" both have the sales order and its deliveries;     *)
(*    production moves the order between OPEN and IN_PRODUCTION only, which   *)
(*    no action of the billing or of the deliveries tells apart;              *)
(*  - "ledger" has the money of the sales invoices, of which the order sees   *)
(*    no more than that an invoice is live or voided;                         *)
(*  - "costing" has jobs from their planning to their completion, of which    *)
(*    the sales order sees no more than that one was planned or cancelled.    *)
EXTENDS MCPurchaseStock, MCSupplierBills, MCSalesOrders, Receivables, JobCosting

CONSTANTS
    o1, o2, k2, k3,
    MaxPapers,   \* bound: supplier bills and payments of them together
    MaxBusy      \* bound: jobs begun, units issued, entries and payroll runs together

VARIABLE part   \* the part a behaviour moves

tradeVars == <<purchaseVars, vars, salesVars, receivablesVars, costingVars>>

(* The first purchase order has two lines, the second one. *)
TheOrders == k1 :> o1 @@ k2 :> o1 @@ k3 :> o2
OneOfEach == [l \in Lines |-> 1]

Stage(trigger, percent) == [trigger |-> trigger, percent |-> percent]
Deposit == <<Stage("ON_APPROVAL", 50), Stage("MANUAL", 50)>>
EachDelivery == <<Stage("ON_DELIVERY", 100)>>
Milestones == <<Stage("MANUAL", 30), Stage("MANUAL", 30), Stage("MANUAL", 40)>>
TheSchedules == {Deposit, EachDelivery, Milestones}
OneEach == [l \in Items |-> 1]
PriceThree == [l \in Items |-> 3]

Papers == Cardinality({b \in Bills : row[b] # NoRow})
              + Cardinality({p \in Payments : payment[p] # NoPayment})
Busy == Cardinality({j \in Jobs : job[j] # NewJob}) + SumFunction([j \in Jobs |-> job[j].issued])
            + Cardinality(Recorded) + Cardinality({r \in PayRuns : payRun[r] # NoPayRun})

PartsInit ==
    /\ part \in {"sending", "stock", "bills", "billing", "floor", "ledger", "costing"}
    /\ PurchaseInit /\ Init /\ SalesInit /\ ReceivablesInit /\ CostingInit
    /\ part # "billing" => terms = [total |-> 5, schedule |-> Milestones]
PartsNext ==
    /\ UNCHANGED part
    /\ \/ /\ \/ part \in {"sending", "stock"} /\ \E o \in Orders : OrderStep(o)
             \/ part = "sending" /\ \E s \in Senders : SendStep(s)
             \/ part = "stock" /\ PositionStep
          /\ UNCHANGED <<vars, salesVars, receivablesVars, costingVars>>
       \/ /\ part = "bills" /\ Next /\ Papers' <= MaxPapers
          /\ UNCHANGED <<purchaseVars, salesVars, receivablesVars, costingVars>>
       \/ /\ part = "billing" /\ (OrderNext \/ BillingNext \/ DeliveryNext)
          /\ UNCHANGED <<purchaseVars, vars, receivablesVars, costingVars>>
       \/ /\ part = "floor" /\ (OrderNext \/ DeliveryNext \/ ProductionNext)
          /\ UNCHANGED <<purchaseVars, vars, receivablesVars, costingVars>>
       \/ /\ part = "ledger" /\ ReceivablesNext
          /\ UNCHANGED <<purchaseVars, vars, salesVars, costingVars>>
       \/ /\ part = "costing" /\ CostingNext /\ Busy' <= MaxBusy
          /\ UNCHANGED <<purchaseVars, vars, salesVars, receivablesVars>>
PartsSpec == PartsInit /\ [][PartsNext]_<<part, tradeVars>>

(* The purchase, the bills, the sales order, the money and the jobs keep      *)
(* their types.                                                               *)
TradeTypeOK == PurchaseTypeOK /\ TypeOK /\ SalesTypeOK /\ ReceivablesTypeOK /\ CostingTypeOK

(* The parts share their model values: what is interchangeable in one part is *)
(* so in all of them.                                                         *)
Interchangeable ==
    Permutations(Senders \cup Bills \cup Notes \cup Invoices \cup Jobs)
        \cup Permutations(Payments \cup Requests \cup CreditNotes \cup Entries
                         \cup PayRuns)
================================================================================
