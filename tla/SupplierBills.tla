---------------------------- MODULE SupplierBills ----------------------------
(***************************************************************************)
(* Supplier bills from entry to payment.  A draft bill is matched against  *)
(* what was received and what other bills already claim; approval repeats  *)
(* the match under locks and posts the liability; payments and reversals   *)
(* move cash and the payables account.                                     *)
(*                                                                         *)
(* Approval and payments run in one transaction that holds the bill's row. *)
(* Dispute, reopen and cancel do not: they load the bill, check it in      *)
(* memory and save it (EntitySave), so other requests run in between.      *)
(***************************************************************************)
EXTENDS Integers, Sequences, FiniteSets, Functions, EntitySave

CONSTANTS
    Bills,        \* bills that may be entered
    OrderLines,   \* purchase order lines goods are received on
    NoOrder,      \* the order line of a bill line that bills no goods
    Numbers,      \* the supplier's invoice numbers
    Documents,    \* the invoices a supplier may send
    Payments,     \* payments that may be recorded
    Editors,      \* dispute, reopen and cancel requests in progress at once
    MaxReceived,  \* bound: units received per order line
    MaxEntries,   \* bound: approvals of a bill
    MaxAmount     \* bound: the amount of a payment

(* A line bills a quantity of an order line; dear tells that its price is  *)
(* above the ordered price by more than the tolerance.                     *)
Line == [order : OrderLines \cup {NoOrder}, qty : Nat \ {0}, dear : BOOLEAN]

ASSUME BillsAssumption ==
    /\ IsFiniteSet(Bills) /\ IsFiniteSet(Payments)
    /\ NoOrder \notin OrderLines
    /\ Documents \subseteq [number : Numbers, lines : Seq(Line), total : Nat \ {0}]
    /\ MaxReceived \in Nat /\ MaxEntries \in Nat /\ MaxAmount \in Nat

VARIABLES
    received,   \* units received per order line
    doc,        \* the invoice a bill was entered from
    row,        \* the bill's row
    payment,    \* payments recorded
    cash,       \* balance of the account payments are made from
    payable,    \* what the payables account owes
    edit,       \* what a dispute, reopen or cancel request has loaded
    entries,    \* ghost: journal entries posted by approvals of the bill
    raced       \* ghost: a save hit a row that changed since it was loaded

vars == <<received, doc, row, payment, cash, payable, edit, entries, raced>>

--------------------------------------------------------------------------------

LiveBillStatuses == {"DRAFT", "DISPUTED", "APPROVED", "PARTIALLY_PAID", "PAID"}
PostedBillStatuses == {"APPROVED", "PARTIALLY_PAID", "PAID"}

(* Variant: an approved bill can still be cancelled. *)
BillTransitionsCancelPosted ==
    [ABSENT         |-> {},
     DRAFT          |-> {"APPROVED", "DISPUTED", "CANCELLED"},
     DISPUTED       |-> {"DRAFT", "CANCELLED"},
     APPROVED       |-> {"PARTIALLY_PAID", "PAID", "CANCELLED"},
     PARTIALLY_PAID |-> {"PAID", "APPROVED"},
     PAID           |-> {"PARTIALLY_PAID"},
     CANCELLED      |-> {}]

(* ABSENT stands for a bill that has no row yet. *)
BillTransitions ==
    [ABSENT         |-> {},
     DRAFT          |-> {"APPROVED", "DISPUTED", "CANCELLED"},
     DISPUTED       |-> {"DRAFT", "CANCELLED"},
     APPROVED       |-> {"PARTIALLY_PAID", "PAID"},
     PARTIALLY_PAID |-> {"PAID", "APPROVED"},
     PAID           |-> {"PARTIALLY_PAID"},
     CANCELLED      |-> {}]
Statuses == DOMAIN BillTransitions

Row == [status : Statuses, match : {"UNMATCHED", "MATCHED", "VARIANCE"},
        varianceApproved : BOOLEAN, journal : BOOLEAN, paid : Int]
NoRow == [status |-> "ABSENT", match |-> "UNMATCHED", varianceApproved |-> FALSE,
          journal |-> FALSE, paid |-> 0]

NoDocument == [lines |-> << >>, total |-> 0]
NoPayment == [amount |-> 0]
NoEdit == [at |-> "none"]
Edit == [at : {"loaded", "compared"}, bill : Bills, base : Row, copy : Row,
         dirty : SUBSET DOMAIN NoRow]

Init ==
    /\ received = [l \in OrderLines |-> 0]
    /\ doc = [b \in Bills |-> NoDocument]
    /\ row = [b \in Bills |-> NoRow]
    /\ payment = [p \in Payments |-> NoPayment]
    /\ cash = 0 /\ payable = 0
    /\ edit = [e \in Editors |-> NoEdit]
    /\ entries = [b \in Bills |-> 0]
    /\ raced = [b \in Bills |-> FALSE]

--------------------------------------------------------------------------------
(* The three-way match. *)

QtyOn(d, l) ==
    SumFunction([i \in {n \in DOMAIN d.lines : d.lines[n].order = l} |-> d.lines[i].qty])

(* Variant: a bill that is partly paid no longer counts as billing goods. *)
BilledElsewhereForgetsPartlyPaid(b, l, statuses) ==
    SumFunction([o \in {p \in Bills \ {b} : row[p].status \in statuses \ {"PARTIALLY_PAID"}} |->
                   QtyOn(doc[o], l)])

BilledElsewhere(b, l, statuses) ==
    SumFunction([o \in {p \in Bills \ {b} : row[p].status \in statuses} |-> QtyOn(doc[o], l)])

Linked(d) == {i \in DOMAIN d.lines : d.lines[i].order # NoOrder}

(* Each line is compared by itself with what is left to bill. *)
QuantityVariance(d, b, statuses) ==
    \E i \in Linked(d) :
        LET line == d.lines[i]
        IN  line.qty > received[line.order] - BilledElsewhere(b, line.order, statuses)

PriceVariance(d) == \E i \in Linked(d) : d.lines[i].dear

MatchStatus(d, b, statuses) ==
    IF Linked(d) = {} THEN "UNMATCHED"
    ELSE IF QuantityVariance(d, b, statuses) \/ PriceVariance(d) THEN "VARIANCE" ELSE "MATCHED"

--------------------------------------------------------------------------------
(* Entry and approval. *)

(* Goods arrive: the order line's quantity received grows. *)
Receive(l) ==
    /\ received[l] < MaxReceived
    /\ received' = [received EXCEPT ![l] = @ + 1]
    /\ UNCHANGED <<doc, row, payment, cash, payable, edit, entries, raced>>

(* The unique index on the supplier's invoice number of live bills. *)
NumberTaken(b, number) ==
    \E o \in Bills \ {b} : row[o].status \in LiveBillStatuses /\ doc[o].number = number

(* A variance does not block entry. *)
Create(b, d) ==
    /\ row[b].status = "ABSENT" /\ ~NumberTaken(b, d.number)
    /\ doc' = [doc EXCEPT ![b] = d]
    /\ row' = [row EXCEPT ![b] = [NoRow EXCEPT !.status = "DRAFT",
                                               !.match = MatchStatus(d, b, LiveBillStatuses)]]
    /\ UNCHANGED <<received, payment, cash, payable, edit, entries, raced>>

(* Quantity is refused for everyone, price for those who may not accept it; *)
(* the bill's row and its order lines are locked throughout.  The table is  *)
(* the one that lists the moves of a payment too: it also lets a bill that  *)
(* is partly paid be approved.                                              *)
Approve(b, mayApproveVariance) ==
    /\ entries[b] < MaxEntries
    /\ "APPROVED" \in BillTransitions[row[b].status]
    /\ ~QuantityVariance(doc[b], b, PostedBillStatuses)
    /\ PriceVariance(doc[b]) => mayApproveVariance
    /\ row' = [row EXCEPT ![b] = [status |-> "APPROVED",
                                  match |-> MatchStatus(doc[b], b, PostedBillStatuses),
                                  varianceApproved |-> PriceVariance(doc[b]),
                                  journal |-> TRUE, paid |-> @.paid]]
    /\ entries' = [entries EXCEPT ![b] = @ + 1]
    /\ payable' = payable + doc[b].total
    /\ UNCHANGED <<received, doc, payment, cash, edit, raced>>

--------------------------------------------------------------------------------
(* Dispute, reopen and cancel: load and check, compare, update. *)

Load(e, b, to) ==
    /\ edit[e] = NoEdit
    /\ to \in BillTransitions[row[b].status] \cap {"DISPUTED", "DRAFT", "CANCELLED"}
    /\ edit' = [edit EXCEPT ![e] = [at |-> "loaded", bill |-> b, base |-> row[b],
                                    copy |-> [row[b] EXCEPT !.status = to], dirty |-> {}]]
    /\ UNCHANGED <<received, doc, row, payment, cash, payable, entries, raced>>

Compare(e) ==
    /\ edit[e].at = "loaded"
    /\ edit' = [edit EXCEPT ![e].at = "compared",
                            ![e].dirty = Dirty(edit[e].copy, row[edit[e].bill])]
    /\ UNCHANGED <<received, doc, row, payment, cash, payable, entries, raced>>

(* The update fails, and changes nothing, when it would give the supplier's *)
(* invoice a second live bill.                                              *)
Save(e) ==
    /\ edit[e].at = "compared"
    /\ LET b == edit[e].bill
           new == Saved(edit[e].copy, row[b], edit[e].dirty)
       IN  IF new.status \in LiveBillStatuses /\ NumberTaken(b, doc[b].number)
           THEN UNCHANGED <<row, raced>>
           ELSE /\ row' = [row EXCEPT ![b] = new]
                /\ raced' = [raced EXCEPT ![b] = @ \/ row[b] \notin {edit[e].base, new}]
    /\ edit' = [edit EXCEPT ![e] = NoEdit]
    /\ UNCHANGED <<received, doc, payment, cash, payable, entries>>

--------------------------------------------------------------------------------
(* Payments, under the lock of the bill. *)

Outstanding(b) == doc[b].total - row[b].paid

(* Variant: the payment overwrites what was paid before. *)
RecordPaymentOver(p, b, amount) ==
    /\ payment[p] = NoPayment
    /\ row[b].status \in {"APPROVED", "PARTIALLY_PAID"}
    /\ amount > 0 /\ amount <= Outstanding(b)
    /\ payment' = [payment EXCEPT ![p] = [bill |-> b, amount |-> amount, reversed |-> FALSE]]
    /\ row' = [row EXCEPT ![b].paid = amount,
                          ![b].status = IF amount = doc[b].total THEN "PAID"
                                        ELSE "PARTIALLY_PAID"]
    /\ cash' = cash - amount
    /\ payable' = payable - amount
    /\ UNCHANGED <<received, doc, edit, entries, raced>>

(* Cash, the payables account and the bill move together. *)
RecordPayment(p, b, amount) ==
    /\ payment[p] = NoPayment
    /\ row[b].status \in {"APPROVED", "PARTIALLY_PAID"}
    /\ amount > 0 /\ amount <= Outstanding(b)
    /\ payment' = [payment EXCEPT ![p] = [bill |-> b, amount |-> amount, reversed |-> FALSE]]
    /\ row' = [row EXCEPT ![b].paid = @ + amount,
                          ![b].status = IF amount = Outstanding(b) THEN "PAID"
                                        ELSE "PARTIALLY_PAID"]
    /\ cash' = cash - amount
    /\ payable' = payable - amount
    /\ UNCHANGED <<received, doc, edit, entries, raced>>

(* Variant: the payables account is left at what the payment made it. *)
ReversePaymentCashOnly(p) ==
    /\ payment[p] # NoPayment /\ ~payment[p].reversed
    /\ LET b == payment[p].bill
           left == row[b].paid - payment[p].amount
       IN  row' = [row EXCEPT ![b].paid = left,
                              ![b].status = IF left <= 0 THEN "APPROVED" ELSE "PARTIALLY_PAID"]
    /\ payment' = [payment EXCEPT ![p].reversed = TRUE]
    /\ cash' = cash + payment[p].amount
    /\ UNCHANGED <<received, doc, payable, edit, entries, raced>>

(* The status of the bill is not looked at. *)
ReversePayment(p) ==
    /\ payment[p] # NoPayment /\ ~payment[p].reversed
    /\ LET b == payment[p].bill
           left == row[b].paid - payment[p].amount
       IN  row' = [row EXCEPT ![b].paid = left,
                              ![b].status = IF left <= 0 THEN "APPROVED" ELSE "PARTIALLY_PAID"]
    /\ payment' = [payment EXCEPT ![p].reversed = TRUE]
    /\ cash' = cash + payment[p].amount
    /\ payable' = payable + payment[p].amount
    /\ UNCHANGED <<received, doc, edit, entries, raced>>

--------------------------------------------------------------------------------

Next ==
    \/ \E l \in OrderLines : Receive(l)
    \/ \E b \in Bills : \/ \E d \in Documents : Create(b, d)
                        \/ \E may \in BOOLEAN : Approve(b, may)
    \/ \E e \in Editors : \/ \E b \in Bills, to \in Statuses : Load(e, b, to)
                          \/ Compare(e)
                          \/ Save(e)
    \/ \E p \in Payments : \/ \E b \in Bills, amount \in 0..MaxAmount :
                                RecordPayment(p, b, amount)
                           \/ ReversePayment(p)

Spec == Init /\ [][Next]_vars

--------------------------------------------------------------------------------
(* Properties *)

(* Types of the rows, the loaded copies and the accounts. *)
TypeOK ==
    /\ received \in [OrderLines -> 0..MaxReceived]
    /\ doc \in [Bills -> Documents \cup {NoDocument}]
    /\ row \in [Bills -> Row]
    /\ payment \in [Payments -> [bill : Bills, amount : Nat, reversed : BOOLEAN] \cup {NoPayment}]
    /\ cash \in Int /\ payable \in Int
    /\ edit \in [Editors -> Edit \cup {NoEdit}]
    /\ entries \in [Bills -> Nat]
    /\ raced \in [Bills -> BOOLEAN]

Posted(b) == row[b].status \in PostedBillStatuses

(* A status says whether the bill has posted: unless a save ran over it, a  *)
(* bill that is approved or paid has its journal entry, and one that can    *)
(* still be disputed, reopened or cancelled has none.                       *)
StatusTellsPosting ==
    \A b \in Bills : ~raced[b] => /\ Posted(b) <=> entries[b] > 0
                                  /\ Posted(b) <=> row[b].journal

OneLinePerOrderLine(b) ==
    \A i, j \in Linked(doc[b]) : doc[b].lines[i].order = doc[b].lines[j].order => i = j

(* However drafts, approvals and payments interleave, the bills that have   *)
(* posted do not claim more of an order line than has arrived, provided no  *)
(* invoice lists an order line twice and no save ran over an approval.      *)
BilledWithinReceived ==
    (\A b \in Bills : ~raced[b] /\ (Posted(b) => OneLinePerOrderLine(b))) =>
        \A l \in OrderLines :
            SumFunction([b \in {p \in Bills : Posted(p)} |-> QtyOn(doc[b], l)]) <= received[l]

StandingPayments == {p \in Payments : payment[p] # NoPayment /\ ~payment[p].reversed}
PaidBy(ps) == SumFunction([p \in ps |-> payment[p].amount])
PaidIn(b) == PaidBy({p \in StandingPayments : payment[p].bill = b})

(* What a bill says was paid is what its payments come to, and never more   *)
(* than the bill; the account they were made from has lost as much as the   *)
(* payments that were not reversed come to.                                 *)
PaidTellsPayments ==
    /\ \A b \in Bills : row[b].paid <= doc[b].total /\ (~raced[b] => row[b].paid = PaidIn(b))
    /\ cash = -PaidBy(StandingPayments)

OpenBills == {b \in Bills : row[b].status \in {"APPROVED", "PARTIALLY_PAID"}}

(* What the aging report calls its difference is nil: the payables account  *)
(* owes what the open bills leave outstanding, unless a bill was saved over *)
(* or approved a second time.                                               *)
PayablesAgree ==
    (\A b \in Bills : ~raced[b] /\ entries[b] <= 1) =>
        payable = SumFunction([b \in OpenBills |-> Outstanding(b)])

(* No bill is approved twice: one liability per invoice. *)
PostsOnce == \A b \in Bills : entries[b] <= 1
================================================================================
