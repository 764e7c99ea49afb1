------------------------------ MODULE Receivables ------------------------------
(***************************************************************************)
(* What a customer owes on an invoice: issuing it, payments, voiding it,   *)
(* credit notes and refunds, with what each posts to receivables and to    *)
(* the cash account.  Every operation is one transaction that locks the    *)
(* invoice; a credit note is locked before its invoice.  Amounts are whole *)
(* units of one currency.                                                  *)
(***************************************************************************)
EXTENDS Integers

CONSTANTS
    Invoices,     \* invoices
    CreditNotes,  \* credit notes
    MaxBilled     \* bound: the largest invoice

ASSUME ReceivablesAssumption == MaxBilled \in Nat

VARIABLES
    invoice,     \* the row of an invoice
    creditNote,  \* the row of a credit note
    receivable,  \* the balance of the journal on receivables, per invoice
    bank         \* the balance of the cash account, per invoice

receivablesVars == <<invoice, creditNote, receivable, bank>>

Unissued == [status |-> "none", amount |-> 0, paid |-> 0, credited |-> 0, refunded |-> 0]
Invoice == [status : {"none", "ISSUED", "PARTIALLY_PAID", "PAID", "CANCELLED"},
            amount : Nat, paid : Nat, credited : Nat, refunded : Nat]

Unwritten == [status |-> "none"]
CreditNote == [status : {"DRAFT", "ISSUED", "CANCELLED"}, invoice : Invoices,
               total : Nat, refunded : Nat]

ReceivablesInit ==
    /\ invoice = [i \in Invoices |-> Unissued]
    /\ creditNote = [c \in CreditNotes |-> Unwritten]
    /\ receivable = [i \in Invoices |-> 0]
    /\ bank = [i \in Invoices |-> 0]

--------------------------------------------------------------------------------
(* The position of an invoice. *)

Live(inv) == inv.status \in {"ISSUED", "PARTIALLY_PAID", "PAID"}

Balance(inv) == inv.amount - inv.paid - inv.credited + inv.refunded
Creditable(inv) == IF inv.amount > inv.credited THEN inv.amount - inv.credited ELSE 0
Refundable(inv) == IF Balance(inv) < 0 THEN -Balance(inv) ELSE 0

--------------------------------------------------------------------------------
(* Invoices. *)

(* Debits receivables with the whole amount. *)
IssueInvoice(i, amount) ==
    /\ invoice[i].status = "none"
    /\ invoice' = [invoice EXCEPT ![i] = [Unissued EXCEPT !.status = "ISSUED", !.amount = amount]]
    /\ receivable' = [receivable EXCEPT ![i] = @ + amount]
    /\ UNCHANGED <<creditNote, bank>>

(* No more than the remaining balance; the total is the sum of the payments. *)
ReceivePayment(i, amount) ==
    LET paid == [invoice[i] EXCEPT !.paid = @ + amount] IN
    /\ invoice[i].status \in {"ISSUED", "PARTIALLY_PAID"}
    /\ amount > 0 /\ amount <= Balance(invoice[i])
    /\ invoice' = [invoice EXCEPT ![i] =
                     [paid EXCEPT !.status = IF Balance(paid) <= 0 THEN "PAID" ELSE "PARTIALLY_PAID"]]
    /\ receivable' = [receivable EXCEPT ![i] = @ - amount]
    /\ bank' = [bank EXCEPT ![i] = @ + amount]
    /\ UNCHANGED creditNote

(* Variant: voided underneath its credit notes. *)
VoidInvoiceCredited(i) ==
    /\ Live(invoice[i])
    /\ invoice' = [invoice EXCEPT ![i].status = "CANCELLED"]
    /\ receivable' = [receivable EXCEPT ![i] = @ + invoice[i].paid - invoice[i].amount]
    /\ bank' = [bank EXCEPT ![i] = @ - invoice[i].paid]
    /\ UNCHANGED creditNote

(* Reverses every payment and the posting of the issue.  A payment kept from *)
(* before accounts were recorded has none and is skipped; here all have one. *)
VoidInvoice(i) ==
    /\ Live(invoice[i]) /\ invoice[i].credited = 0
    /\ invoice' = [invoice EXCEPT ![i].status = "CANCELLED"]
    /\ receivable' = [receivable EXCEPT ![i] = @ + invoice[i].paid - invoice[i].amount]
    /\ bank' = [bank EXCEPT ![i] = @ - invoice[i].paid]
    /\ UNCHANGED creditNote

--------------------------------------------------------------------------------
(* Credit notes. *)

(* Checked against the invoice as it was read, without a lock: the draft is *)
(* taken to exist from that moment, as nobody looks for it before it is     *)
(* saved.                                                                   *)
DraftCreditNote(c, i, total) ==
    /\ creditNote[c] = Unwritten
    /\ Live(invoice[i])
    /\ total > 0 /\ total <= Creditable(invoice[i])
    /\ creditNote' = [creditNote EXCEPT ![c] =
                        [status |-> "DRAFT", invoice |-> i, total |-> total, refunded |-> 0]]
    /\ UNCHANGED <<invoice, receivable, bank>>

CancelCreditNote(c) ==
    /\ creditNote[c].status = "DRAFT"
    /\ creditNote' = [creditNote EXCEPT ![c].status = "CANCELLED"]
    /\ UNCHANGED <<invoice, receivable, bank>>

(* Variant: what was checked when it was drafted is taken to stand. *)
IssueCreditNoteUnchecked(c) ==
    LET i == creditNote[c].invoice
        credited == [invoice[i] EXCEPT !.credited = @ + creditNote[c].total]
    IN  /\ creditNote[c].status = "DRAFT"
        /\ Live(invoice[i])
        /\ creditNote' = [creditNote EXCEPT ![c].status = "ISSUED"]
        /\ invoice' = [invoice EXCEPT ![i] =
                         IF Balance(credited) <= 0 THEN [credited EXCEPT !.status = "PAID"]
                         ELSE credited]
        /\ receivable' = [receivable EXCEPT ![i] = @ - creditNote[c].total]
        /\ UNCHANGED bank

(* Checked again under the lock.  An invoice with nothing left to collect *)
(* is PAID.                                                               *)
IssueCreditNote(c) ==
    LET i == creditNote[c].invoice
        credited == [invoice[i] EXCEPT !.credited = @ + creditNote[c].total]
    IN  /\ creditNote[c].status = "DRAFT"
        /\ Live(invoice[i])
        /\ creditNote[c].total <= Creditable(invoice[i])
        /\ creditNote' = [creditNote EXCEPT ![c].status = "ISSUED"]
        /\ invoice' = [invoice EXCEPT ![i] =
                         IF Balance(credited) <= 0 THEN [credited EXCEPT !.status = "PAID"]
                         ELSE credited]
        /\ receivable' = [receivable EXCEPT ![i] = @ - creditNote[c].total]
        /\ UNCHANGED bank

(* Only what was paid beyond what is owed, and only once per note. *)
RefundCreditNote(c, amount) ==
    LET i == creditNote[c].invoice IN
    /\ creditNote[c].status = "ISSUED"
    /\ amount > 0
    /\ amount <= creditNote[c].total - creditNote[c].refunded
    /\ amount <= Refundable(invoice[i])
    /\ creditNote' = [creditNote EXCEPT ![c].refunded = @ + amount]
    /\ invoice' = [invoice EXCEPT ![i].refunded = @ + amount]
    /\ receivable' = [receivable EXCEPT ![i] = @ + amount]
    /\ bank' = [bank EXCEPT ![i] = @ - amount]

ReceivablesNext ==
    \/ \E i \in Invoices :
        \/ VoidInvoice(i)
        \/ \E amount \in 1..MaxBilled :
            \/ IssueInvoice(i, amount) \/ ReceivePayment(i, amount)
            \/ \E c \in CreditNotes : DraftCreditNote(c, i, amount)
    \/ \E c \in CreditNotes :
        \/ CancelCreditNote(c) \/ IssueCreditNote(c)
        \/ \E amount \in 1..MaxBilled : RefundCreditNote(c, amount)

ReceivablesSpec == ReceivablesInit /\ [][ReceivablesNext]_receivablesVars

--------------------------------------------------------------------------------
(* Properties *)

(* Types of the rows and of the two balances. *)
ReceivablesTypeOK ==
    /\ invoice \in [Invoices -> Invoice]
    /\ creditNote \in [CreditNotes -> {Unwritten} \cup CreditNote]
    /\ receivable \in [Invoices -> Int]
    /\ bank \in [Invoices -> Int]

(* The journal agrees with the invoices through every order of payments,    *)
(* credits, refunds and voids: receivables carry what is still owed on a    *)
(* live invoice and nothing on a voided one, cash carries what was received *)
(* and not paid back, and PAID says that nothing is left to collect.        *)
LedgerTellsInvoice ==
    \A i \in Invoices :
        IF Live(invoice[i])
        THEN /\ receivable[i] = Balance(invoice[i])
             /\ bank[i] = invoice[i].paid - invoice[i].refunded
             /\ invoice[i].status = "PAID" <=> Balance(invoice[i]) <= 0
        ELSE receivable[i] = 0 /\ bank[i] = 0

(* Only money received is refunded, however the drafts of several credit    *)
(* notes, their refunds and the payments interleave; an invoice is credited *)
(* at most in full, and a note refunded at most once.                       *)
RefundsWereReceived ==
    /\ \A i \in Invoices : /\ invoice[i].credited <= invoice[i].amount
                           /\ invoice[i].refunded <= invoice[i].paid
    /\ \A c \in CreditNotes : creditNote[c].status = "ISSUED" =>
           creditNote[c].refunded <= creditNote[c].total
================================================================================
