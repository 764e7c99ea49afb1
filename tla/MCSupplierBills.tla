--------------------------- MODULE MCSupplierBills ---------------------------
(* Small instances of the payables: two invoices for the goods of one order  *)
(* line, the second above the ordered price and with a charge for carriage.  *)
EXTENDS SupplierBills, TLC

CONSTANTS k1, n1, n2

Goods(qty, dear) == [order |-> k1, qty |-> qty, dear |-> dear]
Carriage == [order |-> NoOrder, qty |-> 1, dear |-> FALSE]

TheDocuments ==
    {[number |-> n1, lines |-> <<Goods(1, FALSE)>>, total |-> 1],
     [number |-> n2, lines |-> <<Goods(1, TRUE), Carriage>>, total |-> 2]}
================================================================================
