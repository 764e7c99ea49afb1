SPECIFICATION LoopsSpec
CONSTANTS
    d1 = d1
    d2 = d2
    Runs = {r1, r2}
    Clerks = {c1}
    LastPeriod = 1
    MaxFaults = 1
    MaxEdits = 2
    MaxResets = 1
INVARIANTS
    ClaimBillsOnce
    BillsInOrder
PROPERTY OwedIsSettled
CHECK_DEADLOCK FALSE
