SPECIFICATION Spec
CONSTANTS
    c1 = c1
    c2 = c2
    p1 = p1
    p2 = p2
    Processes = {p1}
    Guards = {}
    Syncers = {}
    Checkouts = {c1, c2}
    PlanOf <- OnePlan
    NoCheckout = NoCheckout
    InOrder = TRUE
    TrialEnds = 1
    Grace = 1
    MaxTime = 0
    MaxEvents = 6
    MaxUsers = 1
    MaxHires = 0
INVARIANT
    PaidMayWrite
CHECK_DEADLOCK FALSE
