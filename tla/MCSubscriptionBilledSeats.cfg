SPECIFICATION FairSpec
CONSTANTS
    c1 = c1
    c2 = c2
    p1 = p1
    p2 = p2
    Processes = {p1}
    Guards = {}
    Syncers = {p1}
    Checkouts = {c1}
    PlanOf <- OnePlan
    NoCheckout = NoCheckout
    InOrder = TRUE
    TrialEnds = 1
    Grace = 1
    MaxTime = 0
    MaxEvents = 5
    MaxUsers = 2
    MaxHires = 1
PROPERTIES
    SeatsSettle
CHECK_DEADLOCK FALSE
