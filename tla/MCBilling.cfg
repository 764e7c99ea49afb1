SPECIFICATION SidesSpec
CONSTANTS
    c1 = c1
    c2 = c2
    p1 = p1
    p2 = p2
    Processes = {p1}
    Guards = {}
    Syncers = {p1}
    Checkouts = {c1}
    PlanOf <- OnePlan
    NoCheckout = NoCheckout
    InOrder = FALSE
    TrialEnds = 1
    Grace = 1
    MaxTime = 0
    MaxEvents = 3
    MaxUsers = 2
    MaxHires = 1
INVARIANTS
    FailuresCounted
    VerdictIsRecent
    AgreesInOrder
PROPERTIES
    SeatsComeToFollow
CHECK_DEADLOCK FALSE
