SPECIFICATION PartsSpec
CONSTANTS
    NoAutomation = NoAutomation
    Automations = {a1, a2}
    Handlers = {x1, x2}
    Steps = {s1}
    MaxAttempts = 2
    MaxClaims = 2
    MaxRefusals = 2
    MaxFaults = 1
    Users = {x1, x2}
    Nobody = Nobody
    MaxVisits = 2
    MaxBreaks = 1
    MaxLost = 1
    MaxMishaps = 1
    LastKey = 1
    LastAttempt = 3
    Timeout = 1
    Lease = 2
    Callers = {x1, x2}
    LastSlot = 3
    SenderKeys = {11}
    Window = 1
    Retries = 2
    LastDay = 2
    MaxCalls = 4
    MaxTroubles = 2
    Editors = {x1, x2}
    Boots = {b1}
    Specs = {1, 2}
    NoSchedule = NoSchedule
    MaxChanges = 3
    MaxRepairs = 2
    MaxSlips = 1
SYMMETRY Interchangeable
INVARIANTS
    OneRunPerEvent
    DeliveredMeansStarted
    RowsAndRunsAgree
    DeadEventClosesItsRows
    OneDecisionReachesRegularly
    RowTellsOutcome
    WorkedOnce
    SameAnswer
    SuccessMeansDone
    KeyRunsOnce
    TicksTakeTurns
    ScheduleTellsRow
PROPERTIES
    ClosedStaysClosed
CHECK_DEADLOCK FALSE
