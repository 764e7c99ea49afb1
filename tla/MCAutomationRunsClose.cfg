SPECIFICATION Spec
CONSTANTS
    NoAutomation = NoAutomation
    Automations = {a1}
    Handlers = {h1}
    Steps = {s1}
    MaxAttempts = 2
    MaxClaims = 2
    MaxRefusals = 0
    MaxFaults = 0
INVARIANT RunClosesItsRow
CHECK_DEADLOCK FALSE
