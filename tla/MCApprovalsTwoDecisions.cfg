SPECIFICATION ApprovalsSpec
CONSTANTS
    Users = {u1, u2}
    Nobody = Nobody
    MaxVisits = 1
    MaxBreaks = 0
    MaxLost = 1
INVARIANT OneDecisionReaches
CHECK_DEADLOCK FALSE
