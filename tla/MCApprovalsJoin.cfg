SPECIFICATION ApprovalsSpec
CONSTANTS
    Users = {u1, u2}
    Nobody = Nobody
    MaxVisits = 2
    MaxBreaks = 0
    MaxLost = 0
INVARIANT EachVisitIsDecided
CHECK_DEADLOCK FALSE
