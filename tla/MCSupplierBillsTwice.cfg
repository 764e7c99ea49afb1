\* Nobody disputes or cancels: requests one after another.
SPECIFICATION Spec
CONSTANTS
    k1 = k1
    n1 = n1
    n2 = n2
    NoOrder = NoOrder
    Bills = {b1, b2}
    OrderLines = {k1}
    Numbers = {n1, n2}
    Documents <- TheDocuments
    Payments = {p1, p2}
    Editors = {}
    MaxReceived = 1
    MaxEntries = 2
    MaxAmount = 2
INVARIANT PostsOnce
CHECK_DEADLOCK FALSE
