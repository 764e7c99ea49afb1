\* Two dispatchers, the lease longer than a whole batch may take (1 * 2 < 3).
SPECIFICATION Spec
CONSTANTS
    Events = {1, 2}
    TxEvents = {1}
    Dispatchers = {d1, d2}
    BatchSize = 2
    MaxAttempts = 2
    Lease = 3
    HandlerTimeout = 1
    BaseBackoff = 1
    MaxBackoff = 1
    OverdueCap = 0
    MaxFaults = 2
    MaxRequeues = 1
INVARIANTS
    HandledWasCommitted
    ClaimsAreExclusive
PROPERTY DeliveryContract
