SPECIFICATION PartsSpec
CONSTANTS
    o1 = o1
    o2 = o2
    k1 = k1
    k2 = k2
    k3 = k3
    n1 = n1
    n2 = n2
    NoOrder = NoOrder
    Orders = {o1, o2}
    Lines = {k1, k2, k3}
    OrderOf <- TheOrders
    Ordered <- OneOfEach
    Extra = 1
    Senders = {x1, x2}
    Issuers = {i1}
    Planners = {r1}
    Levels = {1}
    MaxSends = 2
    MaxChanges = 1
    Bills = {x1, x2}
    OrderLines = {k1}
    Numbers = {n1, n2}
    Documents <- TheDocuments
    Payments = {y1, y2}
    Editors = {e1}
    MaxReceived = 1
    MaxEntries = 2
    MaxAmount = 2
    Items = {l1, l2}
    ItemQty <- OneEach
    Price <- PriceThree
    Templated = {l1}
    Totals = {5, 7}
    Schedules <- TheSchedules
    Notes = {x1, x2}
    Requests = {y1, y2}
    MaxInvoices = 3
    MaxQty = 1
    Invoices = {x1, x2}
    CreditNotes = {y1, y2}
    MaxBilled = 3
    MaxPapers = 3
    Jobs = {x1, x2}
    Employees = {e1}
    Entries = {y1, y2}
    PayRuns = {y1, y2}
    LastMonth = 2
    MaxHours = 1
    MaxIssued = 2
    UnitCosts = {1, 2}
    Rates = {0, 2}
    Estimate = 1
    Standard = 1
    MaxBusy = 4
SYMMETRY Interchangeable
INVARIANTS
    TradeTypeOK
    PositionFollowsLedger
    OnOrderTellsOpenOrders
    StatusTellsPosting
    BilledWithinReceived
    PaidTellsPayments
    PayablesAgree
    BilledExactly
    CancelledHasNothing
    ShippedTellsNotes
    ProductionIsPlanned
    LedgerTellsInvoice
    RefundsWereReceived
    JobBooksAgree
    HoursChargedOnce
PROPERTIES
    SupplierContractKept
    OrderKeepsContract
CHECK_DEADLOCK FALSE
