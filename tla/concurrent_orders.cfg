\* Two workers: one order, its product and manual transactions of one customer
\* at once, with totals that may be undefined.
SPECIFICATION Spec
CONSTANTS
    Workers = {w1, w2}
    Customers = {c1}
    Orders = {o1}
    EmsOrders = {}
    Products = {x1}
    Payments = {}
    Amounts = {0, 2}
    Totals = {0, 3}
    ManualAmounts <- MCManualAmounts
    AdminPaymentStatuses <- MCApproveReject
    AdminOrderStatuses = {"shipped"}
    MaxRows = 2
    NoOrder = NoOrder
SYMMETRY Symmetry
INVARIANTS
    StatementEndsInBalance
    ShippedIsCharged
CHECK_DEADLOCK FALSE
