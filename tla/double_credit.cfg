\* Two workers approve the same pending payment.
SPECIFICATION Spec
CONSTANTS
    Workers = {w1, w2}
    Customers = {c1}
    Orders = {}
    EmsOrders = {}
    Products = {}
    Payments = {p1}
    Amounts = {0, 2}
    Totals = {0, 3}
    ManualAmounts <- MCManualAmounts
    AdminPaymentStatuses <- MCApproveReject
    AdminOrderStatuses = {"shipped"}
    MaxRows = 3
    NoOrder = NoOrder
SYMMETRY Symmetry
INVARIANT CreditedOnce
CHECK_DEADLOCK FALSE
