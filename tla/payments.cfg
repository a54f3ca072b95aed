\* One worker: payments approved, rejected, edited and cancelled in every order;
\* the one order may be shipped by EMS.
SPECIFICATION Spec
CONSTANTS
    Workers = {w1}
    Customers = {c1, c2}
    Orders = {o1}
    EmsOrders = {o1}
    Products = {}
    Payments = {p1}
    Amounts = {0, 2}
    Totals = {3}
    ManualAmounts = {}
    AdminPaymentStatuses <- MCApproveReject
    AdminOrderStatuses = {"pending", "shipped"}
    MaxRows = 2
    NoOrder = NoOrder
SYMMETRY Symmetry
INVARIANTS
    TypeOK
    StatementChains
    ApprovedIsCredited
PROPERTIES
    ApprovalReleasesOrders
    ImplementsStatement
CHECK_DEADLOCK FALSE
