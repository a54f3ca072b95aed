\* One worker: three orders attached to each other in every way, and shipped; a
\* product of one of them is bought, edited, postponed and reopened.
SPECIFICATION Spec
CONSTANTS
    Workers = {w1}
    Customers = {c1}
    Orders = {o1, o2, o3}
    EmsOrders = {}
    Products = {x1}
    Payments = {}
    Amounts = {0}
    Totals = {2}
    ManualAmounts = {}
    AdminPaymentStatuses = {}
    AdminOrderStatuses = {"shipped"}
    MaxRows = 4
    NoOrder = NoOrder
SYMMETRY OrderSymmetry
PROPERTIES
    ShipmentIsWhole
    ShipmentChargesOnce
CHECK_DEADLOCK FALSE
