\* Two purchase orders of an order are posted; nothing breaks, nothing is reposted.
SPECIFICATION FairSpec
CONSTANTS
    POs = {p1, p2}
    o1 = o1
    o2 = o2
    p1 = p1
    Orders = {o1}
    OrderOf <- MCOneOrder
    Products = {a, b}
    Exempt = {}
    Retries = 1
    EditedStatuses = {"cancelled"}
    Reposted = {}
    Recreated = {}
    Faults = {}
    MaxVendorOrders = 2
    MaxTasks = 1
    All = All
INVARIANTS
    VendorOrdersKnown
    PostedIsWhole
PROPERTIES
    PendingIsSettled
CHECK_DEADLOCK FALSE
