\* Everything may break, and one of two purchase orders may be reposted or
\* created again.
SPECIFICATION Spec
CONSTANTS
    POs = {p1, p2}
    o1 = o1
    o2 = o2
    p1 = p1
    Orders = {o1, o2}
    OrderOf <- MCTwoOrders
    Products = {a}
    Exempt = {}
    Retries = 0
    EditedStatuses = {"cancelled"}
    Reposted = {p1}
    Recreated = {o1}
    Faults = {"crash", "lost_answer", "broken_page"}
    MaxVendorOrders = 2
    MaxTasks = 1
    All = All
INVARIANTS
    OrderedOnce
    StatusFollowsVendor
CHECK_DEADLOCK FALSE
