CONSTANTS
    a = a  b = b  s1 = s1  s2 = s2
    Methods = {"table", "postpone"}
    Products = {a, b}
    Price <- PriceDef
    Weight <- WeightDef
    Separate <- SeparateDef
    Subcustomers = {s1, s2}
    Registered = {s1}
    Payloads <- PayloadsDef
    ItemsPerSuborder = 2
    LocalShippingCost = 1
    FreeLocalShipping = 4
    ServiceFee = 5
    Rates <- RatesDef
    Boxes <- BoxesDef
    ManualWeights = {1200}
    Quantities = {2}
    Prices = {4}
    LineStatuses = {"pending", "unavailable"}
    AdminStatuses = {"po_created"}
    MaxRequests = 5
    MaxLines = 3
    MaxInvoices = 1
    None = None
SPECIFICATION Spec
INVARIANT SubtotalIsSum
PROPERTIES WantedIsKept InvoicedIsKept
CHECK_DEADLOCK FALSE
