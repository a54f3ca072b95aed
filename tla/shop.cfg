\* Two workers in each part.
SPECIFICATION ShopSpec
CONSTANTS
    w1 = w1  w2 = w2
    o1 = o1  o2 = o2
    p1 = p1  p2 = p2
    x = x
    s1 = s1
    u1 = u1  u2 = u2
    dhl = dhl  gls = gls  j1 = j1
    Workers = {w1, w2}
    None = None
    \* the warehouse
    Warehouses = {s1}
    Products = {x}
    PurchaseOrders = {p1, p2}
    OrderProducts = {o1, o2}
    Product <- ProductDef
    Quantity <- QuantityDef
    Suborder <- SuborderDef
    VendorStatuses = {"shipped", "delivered"}
    MaxTx = 3
    \* the shipments
    Units <- UnitsDef
    Carriers = {dhl, gls}
    Rated = {dhl, gls}
    Consigning = {dhl}
    Users = {j1}
    MaxRequests = 3
    MaxFaults = 1
    MaxMultiplier = 2
    \* the shipping methods
    Shippings = {"w", "c", "e"}
    Kind <- KindDef
    Tariff <- TariffDef
    InOrders = {"c"}
    NewTariffs <- NewTariffsDef
    CarrierTells <- CarrierTellsDef
    Questions <- QuestionsDef
    MaxTariffs = 2
    \* the catalogue
    Goods = {"a", "b"}
    Prices = {1, 2}
    Ordered = {"a"}
    GoodsFirst <- GoodsFirstDef
    VendorsFirst <- VendorsFirstDef
    MaxEdits = 2
    \* the network manager
    Fetched = {"n"}
    MaxStarts = 3
    MaxNodes = 2
SYMMETRY Symmetry
INVARIANTS
    StockIsKept
    MovedOnce
    NumbersHaveNoGaps
    ConsignedOnce
    ShippedIsAnnounced
    AnswersAreCurrent
    SyncedIsAsTold
    StartedIsKept
PROPERTIES
    AtWarehouseWhenAllDelivered
    PaidIsFinal
CHECK_DEADLOCK FALSE
