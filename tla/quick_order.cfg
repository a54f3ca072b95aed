\* One purchase order of four lines, posted by the worker or by the job.
SPECIFICATION FairSpec
CONSTANTS
    a = a
    b = b
    c = c
    d = d
    OrderProducts <- MCOrderProducts
    Purchase = {a, b, c}
    WithOptions = {b}
    Quantity <- MCQuantity
    Price <- MCPrice
    Threshold = 6
    Retries = 2
    DueIn <- MCDueIn
    Weekdays = {0, 5}
    Programs = {"app", "job"}
    MaxTries = 4
INVARIANTS
    OrderedIsBought
    AddressAddedOnce
    CheapIsCombined
PROPERTIES
    ContractSpec
    Ends
CHECK_DEADLOCK FALSE
