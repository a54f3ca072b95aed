\* Two web workers, each with one request; two refusals or losses.
SPECIFICATION Spec
CONSTANTS
    Clerks = {w1, w2}
    Parcels = {"o1", "o2"}
    Carrier <- CarrierDef
    HttpRetries = 1
    Attempts = 2
    MaxCalls = 2
    MaxFaults = 2
    None = None
INVARIANTS
    ConsignmentsAreKept
PROPERTIES
    AllEnd
CHECK_DEADLOCK FALSE
