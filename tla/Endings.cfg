SPECIFICATION PartSpec
CONSTANTS
    Procs = {"p1", "p2"}
    Customers = {"c1", "c2"}
    Amounts = {4}
    Limits = {5}
    MaxEntries = 1
    MaxFails = 0
    None = "none"
CHECK_DEADLOCK FALSE
PROPERTIES
    RequestsEnd
    PricesFollow
    WorkEnds
    AccountRecovers
