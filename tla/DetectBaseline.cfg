SPECIFICATION PartSpec
CONSTANTS
    Parts = {"verdict"}
    Targets = {"t1"}
    Suites <- TwoChecks
    Defaults <- TwoChecks
    Requires <- NoRequires
    Informational = {}
    Concurrency = 2
    Keep = 1
    Callers = {"r1"}
    MaxRuns = 2
    MaxCancels = 1
    RequestIds = {"q1"}
    Clients = {"c1"}
    Width = 2
    Places = 1
    MaxBatches = 1
    MaxMishaps = 0
    Length = 2
    Channels = {"reference"}
    Plan <- OnlyBaseline
    Sources = {"s1", "s2"}
    Rules <- FollowAll
    Rates = {2, 4}
    Edits = {3, 4}
    PriceJobs = {1}
    MaxChanges = 0
    MaxByHand = 0
    MaxFails = 0
    Tabs = {"tab1", "tab2"}
    MaxPairs = 3
    MaxIncidents = 2
    Owners = {1, 2}
    Owned = {1, 3}
    Uses <- AllAsked
    CostRows <- AllCharged
    Spends <- AllSpent
    RateOf <- Recharge
    Unit = 12
    MaxDealings = 4
CHECK_DEADLOCK FALSE
INVARIANTS
    MatchIsRecognised
