SPECIFICATION PartSpec
CONSTANTS
    Parts = {"retrying", "sharing", "pelican", "reply", "verdict", "probes", "price", "session", "books"}
    Targets = {"t1", "t2"}
    Suites <- DetectSuites
    Defaults <- DetectDefaults
    Requires <- DetectRequires
    Informational = {"zero"}
    Concurrency = 1
    Keep = 1
    Callers = {"r1", "r2"}
    MaxRuns = 3
    MaxCancels = 1
    RequestIds = {"q1"}
    Clients = {"c1", "c2"}
    Width = 2
    Places = 1
    MaxBatches = 2
    MaxMishaps = 4
    Length = 2
    Channels = {"official", "maxpool", "bedrock", "vertex", "impostor", "outage"}
    Plan <- Catalogue
    Sources = {"s1", "s2"}
    Rules <- Aggregates
    Rates = {2, 5}
    Edits = {3, 4}
    PriceJobs = {p1, p2}
    MaxChanges = 2
    MaxByHand = 2
    MaxFails = 1
    Tabs = {"tab1", "tab2"}
    MaxPairs = 3
    MaxIncidents = 2
    Owners = {1, 2}
    Owned = {1, 3}
    Uses <- AllAsked
    CostRows <- AllCharged
    Spends <- AllSpent
    RateOf <- Recharge
    Unit = 12
    MaxDealings = 4
CHECK_DEADLOCK FALSE
SYMMETRY JobsOnly
INVARIANTS
    TypesOK
    RoundIsExplained
    HistoryIsWhole
    TargetsAreServed
    AcceptedIsWhole
    VerdictTellsTruth
    EvidenceIsTrue
    PriceIsTrue
    SessionIsTrue
    BooksAgree
PROPERTIES
    RoundsDoNotOverlap
    FinalIsFinal
    HumanRespected
