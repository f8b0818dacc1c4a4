SPECIFICATION FairSpec
CONSTANTS
    p1 = p1
    p2 = p2
    m1 = m1
    m2 = m2
    None = None
    Collectors = {p1, p2}
    Managers = {m1}
    ManagerOf <- Shared
    Platforms = {"new-api", "sub2api"}
    ShortLived = FALSE
    MaxSessions = 4
    MaxGen = 2
    MaxFails = 1
PROPERTIES
    SessionRecovers
    ReplayOnlyAfterLoss
INVARIANTS
    StoredIsCurrent
