SPECIFICATION Spec
CONSTANTS
    p1 = p1
    p2 = p2
    m1 = m1
    m2 = m2
    None = None
    Collectors = {p1, p2}
    Managers = {m1, m2}
    ManagerOf <- Separate
    Platforms = {"new-api"}
    ShortLived = FALSE
    MaxSessions = 2
    MaxGen = 3
    MaxFails = 0
PROPERTIES
    ReplayOnlyAfterLoss
