SPECIFICATION PartSpec
CONSTANTS
    v1 = v1
    low = low
    Budget = 1
    Hour = 2
    Keys = {"k1", "k2"}
    Accounts = {"a1", "a2"}
    Named <- BothNamed
    Platforms = {"sub2api", "new-api"}
    Before = {"k1"}
    Holdings <- OneOrBoth
    LastDay = 2
    Retention = 1
    MaxCards = 2
    PushForms <- AllPushForms
    ChannelForms <- AllChannelForms
    Traffics <- BusyWindow
    Groups <- FourGroups
    Logins = {"A", "B"}
    Sites <- SiteRows
    Forms <- SiteForms
    MaxEdits = 1
    MaxShocks = 1
    None = "-"
    Same = "same"
    Absent = Absent
    Rates = {low, high}
    Providers = {v1}
    Runs = {r1, r2}
    MaxEvents = 3
SYMMETRY RunsOnly
CHECK_DEADLOCK FALSE
INVARIANTS
    TypesOK
    NeverForgotten
    ChangesAreTold
    StateIsTrue
    PushIsTrue
    AccessIsTrue
PROPERTIES
    HealthIsTrue
    AlarmsAreTrue
    CostIsTrue
