SPECIFICATION PartSpec
CONSTANTS
    c1 = c1
    c2 = c2
    p1 = p1
    p2 = p2
    None = None
    Procs = {p1, p2}
    Customers = {c1, c2}
    Amounts = {1, 4}
    Limits = {0, 5}
    MaxEntries = 3
    MaxFails = 1
    Keys = {"k1", "k2"}
    MaxPending = 1
    Slots = 1
    ResumeLimit = 1
    MaxTasks = 2
    MaxMishaps = 2
    Forms <- ThreeForms
    MaxFilings = 5
    Operations = {"o1", "o2"}
    Groups = {"g1"}
    MaxMischief = 1
SYMMETRY Symmetry
INVARIANTS
    TypeOK
    TypesOK
    NoPhantomRow
    StaleOnlyIfOverlapped
    ReversalMirrors
    AloneIsExact
    MediaIsTrue
    FileIsTrue
    ResourcesAccounted
PROPERTIES
    BookSpec
    NoRepeatInBand
