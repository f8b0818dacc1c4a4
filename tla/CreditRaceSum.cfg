SPECIFICATION PartSpec
CONSTANTS
    c1 = c1
    c2 = c2
    p1 = p1
    p2 = p2
    None = None
    Procs = {p1, p2}
    Customers = {c1}
    Amounts = {4}
    Limits = {5}
    MaxEntries = 2
    MaxFails = 0
    Keys = {"k1"}
    MaxPending = 1
    Slots = 1
    ResumeLimit = 1
    MaxTasks = 1
    MaxMishaps = 0
    Forms <- ThreeForms
    MaxFilings = 0
    Operations = {"o1"}
    Groups = {"g1"}
    MaxMischief = 0
SYMMETRY Symmetry
INVARIANTS
    OutstandingIsLedgerSum
