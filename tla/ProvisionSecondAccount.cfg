SPECIFICATION Spec
CONSTANTS
    Callers = {"r1"}
    Operations = {"o1", "o2"}
    Groups = {"g1"}
    MaxMishaps = 0
CHECK_DEADLOCK FALSE
INVARIANTS PendingIsRunning
