CONSTANTS
    Chain = {c1, c2}
    Root = {r1, r2}
    Scope = {}
    Kind <- AllWays
    MaxGeneration = 3
    NoRoot = NoRoot
    Request = {q1}
SYMMETRY Interchangeable
SPECIFICATION Spec
INVARIANTS TypeOK CoordinatorAgrees SchedulerOwned PreparedIsQuiet
PROPERTIES LeaseKept
CHECK_DEADLOCK FALSE
