CONSTANTS
    Pids = {p1, p2, p3}
    Self = self
    InitPid = init
    NoPid = none
    Running = running
    Statuses = {ended}
    MaxQueue = 2
SPECIFICATION Spec
SYMMETRY Symmetry
INVARIANTS NoGhosts Consistent
PROPERTY ImplementsTable
CHECK_DEADLOCK FALSE
