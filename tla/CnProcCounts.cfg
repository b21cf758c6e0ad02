SPECIFICATION Spec
CONSTANTS
    Procs = {p1, p2}
    MaxOthers = 1
    MaxCount = 4
    MaxInbox = 2
INVARIANT Covered
SYMMETRY ProcSymmetry
CHECK_DEADLOCK FALSE
