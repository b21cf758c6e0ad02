SPECIFICATION RcSpec
CONSTANTS
    Tasks = {p1, p2}
    Ops = {"enable", "disable", "is-enabled"}
    FirstRl = 5
    LastRl = 6
    Dirs <- SomeDirs
INVARIANTS CommandsDone OthersKept
SYMMETRY TaskSymmetry
CHECK_DEADLOCK FALSE
