CONSTANTS
    Pids = {1, 2, 3}
    Self = 101
    InitPid = 102
    NoPid = 0
    Statuses = {"clean", "fail", "abort"}
    MaxQueue = 2
    MaxStarts = 2
    MaxOrders = 1
    MaxLosses = 0
    MaxSetsid = 1
    Still = {"ingest", "collect", "done"}
    Services <- ForkingUnits
SPECIFICATION Spec
INVARIANT OrderKept
CHECK_DEADLOCK FALSE
