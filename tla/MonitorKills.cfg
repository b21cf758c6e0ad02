CONSTANTS
    Pids = {1, 2, 3}
    Self = 101
    InitPid = 102
    NoPid = 0
    Statuses = {"clean", "abort"}
    MaxQueue = 2
    MaxStarts = 2
    MaxOrders = 2
    MaxLosses = 0
    MaxSetsid = 1
    Still = {"done"}
    Services <- KillUnits
SPECIFICATION FairSpec
PROPERTIES OneInstance NoneLeftTrue StopEnds MainExitNoticed
CHECK_DEADLOCK FALSE
