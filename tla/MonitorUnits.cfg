CONSTANTS
    Pids = {1, 2}
    Self = 101
    InitPid = 102
    NoPid = 0
    Statuses = {"clean", "fail", "abort"}
    MaxQueue = 2
    MaxStarts = 2
    MaxOrders = 2
    MaxLosses = 1
    MaxSetsid = 1
    Still = {"ingest", "collect", "done"}
    Services <- AllUnits
SPECIFICATION Spec
INVARIANTS TypeOK OrderObeyed
PROPERTIES SignalsOrdered RestartJustified PolicyFollowed WatchedToTheEnd ImplementsLife
CHECK_DEADLOCK FALSE
