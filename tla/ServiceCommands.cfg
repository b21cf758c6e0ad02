SPECIFICATION FairSpec
CONSTANTS
    a = a
    b = b
    c = c
    x = x
    Services = {a, b, c}
    Target = a
    Codes <- MCCodes
    Cases <- MCCases
    MaxDepth = 3
INVARIANTS ReportTruth ExecAsAsked FailsForReason ReloadTruth StopAccounted
PROPERTIES Grounded PidFileKept CommandReturns
CHECK_DEADLOCK FALSE
