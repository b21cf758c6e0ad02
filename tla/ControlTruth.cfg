SPECIFICATION Spec
CONSTANTS
    c1 = c1
    c2 = c2
    Clients = {c1, c2}
    Boot = Boot
    NoMon = NoMon
    Units <- AllUnits
    Verbs <- Actors
    Faults <- NoneOrIo
INVARIANTS OneMonitor StartTruth StopTruth RestartTruth
SYMMETRY ClientSymmetry
CHECK_DEADLOCK FALSE
