SPECIFICATION FairSpec
CONSTANTS
    c1 = c1
    c2 = c2
    Clients = {c1, c2}
    Boot = Boot
    NoMon = NoMon
    Units <- OneUnit
    Verbs <- Askers
    Faults <- ExecFault
PROPERTIES CommandsReturn
CHECK_DEADLOCK FALSE
