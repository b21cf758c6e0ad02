SPECIFICATION Spec
CONSTANTS
    Users = {u1, u2}
    Services = {s1}
    Missing = missing
    Commands <- AllCommands
    MaxArgs = 2
INVARIANTS SuccessMeans CodeTrue
PROPERTY TryNeverStarts
SYMMETRY UserSymmetry
CHECK_DEADLOCK FALSE
