------------------------------ MODULE MCControl -----------------------------
(***************************************************************************)
(* Instances of Control for TLC: two clients at work on one service.       *)
(***************************************************************************)
EXTENDS Control, TLC

CONSTANTS c1, c2

UnitsOf(types, stops, pidfiles) ==
    [type : types, stopcmd : stops, pidfile : pidfiles]

\* Every type, and a stop command or a PID file for some.
AllUnits ==
    UnitsOf({"simple"}, {TRUE}, {FALSE}) \cup UnitsOf({"notify"}, {FALSE}, {TRUE}) \cup
    UnitsOf({"oneshot", "forking"}, {FALSE}, {FALSE})
OneUnit == UnitsOf({"simple"}, {TRUE}, {FALSE})

\* Commands that act on monitors, and commands that wait for them or ask them.
Actors == {"start", "stop", "restart"}
Askers == {"start", "restart", "status", "reload"}

NoneOrIo == {{}, {"io"}}
ExecFault == {{"exec"}}

ClientSymmetry == Permutations(Clients)
=============================================================================
