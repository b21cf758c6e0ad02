----------------------------- MODULE MCMonitor ------------------------------
(***************************************************************************)
(* Monitor for TLC.                                                        *)
(***************************************************************************)
EXTENDS Monitor

Unit(type, kill_mode, policy, remain) ==
    [type |-> type, kill_mode |-> kill_mode, restart_policy |-> policy,
     remain_after_exit |-> remain, pidfile |-> type = "forking"]

\* Every kill mode, every policy, every type.
AllUnits ==
    {Unit("simple", k, "on-failure", FALSE) : k \in {"control-group", "mixed", "process", "none"}}
    \cup {Unit("simple", "control-group", p, FALSE) :
            p \in {"no", "always", "on-success", "on-abnormal"}}
    \cup {Unit("simple", "control-group", "always", TRUE)}
    \cup {Unit("oneshot", "mixed", "on-failure", r) : r \in BOOLEAN}
    \cup {Unit(t, "mixed", "on-failure", FALSE) : t \in {"forking", "notify"}}

\* A service that is restarted when it fails, with every kill mode; a forking one.
KillUnits == {Unit("simple", k, "on-failure", FALSE) : k \in {"control-group", "mixed", "process", "none"}}
ForkingUnits == {Unit("forking", "control-group", "on-failure", FALSE)}
=============================================================================
