---------------------------- MODULE MonitorLife -----------------------------
(***************************************************************************)
(* What a service monitor (monitor.c) looks like from outside: the state   *)
(* it answers a status request with and the phase it is in.  It serves     *)
(* clients while it watches the service and while it waits; not while it   *)
(* is busy forking the service or deciding what comes next.  Monitor is    *)
(* shown to implement this specification; Control is built on it.          *)
(*                                                                         *)
(* The steps are relations between two lives, l before and m after.        *)
(***************************************************************************)
CONSTANT Types        \* the types of services considered

VARIABLE life

Final == {"stopped", "failed", "dead"}

States == {"idle", "restarting", "starting", "running", "remaining", "stopping"} \cup Final
Phases == {"busy", "watch", "wait", "gone"}

\* As monitor_func() enters its loop.
Born(type) == [type |-> type, state |-> "starting", phase |-> "busy"]

Serving(l) == l.phase \in {"watch", "wait"}

\* The same monitor, in state st and phase ph.
At(l, st, ph) == [type |-> l.type, state |-> st, phase |-> ph]

\* The service is forked and executed, and watched.
Launch(l, m) ==
    /\ l.phase = "busy" /\ l.state \in {"starting", "restarting"}
    /\ m = At(l, IF l.type = "simple" THEN "running" ELSE l.state, "watch")

\* It could not be executed.
LaunchFails(l, m) ==
    /\ l.phase = "busy" /\ l.state \in {"starting", "restarting"}
    /\ m = At(l, "dead", "busy")

\* The child of a forking service has terminated: report_ready().
Ready(l, m) ==
    /\ l.phase = "watch" /\ l.type = "forking"
    /\ m = At(l, "running", "watch")

\* The state monitor_func() may choose after monitor_watch() returned in state st.
Decided(st) == IF st = "running" THEN {"remaining", "restarting", "stopped", "failed"}
               ELSE {st}

\* monitor_watch() returns; at the end of a one-shot service in state running.
Leave(l, m) ==
    /\ l.phase = "watch"
    /\ \E st \in Decided(l.state) \cup (IF l.type = "oneshot" THEN Decided("running") ELSE {}) :
            m = At(l, st, "busy")

\* monitor_watch() or monitor_wait() fails.
Die(l, m) ==
    /\ Serving(l)
    /\ m = At(l, "dead", "busy")

\* A restart delay begins, or the service remains after its exit; the delay ends.
Delay(l, m) ==
    /\ l.phase = "busy" /\ l.state \in {"restarting", "remaining"}
    /\ m = At(l, l.state, "wait")
DelayOver(l, m) ==
    /\ l.phase = "wait" /\ l.state = "restarting"
    /\ m = At(l, l.state, "busy")

\* The start limit is exceeded; a stop order has been carried out.
GiveUp(l, m) ==
    /\ l.phase = "busy" /\ l.state = "restarting"
    /\ m = At(l, "failed", "busy")
Stopped(l, m) ==
    /\ l.phase = "busy" /\ l.state = "stopping"
    /\ m = At(l, "stopped", "busy")

\* The control socket is closed.
Close(l, m) ==
    /\ l.phase = "busy" /\ l.state \in Final
    /\ m = At(l, l.state, "gone")

\* A stop or restart order is taken, and at times it leads out of the phase.
StateAfter(st, cmd) ==
    IF cmd = "restart" THEN "restarting"
    ELSE IF st \in {"stopping"} \cup Final THEN st ELSE "stopping"

Order(l, m, cmd) ==
    /\ Serving(l)
    /\ LET st == StateAfter(l.state, cmd) IN
       \E ph \in IF l.phase = "watch" THEN {"watch", "busy"}
                 ELSE IF st = l.state THEN {"wait"} ELSE {"busy"} :
            m = At(l, st, ph)

\* What a monitor does of its own accord.
Step(l, m) ==
    \/ Launch(l, m) \/ LaunchFails(l, m) \/ Ready(l, m) \/ Leave(l, m) \/ Die(l, m)
    \/ Delay(l, m) \/ DelayOver(l, m) \/ GiveUp(l, m) \/ Stopped(l, m) \/ Close(l, m)
-----------------------------------------------------------------------------
Init == \E type \in Types : life = Born(type)

Next == Step(life, life') \/ \E cmd \in {"stop", "restart"} : Order(life, life', cmd)

Spec == Init /\ [][Next]_life
=============================================================================
