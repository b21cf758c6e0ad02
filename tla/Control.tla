------------------------------ MODULE Control -------------------------------
(***************************************************************************)
(* Commands given to sysvrun for one service, possibly by several people   *)
(* at a time: service_start(), service_stop(), service_restart(),          *)
(* service_reload() and service_status() (service.c), the client half of   *)
(* the control protocol (monitor_control_*() in monitor.c) and the daemon- *)
(* ization of new monitors, which compete for the control socket.          *)
(*                                                                         *)
(* A monitor is one of MonitorLife; it is named after the client that      *)
(* started it.  A request waits in the listen queue of the control socket  *)
(* until the monitor serves it or is gone.  Every monitor speaks the       *)
(* current version of the protocol.                                        *)
(***************************************************************************)
EXTENDS Naturals, FiniteSets

CONSTANTS
    Clients,
    Boot,          \* a monitor that was started earlier
    NoMon,         \* no monitor
    Units,         \* [type, stopcmd (ExecStop), pidfile]
    Verbs,         \* what the clients may be asked to do
    Faults         \* sets of what may go wrong: "exec", the service cannot be
                   \* executed; "io", requests and monitors fail for other reasons

VARIABLES
    unit, faults,  \* one of Units, one of Faults
    life,          \* life[m]: of monitor m, Unborn before it is forked
    bound,         \* the monitor bound to the control socket
    report,        \* report[m]: the pipe to the client that started it
    verb, pc, st,  \* of each client; st: its variable state
    code,          \* its exit code, Pending while the command runs
    down, up, again  \* history: since the command began, was there a moment
                     \* without a monitor; with a service that was launched and
                     \* watched, or remained; such a moment after one without

ASSUME ControlAssumption ==
    /\ Boot \notin Clients /\ NoMon \notin Clients \cup {Boot}
    /\ Verbs \subseteq {"start", "stop", "restart", "reload", "status"}

Monitors == Clients \cup {Boot}

monitors == <<life, bound, report>>
clients == <<verb, pc, st, code>>
vars == <<unit, faults, monitors, clients, down, up, again>>

ML == INSTANCE MonitorLife WITH Types <- {u.type : u \in Units}, life <- life[Boot]

Unborn == [type |-> "none", state |-> "none", phase |-> "none"]
\* monitor_func() before it has bound the control socket.
Unbound == [ML!Born(unit.type) EXCEPT !.state = "idle"]

\* It has exited.
Gone(l) == [l EXCEPT !.phase = "gone"]

\* The lives of monitors of this unit.
Lives == [type : {unit.type}, state : ML!States, phase : ML!Phases]

Pending == 99

PCs == {"idle", "start", "up", "ending", "fork", "report",
        "stop", "cmd", "cmdwait", "identify", "ask", "send", "wait", "kill",
        "status", "reload", "done"}

Up(l) == l.phase = "watch" \/ (l.phase = "wait" /\ l.state = "remaining")

\* History: what each command could have seen so far.
Witness ==
    LET isup == \E m \in Monitors : Up(life'[m])
    IN  /\ down' = [c \in Clients |-> pc'[c] # "idle" /\ (down[c] \/ bound' = NoMon)]
        /\ up' = [c \in Clients |-> pc'[c] # "idle" /\ (up[c] \/ isup)]
        /\ again' = [c \in Clients |-> again[c] \/ (down[c] /\ isup)]
-----------------------------------------------------------------------------
(* Monitors *)

\* Mutant of Listen: the address is taken over from whoever has it.
ListenForced(m) ==
    /\ life[m] = Unbound
    /\ life' = [life EXCEPT ![m] = ML!Born(unit.type)]
    /\ bound' = m
    /\ UNCHANGED report

\* monitor_control_listen(): bind() fails if another monitor has the address.
Listen(m) ==
    /\ life[m] = Unbound
    /\ \/ /\ bound = NoMon
          /\ life' = [life EXCEPT ![m] = ML!Born(unit.type)]
          /\ bound' = m
          /\ UNCHANGED report
       \/ /\ bound # NoMon
          /\ life' = [life EXCEPT ![m] = Gone(@)]
          /\ report' = [report EXCEPT ![m] = "failed"]
          /\ UNCHANGED bound

\* The monitor cannot be set up, before or after it has bound the socket.
SetupFails(m) ==
    /\ "io" \in faults /\ life[m] \in {Unbound, ML!Born(unit.type)}
    /\ life' = [life EXCEPT ![m] = Gone(@)]
    /\ report' = [report EXCEPT ![m] = "failed"]
    /\ bound' = IF bound = m THEN NoMon ELSE bound

\* The pipe is closed by report_ready(), which goes with the state "running" and,
\* as a one-shot service ends by itself, with leaving it; and by the monitor's
\* exit, whose code is EXIT_SUCCESS.
Reported(l, n) ==
    IF n.state = "running" \/ n.phase = "gone" THEN {"closed"}
    ELSE IF l.type = "oneshot" /\ ML!Leave(l, n) /\ n.state \in ML!Decided("running")
         THEN {"closed"} \cup (IF n.state = l.state THEN {"open"} ELSE {})
    ELSE {"open"}

\* Any other step of a monitor's own.
MonitorStep(m, n) ==
    /\ bound = m
    /\ ML!Step(life[m], n)
    /\ ML!LaunchFails(life[m], n) => "exec" \in faults
    /\ ML!Die(life[m], n) => "io" \in faults
    /\ life' = [life EXCEPT ![m] = n]
    /\ bound' = IF n.phase = "gone" THEN NoMon ELSE bound
    /\ \E rep \in IF report[m] = "open" THEN Reported(life[m], n) ELSE {report[m]} :
            report' = [report EXCEPT ![m] = rep]
-----------------------------------------------------------------------------
(* Requests *)

Answered == bound # NoMon => ML!Serving(life[bound])

\* monitor_control_get_state(): what it may return.
Answers ==
          IF bound = NoMon THEN {"stopped"}
          ELSE {life[bound].state} \cup (IF "io" \in faults THEN {"error"} ELSE {})

Goto(c, to) == pc' = [pc EXCEPT ![c] = to] /\ UNCHANGED code
Told(c, s) == st' = [st EXCEPT ![c] = s]
Exit(c, res) ==
    /\ pc' = [pc EXCEPT ![c] = "done"]
    /\ code' = [code EXCEPT ![c] = res]

Idle == UNCHANGED monitors
-----------------------------------------------------------------------------
(* service_start() *)

\* Mutant of service_start: any monitor there is counts as a running service.
service_start_lax(c, s) ==
    /\ pc[c] = "start" /\ Answered /\ s \in Answers
    /\ Told(c, s)
    /\ IF s \notin {"error", "stopped"} THEN Exit(c, 0) ELSE Goto(c, "fork")
    /\ Idle

service_start(c, s) ==
    /\ pc[c] = "start" /\ Answered /\ s \in Answers
    /\ Told(c, s)
    /\ IF s \in {"running", "remaining"} THEN Exit(c, 0)
       ELSE Goto(c, CASE s \in {"starting", "restarting"} -> "up"
                      [] s \in {"error", "stopped"}       -> "fork"
                      [] OTHER                            -> "ending")
    /\ Idle

\* monitor_control_wait() for running, remaining or stopped.
StartWait(c, s) ==
    /\ pc[c] = "up" /\ Answered /\ s \in Answers
    /\ Told(c, s)
    /\ CASE s \in {"running", "remaining"} -> Exit(c, 0)
         [] s = "error"   -> Exit(c, 1)
         [] s = "stopped" -> Goto(c, "fork")
         [] OTHER         -> UNCHANGED <<pc, code>>
    /\ Idle

\* monitor_control_wait() for stopped.
StopAwait(c, s) ==
    /\ pc[c] = "ending" /\ Answered /\ s \in Answers
    /\ Told(c, s)
    /\ CASE s = "error"   -> Exit(c, 1)
         [] s = "stopped" -> Goto(c, "fork")
         [] OTHER         -> UNCHANGED <<pc, code>>
    /\ Idle

\* Mutant of TimedOut: waits have no deadline.
TimedOutNever(mask) == FALSE

\* A wait for one of the states in mask has gone on for too long.
TimedOut(mask) == bound # NoMon /\ ML!Serving(life[bound]) /\ life[bound].state \notin mask

StartTimeout(c) ==
    /\ \/ pc[c] = "up" /\ TimedOut({"running", "remaining"})
       \/ pc[c] = "ending" /\ TimedOut({})
    /\ Exit(c, 1) /\ Told(c, "error")
    /\ Idle

\* A prerequisite cannot be started.
CannotStart(c) ==
    /\ pc[c] = "fork"
    /\ Exit(c, 1)
    /\ UNCHANGED st /\ Idle

command_monitor(c) ==
    /\ pc[c] = "fork"
    /\ life' = [life EXCEPT ![c] = Unbound]
    /\ report' = [report EXCEPT ![c] = "open"]
    /\ Goto(c, "report")
    /\ UNCHANGED <<bound, st>>

\* daemonize_function() has read the report.
Started(c) ==
    /\ pc[c] = "report" /\ report[c] # "open"
    /\ Exit(c, IF report[c] = "closed" THEN 0 ELSE 1)
    /\ UNCHANGED st /\ Idle
-----------------------------------------------------------------------------
(* service_stop() *)

\* service_stop() returns to service_restart() or to main().
Stopped(c) == IF verb[c] = "restart" THEN Goto(c, "start") ELSE Exit(c, 0)

service_stop(c, s) ==
    /\ pc[c] = "stop" /\ Answered /\ s \in Answers
    /\ Told(c, s)
    /\ IF s = "stopped" THEN Stopped(c)
       ELSE Goto(c, IF unit.stopcmd THEN "cmd" ELSE "identify")
    /\ Idle

\* Plan A: the stop command has run; wait for the service to stop.
StopCommand(c) ==
    /\ pc[c] = "cmd"
    /\ Goto(c, "cmdwait")
    /\ UNCHANGED st /\ Idle

StopCommandWait(c, s) ==
    /\ pc[c] = "cmdwait" /\ Answered /\ s \in Answers
    /\ Told(c, s)
    /\ CASE s = "stopped" -> Stopped(c)
         [] s = "error"   -> Exit(c, 1)
         [] OTHER         -> UNCHANGED <<pc, code>>
    /\ Idle

StopCommandTimeout(c) ==
    /\ pc[c] = "cmdwait" /\ TimedOut({})
    /\ Goto(c, "identify") /\ Told(c, "error")
    /\ Idle

\* Plan B: monitor_control_identify(), then monitor_control_stop().
Identify(c) ==
    /\ pc[c] = "identify" /\ Answered
    /\ Goto(c, "ask")
    /\ UNCHANGED st /\ Idle

monitor_control_stop(c, s) ==
    /\ pc[c] = "ask" /\ Answered /\ s \in Answers
    /\ Told(c, s)
    /\ Goto(c, CASE s \in {"error", "stopped"} -> "kill"
                 [] s = "stopping"             -> "wait"
                 [] OTHER                      -> "send")
    /\ Idle

\* The stop order is taken, though its answer may be lost.
StopOrder(c) ==
    /\ pc[c] = "send" /\ bound # NoMon
    /\ \E n \in Lives :
            /\ ML!Order(life[bound], n, "stop")
            /\ life' = [life EXCEPT ![bound] = n]
    /\ \/ Goto(c, "wait") /\ Told(c, "stopping")
       \/ "io" \in faults /\ Goto(c, "kill") /\ st' \in {st, [st EXCEPT ![c] = "error"]}
    /\ UNCHANGED <<bound, report>>

\* The monitor is gone, or refuses: without an answer, the state that was read
\* before is returned.
StopUnanswered(c) ==
    /\ pc[c] = "send"
    /\ \/ bound = NoMon /\ UNCHANGED st
       \/ "io" \in faults /\ Answered /\ st' \in {st, [st EXCEPT ![c] = "error"]}
    /\ Goto(c, "kill")
    /\ Idle

\* monitor_control_wait() for stopped.
StopWait(c, s) ==
    /\ pc[c] = "wait" /\ Answered /\ s \in Answers
    /\ Told(c, s)
    /\ IF s \in {"stopped", "error"} THEN Goto(c, "kill") ELSE UNCHANGED <<pc, code>>
    /\ Idle

StopTimeout(c) ==
    /\ pc[c] = "wait" /\ TimedOut({})
    /\ Goto(c, "kill") /\ Told(c, "error")
    /\ Idle

\* Mutants of StopEnd: the outcome of plan B is not looked at; service_restart()
\* ends without starting the service.
StopEndBlind(c) ==
    /\ pc[c] = "kill"
    /\ Stopped(c)
    /\ UNCHANGED st /\ Idle
StopEndShort(c) ==
    /\ pc[c] = "kill"
    /\ Exit(c, IF st[c] = "stopped" THEN 0 ELSE 1)
    /\ UNCHANGED st /\ Idle

\* Plan C: signal the process in the PID file, if there is to be one.  If that
\* works, or there is no such file or process, the service counts as stopped.  If
\* it does not, errno may be anything; without a PIDFile key, unit_get_value() has
\* set it to ENOENT, and service_restart() goes on.
StopEnd(c) ==
    /\ pc[c] = "kill"
    /\ \/ /\ unit.pidfile \/ st[c] = "stopped"
          /\ Stopped(c)
       \/ /\ st[c] # "stopped"
          /\ IF verb[c] = "restart"
             THEN Goto(c, "start") \/ (unit.pidfile /\ Exit(c, 1))
             ELSE Exit(c, 1)
    /\ UNCHANGED st /\ Idle
-----------------------------------------------------------------------------
(* service_status() and service_reload() *)

\* 0: running; 1, 3: not running, with or without a PID file; 4: unknown.
service_status(c, s) ==
    /\ pc[c] = "status" /\ Answered /\ s \in Answers
    /\ Told(c, s)
    /\ \E res \in CASE s = "error"   -> {4}
                    [] s # "stopped" -> {0}
                    [] OTHER         -> IF unit.pidfile THEN {0, 1, 3, 4} ELSE {3} :
            Exit(c, res)
    /\ Idle

\* The reload command may fail.
service_reload(c, s) ==
    /\ pc[c] = "reload" /\ Answered /\ s \in Answers
    /\ Told(c, s)
    /\ \E res \in CASE s \in {"running", "remaining"}     -> {0, 1}
                    [] s \in {"starting", "restarting"}   -> {0}
                    [] s = "error"                        -> {1}
                    [] OTHER                              -> {7} :
            Exit(c, res)
    /\ Idle
-----------------------------------------------------------------------------
Init ==
    /\ unit \in Units /\ faults \in Faults
    /\ life \in {[m \in Monitors |-> IF m = Boot THEN l ELSE Unborn] :
                    l \in {Unborn, ML!Born(unit.type)}}
    /\ bound = IF life[Boot] = Unborn THEN NoMon ELSE Boot
    /\ report = [m \in Monitors |-> "open"]
    /\ verb \in [Clients -> Verbs]
    /\ pc = [c \in Clients |-> "idle"] /\ st = [c \in Clients |-> "none"]
    /\ code = [c \in Clients |-> Pending]
    /\ down = [c \in Clients |-> FALSE] /\ up = [c \in Clients |-> FALSE]
    /\ again = [c \in Clients |-> FALSE]

\* main(): the command is given.
Begin(c) ==
    /\ pc[c] = "idle"
    /\ Goto(c, IF verb[c] = "restart" THEN "stop" ELSE verb[c])
    /\ UNCHANGED st /\ Idle

Query(c, s) ==
    \/ service_start(c, s) \/ StartWait(c, s) \/ StopAwait(c, s)
    \/ service_stop(c, s) \/ StopCommandWait(c, s) \/ monitor_control_stop(c, s) \/ StopWait(c, s)
    \/ service_status(c, s) \/ service_reload(c, s)

ClientStep(c) ==
    /\ \/ Begin(c)
       \/ \E s \in Answers : Query(c, s)
       \/ CannotStart(c) \/ command_monitor(c) \/ Started(c) \/ StartTimeout(c)
       \/ StopCommand(c) \/ StopCommandTimeout(c) \/ Identify(c)
       \/ StopOrder(c) \/ StopUnanswered(c) \/ StopTimeout(c) \/ StopEnd(c)
    /\ UNCHANGED verb

Run(m) ==
    /\ Listen(m) \/ SetupFails(m) \/ \E n \in Lives : MonitorStep(m, n)
    /\ UNCHANGED clients

Next ==
    /\ (\E c \in Clients : ClientStep(c)) \/ (\E m \in Monitors : Run(m))
    /\ Witness
    /\ UNCHANGED <<unit, faults>>

Spec == Init /\ [][Next]_vars

\* A monitor neither stays busy for ever nor sleeps beyond its restart delay.  The
\* listen queue holds a client's request until the monitor serves clients again,
\* at the latest once the service runs again; a deadline is noticed in the end.
Busy(m) == Run(m) /\ ~Up(life[m])
Deadline(c) == StartTimeout(c) \/ StopCommandTimeout(c) \/ StopTimeout(c)

FairSpec ==
    /\ Spec
    /\ \A m \in Monitors : WF_vars(Busy(m) /\ Witness /\ UNCHANGED <<unit, faults>>)
    /\ \A c \in Clients :
        /\ SF_vars(ClientStep(c) /\ Witness /\ UNCHANGED <<unit, faults>>)
        /\ SF_vars(Deadline(c) /\ UNCHANGED verb /\ Witness /\ UNCHANGED <<unit, faults>>)
-----------------------------------------------------------------------------
Heard == {"none", "error", "restarting", "starting", "running", "remaining", "stopping", "stopped"}
Results == {0, 1, 3, 4, 7, Pending}

TypeOK ==
    /\ unit \in Units /\ faults \in Faults
    /\ life \in [Monitors -> Lives \cup {Unborn}]
    /\ bound \in Monitors \cup {NoMon}
    /\ report \in [Monitors -> {"open", "closed", "failed"}]
    /\ verb \in [Clients -> Verbs] /\ pc \in [Clients -> PCs]
    /\ st \in [Clients -> Heard] /\ code \in [Clients -> Results]
    /\ \A c \in Clients : (code[c] = Pending) <=> (pc[c] # "done")
    /\ down \in [Clients -> BOOLEAN] /\ up \in [Clients -> BOOLEAN]
    /\ again \in [Clients -> BOOLEAN]

\* At most one monitor is at work, whatever commands are given at a time: the one
\* that has bound the control socket; and the socket is free once it is gone.
OneMonitor ==
    \A m \in Monitors :
        (bound = m) <=> (life[m] \notin {Unborn, Unbound} /\ life[m].phase # "gone")

Done(c, v) == verb[c] = v /\ code[c] = 0

\* A start that is reported successful saw the service launched, by its own monitor
\* or by another's: service_start() never takes a service that is stopping, or
\* waiting to be restarted, for one that runs.  A service that cannot be executed is
\* excepted, since its monitor exits with EXIT_SUCCESS.
StartTruth ==
    \A c \in Clients : Done(c, "start") /\ "exec" \notin faults => up[c]

\* A stop that is reported successful saw a moment without any monitor, unless
\* service_stop() was content with the PID file.
StopTruth == \A c \in Clients : Done(c, "stop") /\ ~unit.pidfile => down[c]

\* A restart that is reported successful saw the service launched after a moment
\* without a monitor, even if service_stop() failed on the way; provided that stop
\* orders are not overwritten by readiness, as for forking and one-shot services.
RestartTruth ==
    \A c \in Clients :
        Done(c, "restart") /\ faults = {} /\ unit.type \in {"simple", "notify"} => again[c]

\* Every command returns: a simple service is started, stopped, restarted and asked
\* about in bounded time, even while others do the same.
CommandsReturn == \A c \in Clients : (pc[c] # "idle") ~> (pc[c] = "done")
\* A monitor that has come further than its first attempt to launch the service.
Launched(l) == l.state \notin {"none", "idle"} /\ ~(l.state = "starting" /\ l.phase \in {"busy", "gone"})

\* Where the commands start and stop may be.
Plan(v) ==
    CASE v = "start" -> {"idle", "start", "up", "ending", "fork", "report", "done"}
      [] v = "stop"  -> {"idle", "stop", "cmd", "cmdwait", "identify", "ask", "send", "wait", "kill", "done"}
      [] OTHER       -> PCs

\* Inductive strengthening of OneMonitor, StartTruth and StopTruth: a client's monitor
\* is not born before it is forked; a monitor that serves has not come to its end;
\* whoever was told "stopped" saw no monitor; and a client whose monitor has launched
\* the service, or says so, saw it.
ControlInv ==
    /\ TypeOK /\ OneMonitor /\ StartTruth /\ StopTruth
    /\ \A m \in Monitors :
         /\ ML!Serving(life[m]) => life[m].state \notin ML!Final \cup {"idle"}
         /\ life[m].phase = "wait" => life[m].state \in {"restarting", "remaining"}
    /\ \A c \in Clients :
         /\ pc[c] \in Plan(verb[c])
         /\ pc[c] \notin {"report", "done"} => life[c] = Unborn
         /\ st[c] = "stopped" => down[c]
         /\ pc[c] = "idle" => st[c] = "none"
         /\ "exec" \notin faults /\ pc[c] = "report" /\ (Launched(life[c]) \/ report[c] = "closed") => up[c]

\* A monitor that has taken a stop order, and is on its way to the exit.
Halting(l) == l.state \in {"stopping", "stopped"}

\* Inductive strengthening of RestartTruth: once the stop order was given, or found to
\* have been given, the monitor halts until a moment without one is seen; the service is
\* forked only after such a moment, and reported only once it was launched.
Restarted(c) ==
    /\ pc[c] \notin {"status", "reload"}
    /\ pc[c] \in {"wait", "kill", "start", "up", "ending"} =>
            down[c] \/ (bound # NoMon /\ Halting(life[bound]))
    /\ pc[c] \in {"fork", "report"} => down[c]
    /\ pc[c] = "report" /\ (Launched(life[c]) \/ report[c] = "closed") => again[c]
    /\ code[c] = 0 => again[c]
RestartInv ==
    faults = {} /\ unit.type \in {"simple", "notify"} =>
        \A c \in Clients : verb[c] = "restart" => Restarted(c)
=============================================================================
