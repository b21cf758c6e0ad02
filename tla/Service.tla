------------------------------ MODULE Service -------------------------------
(***************************************************************************)
(* service.c: one command of sysvrun from beginning to end: service_start()*)
(* with the services that it requires, service_stop() with all its plans,  *)
(* service_restart(), service_reload() and service_status(), over Command. *)
(*                                                                         *)
(* The monitors of the services, and the process that a PID file names,    *)
(* act by themselves and for other users.  Of a monitor only the state     *)
(* that it tells is kept; Control says how it comes about.                 *)
(***************************************************************************)
EXTENDS Command, FiniteSets

CONSTANTS
    Services,
    Target,        \* the service given on the command line
    Cases,         \* [verb, unit (of every service), self,
                   \* busy (services whose monitors act by themselves or for others)]
    MaxDepth       \* bound on the recursion of service_start()

Elements(q) == {q[i] : i \in 1 .. Len(q)}

ASSUME ServiceAssumption ==
    /\ Target \in Services
    /\ {EXIT_FAILURE} \cup {ExitCode[t] : t \in DOMAIN ExitCode} \subseteq Codes
    /\ \A k \in Cases :
         /\ k.verb \in {"start", "stop", "restart", "reload", "status"}
         /\ \A s \in Services :
              /\ k.unit[s].pidfile \in {"none", "path", "bad"}
              /\ k.unit[s].requires \in Seq(Elements(k.unit[s].requires))
              /\ \A l \in {k.unit[s].start, k.unit[s].stop, k.unit[s].reload} :
                    l.where \in {"there", "missing", "nowhere"}

VARIABLES
    case,          \* in Cases
    stack,         \* activations of service_start() and its like, see Frame
    st, errno,     \* the locals state and errno of service_stop()
    exit,          \* the exit code, Pending before
    mon,           \* mon[s]: what the monitor of s tells; "stopped" without one
    pidf, alive,   \* the target's PID file, and whether its process is alive
    told,          \* history: the process in the file has been sent SIGTERM ("sent"),
                   \* has come after the signal ("new"), or neither ("no")
    wasup, down, gone  \* history: services that ran at some moment of the command;
                   \* was there one without a monitor of the target; one when
                   \* the PID file did not name a live process

client == <<case, stack, st, errno, exit>>
world == <<mon, pidf, alive, told>>
history == <<wasup, down, gone>>
vars == <<self, fault, command, client, world, history>>

verb == case.verb
unit == case.unit

Pending == -1
Errnos == {"", "ENOENT", "ESRCH", "EINVAL", "EPERM"}
States == {"stopped", "starting", "running", "stopping"}
Frame(s, p) == [svc |-> s, pc |-> p, next |-> 1, bad |-> FALSE]
Top == stack[Len(stack)]
At(p) == stack # <<>> /\ Top.pc = p
U == unit[Top.svc]

\* Services that some service requires.
Required == (UNION {Elements(unit[s].requires) : s \in Services}) \cap Services

Witness ==
    /\ wasup' = wasup \cup {s \in Required : mon'[s] = "running"}
    /\ down' = (down \/ mon'[Target] = "stopped")
    /\ gone' = (gone \/ pidf' \in {"absent", "zero"} \/ (pidf' = "pid" /\ ~alive'))
-----------------------------------------------------------------------------
(* Control flow *)

Moved(f, p) == [svc |-> f.svc, pc |-> p, next |-> f.next, bad |-> f.bad]
Goto(p) == stack' = [stack EXCEPT ![Len(stack)] = Moved(Top, p)] /\ UNCHANGED exit

\* service_start_prerequisites() notes what starting a service came to.
Advanced(f, res) == [svc |-> f.svc, pc |-> f.pc, next |-> f.next + 1, bad |-> (f.bad \/ res # 0)]

\* Mutant of Return: service_start_prerequisites() forgets a failure.
ReturnForgiving(res) ==
    LET n == Len(stack) - 1
    IN  IF n = 0 THEN stack' = <<>> /\ exit' = res
        ELSE stack' = [SubSeq(stack, 1, n) EXCEPT ![n] = Advanced(stack[n], 0)] /\ UNCHANGED exit

\* To main(), or to service_start_prerequisites().
Return(res) ==
    LET n == Len(stack) - 1
    IN  IF n = 0 THEN stack' = <<>> /\ exit' = res
        ELSE stack' = [SubSeq(stack, 1, n) EXCEPT ![n] = Advanced(stack[n], res)] /\ UNCHANGED exit

\* service_stop() returns, to service_restart() or to main().
StopReturns(res, e) ==
    IF verb = "restart" /\ (res = 0 \/ e \in {"ENOENT", "ESRCH"}) THEN Goto("start")
    ELSE Return(res)

\* monitor_control_get_state()
Answers == {mon[Top.svc], "error"}

Quiet == UNCHANGED <<st, errno, world>>
NoCommandStep == UNCHANGED <<command, fault>>
Build(l, e) == command_from_service(U, l, e) /\ UNCHANGED <<func, todo, proc, wstatus, report>>
-----------------------------------------------------------------------------
(* service_start() *)

service_start(s) ==
    /\ At("start") /\ s \in Answers
    /\ CASE s = "running"              -> Return(0)
         [] s = "starting"             -> Goto("up")
         [] s = "stopping"             -> Goto("ending")
         [] s \in {"stopped", "error"} -> Goto("build")
    /\ Quiet /\ NoCommandStep

\* monitor_control_wait(), whose deadline may pass.
StartWait(s) ==
    /\ At("up") /\ s \in Answers
    /\ CASE s = "running"              -> Return(0)
         [] s = "stopped"              -> Goto("build")
         [] s \in {"error", "starting", "stopping"} -> Return(1)
    /\ Quiet /\ NoCommandStep

EndWait(s) ==
    /\ At("ending") /\ s \in Answers
    /\ IF s = "stopped" THEN Goto("build") ELSE Return(1)
    /\ Quiet /\ NoCommandStep

StartBuild(e) ==
    /\ At("build") /\ Build(U.start, e)
    /\ IF e = "" THEN Goto("required") ELSE Return(1)
    /\ Quiet

\* service_start_prerequisites(): the next one is looked for, and started.
Prerequisite ==
    /\ At("required") /\ Top.next <= Len(U.requires)
    /\ LET r == U.requires[Top.next]
       IN  IF r \notin Services THEN Return(1)
           ELSE Len(stack) < MaxDepth /\ stack' = Append(stack, Frame(r, "start")) /\ UNCHANGED exit
    /\ Quiet /\ NoCommandStep

Prerequisites ==
    /\ At("required") /\ Top.next > Len(U.requires)
    /\ IF Top.bad THEN Return(1) /\ UNCHANGED command
       ELSE Goto("fork") /\ Call("monitor")
    /\ Quiet /\ UNCHANGED fault

\* command_monitor() returns the daemon's PID or a code.
Monitored ==
    /\ At("fork") /\ parent = "done"
    /\ Return(IF result < 0 THEN -result ELSE 0)
    /\ Quiet /\ NoCommandStep
-----------------------------------------------------------------------------
(* service_stop() *)

service_stop(s) ==
    /\ At("stop") /\ s \in Answers
    /\ IF s = "stopped" THEN StopReturns(0, "") ELSE Goto("planA")
    /\ Quiet /\ NoCommandStep

\* Plan A: the stop command.
PlanA(e) ==
    /\ At("planA") /\ Build(U.stop, e)
    /\ CASE e = "ENOENT" -> Goto("planB")
         [] e = "EINVAL" -> StopReturns(1, e)
         [] OTHER        -> Goto("run")
    /\ Quiet

\* command_run() is called, in plan A, in plan C or by service_reload().
Run ==
    /\ \E p \in {<<"run", "ran">>, <<"runC", "ranC">>, <<"runR", "ranR">>} : At(p[1]) /\ Goto(p[2])
    /\ Call("exec")
    /\ Quiet /\ UNCHANGED fault

StopRan ==
    /\ At("ran") /\ RunReturned
    /\ Goto("await")
    /\ Quiet /\ NoCommandStep

StopAwait(s) ==
    /\ At("await") /\ s \in Answers
    /\ CASE s = "stopped" -> StopReturns(0, "")
         [] s = "error"   -> StopReturns(1, "EPERM")
         [] OTHER         -> Goto("planB")
    /\ Quiet /\ NoCommandStep

\* Plan B: an old monitor is sent SIGTERM, which may miss it, and "we tried".  It may
\* also fail to identify itself, and is then taken for a new one.
PlanB ==
    /\ At("planB")
    /\ \/ /\ U.old /\ mon[Top.svc] # "stopped"
          /\ st' = "stopped" /\ Goto("planC")
          /\ mon' \in {mon, [mon EXCEPT ![Top.svc] = "stopped"]}
       \/ Goto("ask") /\ UNCHANGED <<st, mon>>
    /\ UNCHANGED <<errno, pidf, alive, told>> /\ NoCommandStep

\* monitor_control_stop()
monitor_control_stop(s) ==
    /\ At("ask") /\ s \in Answers
    /\ st' = s
    /\ Goto(CASE s \in {"stopped", "error"} -> "planC"
              [] s = "stopping"             -> "wait"
              [] OTHER                      -> "send")
    /\ UNCHANGED <<errno, world>> /\ NoCommandStep

StopOrder ==
    /\ At("send")
    /\ \/ /\ mon[Top.svc] # "stopped"
          /\ mon' = [mon EXCEPT ![Top.svc] = "stopping"]
          /\ \/ Goto("wait") /\ st' = "stopping"
             \/ Goto("planC") /\ st' \in {st, "error"}
       \/ Goto("planC") /\ UNCHANGED mon /\ st' \in {st, "error"}
    /\ UNCHANGED <<errno, pidf, alive, told>> /\ NoCommandStep

StopWait(s) ==
    /\ At("wait") /\ s \in Answers
    /\ st' = IF s = "stopped" THEN s ELSE "error"
    /\ Goto("planC")
    /\ UNCHANGED <<errno, world>> /\ NoCommandStep

\* Plan C: without the key, unit_get_value() sets errno.
PlanC ==
    /\ At("planC")
    /\ IF U.pidfile = "none" THEN StopReturns(IF st = "stopped" THEN 0 ELSE 1, "ENOENT")
       ELSE Goto("buildC")
    /\ Quiet /\ NoCommandStep

\* The stop command, or failing that the start command, for its PID file.
PlanCBuild(e) ==
    /\ At("buildC") /\ Build(U.stop, e)
    /\ Goto(IF e = "" THEN "runC" ELSE "startC")
    /\ Quiet

PlanCStart(e) ==
    /\ At("startC") /\ Build(U.start, e)
    /\ IF e = "" THEN Goto("kill") ELSE StopReturns(1, e)
    /\ Quiet

PlanCRan ==
    /\ At("ranC") /\ RunReturned
    /\ Goto("kill")
    /\ Quiet /\ NoCommandStep

\* Mutant of PlanCKill: the PID file is removed first.
PlanCKillLate(e) ==
    /\ At("kill")
    /\ pidf' = "absent" /\ e = errno
    /\ st' = "stopped" /\ Goto("rmpid")
    /\ UNCHANGED <<errno, mon, alive, told>> /\ NoCommandStep

PlanCKill(e) ==
    /\ At("kill")
    /\ IF U.killmode = "none" THEN e = "" /\ UNCHANGED told
       ELSE command_kill(pidf, alive, e) /\ told' = IF e = "" THEN "sent" ELSE told
    /\ st' = IF e \in {"", "ENOENT", "ESRCH"} THEN "stopped" ELSE st
    /\ errno' = e /\ Goto("rmpid")
    /\ UNCHANGED <<mon, pidf, alive>> /\ NoCommandStep

\* unlink() may fail.
command_rmpid(e) ==
    /\ At("rmpid")
    /\ \/ pidf # "absent" /\ pidf' = "absent" /\ e = errno
       \/ pidf = "absent" /\ e = "ENOENT" /\ UNCHANGED pidf
       \/ pidf # "absent" /\ e = "EPERM" /\ UNCHANGED pidf
    /\ StopReturns(IF st = "stopped" THEN 0 ELSE 1, e)
    /\ UNCHANGED <<st, errno, mon, alive, told>> /\ NoCommandStep
-----------------------------------------------------------------------------
(* service_reload() and service_status() *)

service_reload(e) ==
    /\ At("reload") /\ Build(U.reload, e)
    /\ IF e = "" THEN Goto("askR") ELSE Return(3)
    /\ Quiet

ReloadAsk(s) ==
    /\ At("askR") /\ s \in Answers
    /\ CASE s = "error"                  -> Return(1)
         [] s = "starting"               -> Return(0)
         [] s = "running"                -> Goto("runR")
         [] s \in {"stopping", "stopped"} -> Return(7)
    /\ st' = s
    /\ UNCHANGED <<errno, world>> /\ NoCommandStep

ReloadRan ==
    /\ At("ranR") /\ RunReturned
    /\ Return(IF RunResult = 0 THEN 0 ELSE 1)
    /\ Quiet /\ NoCommandStep

service_status(s) ==
    /\ At("status") /\ s \in Answers
    /\ CASE s = "error"   -> Return(4)
         [] s = "stopped" -> Goto("buildS")
         [] OTHER         -> Return(0)
    /\ Quiet /\ NoCommandStep

StatusBuild(e) ==
    /\ At("buildS") /\ Build(U.start, e)
    /\ IF e = "" THEN Goto("probe") ELSE Return(4)
    /\ Quiet

StatusProbe(e) ==
    /\ At("probe") /\ command_kill(pidf, alive, e)
    /\ Return(CASE e = "" -> 0 [] e = "ESRCH" -> 1 [] e = "ENOENT" -> 3 [] OTHER -> 4)
    /\ Quiet /\ NoCommandStep
-----------------------------------------------------------------------------
(* The forked process *)

\* The service whose monitor is being forked.
Starting == func = "monitor" /\ At("fork")

\* The program ends when it likes.
Program ==
    /\ \E w \in {0, 256} : ProgramExits(w)
    /\ UNCHANGED <<client, world>>

\* monitor_func() binds the control socket, unless another monitor has.
MonitorBinds ==
    /\ Starting /\ child = "running" /\ ~ready /\ mon[Top.svc] = "stopped" /\ todo = <<>>
    /\ mon' = [mon EXCEPT ![Top.svc] = "starting"] /\ todo' = <<"service">>
    /\ UNCHANGED <<self, cmd, func, proc, wstatus, report, fault, client, pidf, alive, told>>

\* The service is running, or it could not be executed, which is not reported.
MonitorReports ==
    /\ Starting /\ child = "running" /\ ~ready /\ todo # <<>>
    /\ \/ mon' = [mon EXCEPT ![Top.svc] = "running"] /\ FR!report_ready /\ UNCHANGED fault
       \/ mon' = [mon EXCEPT ![Top.svc] = "stopped"] /\ FR!Succeed /\ fault' = TRUE
    /\ UNCHANGED <<self, cmd, func, todo, proc, wstatus, client, pidf, alive, told>>

MonitorFails ==
    /\ Starting /\ child = "running" /\ ~ready
    /\ FR!Fail(EXIT_FAILURE)
    /\ mon' = IF todo = <<>> THEN mon ELSE [mon EXCEPT ![Top.svc] = "stopped"]
    /\ UNCHANGED <<self, cmd, func, todo, proc, wstatus, fault, client, pidf, alive, told>>

MonitorKilled ==
    /\ Starting /\ ~ready /\ ChildKilled(TRUE)
    /\ mon' = IF todo = <<>> THEN mon ELSE [mon EXCEPT ![Top.svc] = "stopped"]
    /\ UNCHANGED <<client, pidf, alive, told>>

Exec ==
    /\ ExecStep \/ ExecFails \/ (func = "exec" /\ ChildKilled(fault))
    /\ UNCHANGED <<client, world>>

Report == (ReportStep \/ ChildExits) /\ UNCHANGED <<client, world>>

MonitorChild == MonitorBinds \/ MonitorReports \/ MonitorFails \/ MonitorKilled
-----------------------------------------------------------------------------
(* Others *)

\* A monitor goes its way, or is started or told to stop by somebody else.
MonitorActs(s) ==
    /\ s \in case.busy /\ ~(Starting /\ s = Top.svc /\ ~ready /\ todo # <<>>)
    /\ \E n \in CASE mon[s] = "stopped"  -> {"starting"}
                  [] mon[s] = "starting" -> {"running", "stopped"}
                  [] mon[s] = "running"  -> {"starting", "stopping", "stopped"}
                  [] mon[s] = "stopping" -> {"stopped"} :
            mon' = [mon EXCEPT ![s] = n]
    /\ UNCHANGED <<pidf, alive, told>>

\* The process in the PID file ends; another writes its own PID there.
ProcessActs ==
    /\ \/ alive /\ alive' = FALSE /\ UNCHANGED <<pidf, told>>
       \/ /\ mon[Target] # "stopped"
          /\ pidf' = "pid" /\ alive' = TRUE /\ told' = IF At("rmpid") THEN "new" ELSE "no"
    /\ UNCHANGED mon

Others ==
    /\ stack # <<>>
    /\ (\E s \in Services : MonitorActs(s)) \/ (unit[Target].pidfile # "none" /\ ProcessActs)
    /\ UNCHANGED <<self, fault, command, client>>
-----------------------------------------------------------------------------
Init ==
    /\ case \in Cases /\ self = case.self
    /\ fault = FALSE /\ cmd = NoCommand /\ Idle
    /\ stack = <<Frame(Target, IF verb = "restart" THEN "stop" ELSE verb)>>
    /\ st = "error" /\ errno = "" /\ exit = Pending
    /\ mon \in {m \in [Services -> States] : \A s \in Services \ case.busy :
                    m[s] = "stopped" \/ (m[s] = "running" /\ s \in Required)}
    /\ pidf \in IF unit[Target].pidfile = "none" THEN {"absent"} ELSE PidFiles
    /\ alive \in IF pidf = "pid" THEN BOOLEAN ELSE {FALSE}
    /\ told = "no"
    /\ wasup = {s \in Required : mon[s] = "running"}
    /\ down = (mon[Target] = "stopped")
    /\ gone = (pidf \in {"absent", "zero"} \/ (pidf = "pid" /\ ~alive))

Asks(s) ==
    \/ service_start(s) \/ StartWait(s) \/ EndWait(s)
    \/ service_stop(s) \/ StopAwait(s) \/ monitor_control_stop(s) \/ StopWait(s)
    \/ ReloadAsk(s) \/ service_status(s)

Builds(e) ==
    \/ StartBuild(e) \/ PlanA(e) \/ PlanCBuild(e) \/ PlanCStart(e)
    \/ service_reload(e) \/ StatusBuild(e)

Client ==
    /\ \/ \E s \in States \cup {"error"} : Asks(s)
       \/ \E e \in {"", "ENOENT", "EINVAL"} : Builds(e)
       \/ Prerequisite \/ Prerequisites \/ Monitored
       \/ Run \/ StopRan \/ PlanB \/ StopOrder \/ PlanC \/ PlanCRan
       \/ \E e \in Errnos : PlanCKill(e) \/ command_rmpid(e) \/ StatusProbe(e)
       \/ ReloadRan
    /\ UNCHANGED <<self, case>>

Own == Client \/ Report \/ Exec \/ MonitorChild

Next == (Own \/ Program \/ Others) /\ Witness

Spec == Init /\ [][Next]_vars

\* sysvrun and the processes that it forks run on; the monitor comes to a verdict;
\* and the program of a command that is waited for comes to an end.
FairSpec ==
    /\ Spec
    /\ WF_vars(Client /\ Witness) /\ WF_vars(Report /\ Witness)
    /\ WF_vars(Exec /\ Witness) /\ WF_vars(MonitorChild /\ Witness)
    /\ WF_vars(Program /\ Witness)
-----------------------------------------------------------------------------
\* What the two parents of fork.c promise holds in every command that uses them:
\* success is reported only of a function that reported it or was killed, and
\* failure, with the function's code, only if it failed before that.
ReportTruth == func # "none" => FR!SuccessTruth /\ FR!FailureTruth

Plus == "+" \in cmd.flags

\* Once a superuser's ExecStop or ExecReload runs, it runs in the directories, with
\* the user, the groups and the mask that the unit asks for, and with "+" with those
\* of sysvrun: command_exec_func() leaves none out and does them in an order in which
\* none undoes another.
ExecAsAsked ==
    child = "running" /\ proc.prog /\ self = 0 =>
        /\ proc.root = (IF cmd.rootdir = "none" THEN "/" ELSE cmd.rootdir)
        /\ proc.cwd = (IF cmd.workdir = "none" THEN "/" ELSE "dir")
        /\ proc.uid = (IF Plus THEN 0 ELSE cmd.uid)
        /\ proc.gid = (IF Plus THEN 0 ELSE cmd.gid) /\ proc.groups = {proc.gid}
        /\ proc.umask = cmd.umask

\* If nothing unforeseen happens, a superuser's command that could be built fails to
\* be executed only if there is no such program, or if the unit has a root directory
\* other than /, in which the path that was resolved from outside is looked up again:
\* no other step of command_exec_func() takes away what a later one needs.
FailsForReason ==
    func = "exec" /\ parent = "collect" /\ self = 0 /\ ~fault =>
        code = EXIT_EXEC /\ (cmd.where = "missing" \/ cmd.rootdir = "dir")

\* Reloading is reported done only if the reload command was executed and exited
\* with zero, or if it was pointless because the service was starting; and if nothing
\* unforeseen happens, it is reported failed only if the command failed or could not be
\* executed, for a reason that FailsForReason names.
ReloadTruth ==
    verb = "reload" /\ exit \in {0, 1} =>
        /\ exit = 0 => (proc.prog /\ wstatus = 0) \/ st = "starting"
        /\ exit = 1 /\ st # "error" /\ ~fault /\ self = 0 =>
             wstatus > 0 \/ cmd.where = "missing" \/ cmd.rootdir = "dir"

\* A monitor is forked only if each service that its unit requires was running at some
\* moment of this command; in particular, services that require each other are never
\* started.  (A monitor that is killed, or cannot execute its service, is taken for
\* one that has started it.)
Grounded ==
    [][(~At("fork") /\ stack' # <<>> /\ stack'[Len(stack')].pc = "fork" /\ ~fault) =>
            Elements(unit[Top.svc].requires) \subseteq wasup]_vars

\* If stop reports success, there was a moment without a monitor, or it was an old one
\* that was signalled, or else plan C was carried out: the process in the PID file was
\* signalled or not there, or the unit does not want it to be signalled.
StopAccounted ==
    verb = "stop" /\ exit = 0 =>
        \/ down \/ unit[Target].old
        \/ /\ unit[Target].pidfile = "path"
           /\ gone \/ told # "no" \/ unit[Target].killmode = "none"

\* The PID file of a live process is removed only after the process was sent SIGTERM,
\* unless the unit or the kernel forbids that, or the process came after the signal:
\* otherwise nobody would find it again.
PidFileKept ==
    [][(pidf = "pid" /\ alive /\ pidf' = "absent") =>
            told # "no" \/ unit[Target].killmode = "none" \/ self # 0]_vars

\* Requirements that lead back to where they started.
Requires(s) == Elements(unit[s].requires) \cap Services
Cyclic == \E S \in SUBSET Services \ {{}} : \A s \in S : Requires(s) \cap S # {}

\* A command returns, whatever the services and the other users do, unless services
\* require each other: then service_start() calls itself without end.
CommandReturns == ~Cyclic => <>(stack = <<>>)
=============================================================================
