------------------------------ MODULE Monitor -------------------------------
(***************************************************************************)
(* The service monitor of sysvrun (monitor.c): monitor_func() starts the   *)
(* service and decides what to do when it ends, monitor_watch() follows    *)
(* its processes and carries out stop and restart orders, monitor_wait()   *)
(* sits out restart delays.  It runs against the kernel's processes and    *)
(* the event queue of module Kernel, and keeps the process table of module *)
(* ProcTable.                                                              *)
(*                                                                         *)
(* Time is abstract.  `sent' says whether ko.sent is zero, less than       *)
(* TimeoutStopSec ago, or longer ago; `early' that the uptime is still at  *)
(* most TimeoutStopSec, in which case now - 0 does not exceed it either.   *)
(* The start limiter is module StartLimit; here its verdict is arbitrary.  *)
(***************************************************************************)
EXTENDS Kernel, FiniteSets

CONSTANTS
    InitPid, NoPid,
    Services,     \* the unit files considered
    MaxStarts,    \* bound: times the service is started
    MaxOrders,    \* bound: stop and restart orders
    MaxLosses,    \* bound: overflows of the netlink socket
    MaxSetsid,    \* bound: processes that lead a session at a time
    Still         \* the values of pc at which the service's processes are held
                  \* still: "done", and in most runs "ingest" and "collect"

VARIABLES
    svc,          \* the unit: see ServiceType
    fate,         \* history: how the main process ended, "none" if it has not
    sig,          \* strongest signal sent to a live process: "none", "TERM", "KILL"
    pidfile,      \* process named by the PID file
    table,        \* procwatch's table
    state, child, pid, wstatus,      \* fields of struct monitor
    moved,        \* mon.sid # getsid(0)
    pc,           \* where the monitor is: see PCs
    sent, stopping, collected,       \* monitor_watch(): ko.sent, stopping, pid # 0
    early,
    order,        \* history: the last order obeyed, "none" before the first
    ordered,      \* history: an order came in since the last start
    strayed,      \* history: what the callback dropped from the table since the
                  \* last start: "none", "some" processes, the "main" one too
    starts, orders, losses           \* history: for the bounds

procs == <<kproc, leader, fate, sig, pidfile>>
mon == <<state, child, pid, wstatus, moved>>
watch == <<sent, stopping, collected>>
history == <<order, ordered, strayed, starts, orders, losses>>
vars == <<svc, procs, queue, table, mon, pc, watch, early, history>>

PT == INSTANCE ProcTable

ServiceType ==
    [type : {"simple", "oneshot", "forking", "notify"},
     kill_mode : {"control-group", "mixed", "process", "none"},
     restart_policy : {"no", "always", "on-success", "on-failure", "on-abnormal"},
     remain_after_exit : BOOLEAN,
     pidfile : BOOLEAN]

ASSUME MonitorAssumption ==
    /\ NoPid \notin Pids /\ Self \notin Pids
    /\ Statuses \subseteq {"clean", "fail", "abort"} /\ "abort" \in Statuses
    /\ Services \subseteq ServiceType
    /\ MaxStarts \in Nat /\ MaxOrders \in Nat /\ MaxLosses \in Nat

\* In the order of enum monitor_state.
States == <<"idle", "restarting", "starting", "running", "remaining",
            "stopping", "stopped", "failed", "dead">>

StateNames == {States[i] : i \in DOMAIN States}

Final == {"stopped", "failed", "dead"}

\* Top of monitor_func()'s loop; about to fork the service; the three parts of
\* monitor_watch()'s loop; monitor_wait(); returned.
PCs == {"loop", "start", "poll", "ingest", "collect", "wait", "done"}

monitor_is_stopping(st) == st \in {"restarting", "stopping"}
-----------------------------------------------------------------------------
Init ==
    /\ svc \in Services
    /\ KernelInit
    /\ fate = "none" /\ sig = [p \in Pids |-> "none"]
    /\ pidfile = NoPid
    /\ table = PT!EmptyTable
    /\ state = "starting"
    /\ child = NoPid /\ pid = NoPid /\ wstatus = "none" /\ moved = FALSE
    /\ pc = "loop"
    /\ sent = "zero" /\ stopping = 0 /\ collected = FALSE
    /\ early \in BOOLEAN
    /\ order = "none" /\ ordered = FALSE /\ strayed = "none" /\ starts = 0 /\ orders = 0 /\ losses = 0
-----------------------------------------------------------------------------
(* The control socket.  A client may ask for the status or change the noise *)
(* level, which changes nothing modelled ("none", which is also what happens *)
(* when there is no client or it is not privileged).                         *)

Commands == {"none", "stop", "restart"}

\* The state after monitor_control_socket_ingest() has carried out cmd.
StateAfter(cmd) ==
    CASE cmd = "stop"    -> IF state \in {"stopping"} \cup Final THEN state ELSE "stopping"
      [] cmd = "restart" -> "restarting"
      [] OTHER           -> state

monitor_control_socket_ingest(cmd) ==
    /\ cmd # "none" => orders < MaxOrders
    /\ order' = IF cmd = "none" THEN order ELSE cmd
    /\ ordered' = (ordered \/ cmd # "none")
    /\ orders' = IF cmd = "none" THEN orders ELSE orders + 1
    /\ UNCHANGED <<strayed, starts, losses>>
-----------------------------------------------------------------------------
(* monitor_func() *)

\* Mutants of Outcome: the order that came in meanwhile is overlooked; the policy
\* is not looked at.
OutcomeHasty(st, w) ==
    IF w = "clean" THEN "stopped" ELSE IF svc.restart_policy = "no" THEN "failed" ELSE "restarting"
OutcomeEager(st, w) ==
    IF st # "running" THEN st
    ELSE IF svc.remain_after_exit /\ w = "clean" THEN "remaining" ELSE "restarting"

\* Whether to restart, remain or end, once monitor_watch() has returned in
\* state st with the main process's status w.
Outcome(st, w) ==
    LET ucexit == w = "fail"
        ucsig  == w = "abort"
        clean  == ~ucexit /\ ~ucsig
        restart == CASE svc.restart_policy = "always"      -> TRUE
                     [] svc.restart_policy = "on-success"  -> clean
                     [] svc.restart_policy = "on-failure"  -> ~clean
                     [] svc.restart_policy = "on-abnormal" -> ucsig
                     [] OTHER                              -> FALSE
    IN  IF st # "running" THEN st
        ELSE IF svc.remain_after_exit /\ clean THEN "remaining"
        ELSE IF restart THEN "restarting"
        ELSE IF clean THEN "stopped" ELSE "failed"

\* monitor_watch() returns in state st: it drains the process table.
Leave(st) ==
    /\ state' = Outcome(st, wstatus)
    /\ table' = PT!EmptyTable
    /\ pc' = "loop"

\* An unrecoverable error in monitor_watch().
Die ==
    /\ state' = "dead"
    /\ table' = PT!EmptyTable
    /\ pc' = "loop"

\* case MS_RESTARTING: give up if the start limit is exceeded, else wait.
Restarting ==
    /\ pc = "loop" /\ state = "restarting"
    /\ \/ state' = "failed" /\ UNCHANGED pc
       \/ pc' = "wait" /\ UNCHANGED state
    /\ UNCHANGED <<svc, procs, queue, table, child, pid, wstatus, moved, watch, early, history>>

\* case MS_REMAINING.
Remaining ==
    /\ pc = "loop" /\ state = "remaining"
    /\ pc' = "wait"
    /\ UNCHANGED <<svc, procs, queue, table, mon, watch, early, history>>

\* case MS_STOPPING.
Stopping ==
    /\ pc = "loop" /\ state = "stopping"
    /\ state' = "stopped"
    /\ UNCHANGED <<svc, procs, queue, table, child, pid, wstatus, moved, pc, watch, early, history>>

\* The loop ends.
Finish ==
    /\ pc = "loop" /\ state \in Final
    /\ pc' = "done"
    /\ UNCHANGED <<svc, procs, queue, table, mon, watch, early, history>>

AtStart == pc = "start" \/ (pc = "loop" /\ state = "starting")

\* case MS_STARTING: fork_function() has forked the service and seen it exec;
\* monitor_watch() is entered.
Start(c) ==
    /\ AtStart
    /\ starts < MaxStarts
    /\ KFork(Self, c)
    /\ child' = c
    /\ wstatus' = "none"
    /\ moved' = FALSE
    /\ state' = IF svc.type = "simple" THEN "running" ELSE state
    /\ pid' = IF svc.type # "forking" THEN c ELSE pid
    /\ sent' = "zero" /\ stopping' = 0 /\ collected' = FALSE
    /\ pc' = "poll"
    /\ ordered' = FALSE /\ strayed' = "none" /\ starts' = starts + 1
    /\ fate' = "none"
    /\ UNCHANGED <<svc, sig, pidfile, table, early, order, orders, losses>>

\* Mutant of StartFails: the service is taken to have failed.
StartFailsMildly ==
    /\ AtStart
    /\ state' = "failed" /\ child' = NoPid /\ wstatus' = "none" /\ moved' = FALSE
    /\ pc' = "loop"
    /\ UNCHANGED <<svc, procs, queue, table, pid, watch, early, history>>

\* case MS_STARTING when fork_function() reports an error.
StartFails ==
    /\ AtStart
    /\ state' = "dead" /\ child' = NoPid /\ wstatus' = "none" /\ moved' = FALSE
    /\ pc' = "loop"
    /\ UNCHANGED <<svc, procs, queue, table, pid, watch, early, history>>
-----------------------------------------------------------------------------
(* monitor_watch().  One turn of its loop is a wake-up of poll(), with an    *)
(* order or without, and, if events were waiting at that moment, the         *)
(* ingestion and collection of all there are.                                *)

\* Mutant of Due: the state is not looked at.
DueAnytime(st) == sent = "expired" \/ (sent = "zero" /\ ~early)

\* monitor_is_stopping(mon) && now - ko.sent > svc->stop_timeout
Due(st) ==
    /\ monitor_is_stopping(st)
    /\ sent = "expired" \/ (sent = "zero" /\ ~early)

\* Neither a kill pass nor a reason to give up.
WakeIdle(cmd) ==
    /\ ~Due(StateAfter(cmd))
    /\ UNCHANGED <<table, sig, sent, stopping>>

\* A stop order and no main process: give it one more interval.
WakeGrace(cmd) ==
    /\ Due(StateAfter(cmd)) /\ pid = NoPid /\ sent = "zero"
    /\ sent' = "fresh"
    /\ UNCHANGED <<table, sig, stopping>>

\* ko.all in the n-th pass.
KillAll(n) == svc.kill_mode = "control-group" \/ (svc.kill_mode = "mixed" /\ n = 2)

\* process_foreach(monitor_kill): the processes in the table that are signalled.
Targets(n) == {p \in PT!Tracked(table) : Alive(p) /\ (KillAll(n) \/ p = pid)}

\* Mutant of WakeKill: a third pass is made.
WakeKillThrice(cmd) ==
    /\ Due(StateAfter(cmd)) /\ pid # NoPid /\ svc.kill_mode # "none" /\ stopping < 3
    /\ stopping' = stopping + 1
    /\ sent' = "fresh"
    /\ UNCHANGED <<sig, table>>

\* The first (SIGTERM) or second (SIGKILL) pass.
WakeKill(cmd) ==
    /\ Due(StateAfter(cmd)) /\ pid # NoPid /\ svc.kill_mode # "none" /\ stopping < 2
    /\ stopping' = stopping + 1
    /\ sent' = "fresh"
    /\ sig' = [p \in Pids |->
                  IF p \notin Targets(stopping + 1) THEN sig[p]
                  ELSE IF stopping = 0 /\ sig[p] # "KILL" THEN "TERM" ELSE "KILL"]
    /\ UNCHANGED table

\* Stay in the loop; events that were waiting are ingested next.
WakeAndStay(cmd) ==
    /\ pc = "poll"
    /\ monitor_control_socket_ingest(cmd)
    /\ state' = StateAfter(cmd)
    /\ WakeIdle(cmd) \/ WakeGrace(cmd) \/ WakeKill(cmd)
    /\ pc' = IF queue # <<>> THEN "ingest" ELSE "poll"
    /\ UNCHANGED <<svc, kproc, leader, fate, pidfile, queue, child, pid, wstatus, moved,
                   collected, early>>

\* Mutants of WakeAndLeave: it gives up after the first pass; not after the second.
WakeAndLeaveEarly(cmd) ==
    /\ pc = "poll"
    /\ monitor_control_socket_ingest(cmd)
    /\ Due(StateAfter(cmd))
    /\ IF pid = NoPid THEN sent # "zero" ELSE svc.kill_mode = "none" \/ stopping = 1
    /\ Leave(StateAfter(cmd))
    /\ UNCHANGED <<svc, procs, queue, child, pid, wstatus, moved, watch, early>>
WakeAndLeaveNever(cmd) ==
    /\ pc = "poll"
    /\ monitor_control_socket_ingest(cmd)
    /\ Due(StateAfter(cmd))
    /\ IF pid = NoPid THEN sent # "zero" ELSE svc.kill_mode = "none"
    /\ Leave(StateAfter(cmd))
    /\ UNCHANGED <<svc, procs, queue, child, pid, wstatus, moved, watch, early>>

\* No main process after two intervals, KillMode=none, or two passes in vain.
WakeAndLeave(cmd) ==
    /\ pc = "poll"
    /\ monitor_control_socket_ingest(cmd)
    /\ Due(StateAfter(cmd))
    /\ IF pid = NoPid THEN sent # "zero" ELSE svc.kill_mode = "none" \/ stopping = 2
    /\ Leave(StateAfter(cmd))
    /\ UNCHANGED <<svc, procs, queue, child, pid, wstatus, moved, watch, early>>

\* poll() or the control session fails.
WakeError ==
    /\ pc = "poll"
    /\ Die
    /\ UNCHANGED <<svc, procs, queue, child, pid, wstatus, moved, watch, early, history>>

\* monitor_proc_event(): the callback's answer to a setsid() by one of ours.
DropsSid == svc.type # "forking" \/ moved

\* The table after an event; procwatch_ingest().
Ingested(ev, drop) ==
    CASE ev.what = "fork" -> PT!Insert(table, ev.child, ev.actor)
      [] ev.what = "exit" -> PT!Exit(table, ev.actor, ev.wstatus)
      [] OTHER            -> IF drop THEN PT!Drop(table, ev.actor) ELSE table

\* procwatch_ingest(0) returns true.
Ingest ==
    /\ pc = "ingest" /\ queue # <<>>
    /\ LET ev == Head(queue)
           sid == ev.what = "sid" /\ ev.actor \in PT!Tracked(table)
           t  == Ingested(ev, DropsSid)
       IN  /\ table' = t
           /\ moved' = (moved \/ (sid /\ ~DropsSid))
           /\ strayed' = IF ~sid \/ ~DropsSid THEN strayed
                         ELSE IF pid \in PT!Tracked(table) \ PT!Tracked(t) THEN "main"
                         ELSE IF strayed = "none" THEN "some" ELSE strayed
    /\ queue' = Tail(queue)
    /\ UNCHANGED <<svc, procs, state, child, pid, wstatus, pc, watch, early,
                   order, ordered, starts, orders, losses>>

\* monitor_find_main_pid(), if the main process is unknown and the child gone.
FindMain ==
    pid' = IF pid # NoPid \/ child # NoPid THEN pid
           ELSE IF svc.pidfile /\ pidfile \in PT!Tracked(table) THEN pidfile ELSE NoPid

\* procwatch_ingest(0) times out: all events are ingested.
IngestedAll ==
    /\ pc = "ingest" /\ queue = <<>>
    /\ FindMain
    /\ pc' = "collect"
    /\ UNCHANGED <<svc, procs, queue, table, state, child, wstatus, moved, watch, early, history>>

\* procwatch_ingest(0) fails otherwise: the events on the socket are lost, and
\* procwatch_reconnect() succeeds or fails.
IngestError ==
    /\ pc = "ingest" /\ losses < MaxLosses
    /\ queue' = <<>>
    /\ losses' = losses + 1
    /\ \/ FindMain /\ pc' = "collect" /\ UNCHANGED <<state, table>>
       \/ Die /\ UNCHANGED pid
    /\ UNCHANGED <<svc, procs, child, wstatus, moved, watch, early, order, ordered, strayed, starts, orders>>

\* Mutants of Collect: no status is recorded; that of any process is.
CollectNoStatus ==
    /\ pc = "collect" /\ PT!Collectable(table)
    /\ table' = PT!Collect(table)
    /\ collected' = TRUE
    /\ UNCHANGED <<svc, procs, queue, mon, pc, sent, stopping, early, history>>

CollectAny ==
    /\ pc = "collect" /\ PT!Collectable(table)
    /\ LET p == PT!First(table) IN
       /\ child' = IF p = child THEN NoPid ELSE child
       /\ state' = IF p = child /\ svc.type = "forking" THEN "running" ELSE state
       /\ wstatus' = table.ready[p].wstatus
       /\ pidfile' = IF p = pid /\ svc.pidfile THEN NoPid ELSE pidfile
    /\ table' = PT!Collect(table)
    /\ collected' = TRUE
    /\ UNCHANGED <<svc, kproc, leader, fate, sig, queue, pid, moved, pc, sent, stopping, early, history>>

\* process_collect() returns a process.
Collect ==
    /\ pc = "collect" /\ PT!Collectable(table)
    /\ LET p == PT!First(table) IN
       /\ child' = IF p = child THEN NoPid ELSE child
       /\ state' = IF p = child /\ svc.type = "forking" THEN "running" ELSE state
       /\ wstatus' = IF p = pid THEN table.ready[p].wstatus ELSE wstatus
       /\ pidfile' = IF p = pid /\ svc.pidfile THEN NoPid ELSE pidfile
    /\ table' = PT!Collect(table)
    /\ collected' = TRUE
    /\ UNCHANGED <<svc, kproc, leader, fate, sig, queue, pid, moved, pc, sent, stopping, early, history>>

\* The main process has ended and that is all we wait for.
MainEnded ==
    /\ wstatus # "none"
    /\ ~monitor_is_stopping(state) \/ svc.kill_mode = "process"

\* Mutant of NoneLeft: nothing need have been collected.
NoneLeftYet == PT!Tracked(table) = {}

\* process_collect() said ECHILD, after at least one process was collected.
NoneLeft == PT!Tracked(table) = {} /\ collected

\* process_collect() has returned NULL.
CollectedAll ==
    /\ pc = "collect" /\ ~PT!Collectable(table)
    /\ \/ /\ svc.type = "oneshot" /\ wstatus # "none"
          /\ Leave("running")
       \/ /\ ~(svc.type = "oneshot" /\ wstatus # "none")
          /\ MainEnded \/ NoneLeft
          /\ Leave(state)
       \/ /\ ~(svc.type = "oneshot" /\ wstatus # "none") /\ ~MainEnded /\ ~NoneLeft
          /\ pc' = "poll"
          /\ UNCHANGED <<state, table>>
    /\ UNCHANGED <<svc, procs, queue, child, pid, wstatus, moved, watch, early, history>>
-----------------------------------------------------------------------------
(* monitor_wait(), in state "restarting" until the deadline or in state      *)
(* "remaining" for ever.                                                     *)

WaitControl(cmd) ==
    /\ pc = "wait" /\ cmd # "none"
    /\ monitor_control_socket_ingest(cmd)
    /\ state' = StateAfter(cmd)
    /\ pc' = IF state' = state THEN "wait" ELSE "loop"
    /\ UNCHANGED <<svc, procs, queue, table, child, pid, wstatus, moved, watch, early>>

\* Events are ingested without a callback and terminated processes discarded.
WaitIngest ==
    /\ pc = "wait" /\ queue # <<>>
    /\ LET t == Ingested(Head(queue), FALSE)
       IN  table' = IF PT!Collectable(t) THEN PT!Collect(t) ELSE t
    /\ queue' = Tail(queue)
    /\ UNCHANGED <<svc, procs, mon, pc, watch, early, history>>

\* The delay is over: fall through to case MS_STARTING.
WaitOver ==
    /\ pc = "wait" /\ state = "restarting"
    /\ pc' = "start"
    /\ UNCHANGED <<svc, procs, queue, table, mon, watch, early, history>>

\* The event socket overflows and is reopened.
WaitLoss ==
    /\ pc = "wait" /\ queue # <<>> /\ losses < MaxLosses
    /\ queue' = <<>> /\ losses' = losses + 1
    /\ UNCHANGED <<svc, procs, table, mon, pc, watch, early, order, ordered, strayed, starts, orders>>

\* poll(), the control session or the event socket fails for good.
WaitError ==
    /\ pc = "wait"
    /\ state' = "dead" /\ pc' = "loop"
    /\ UNCHANGED <<svc, procs, queue, table, child, pid, wstatus, moved, watch, early, history>>
-----------------------------------------------------------------------------
(* The service's processes.  A process that was sent SIGKILL can only die; one *)
(* that was sent SIGTERM may ignore it.                                        *)
(*                                                                             *)
(* What they do while the monitor reads a batch of events commutes with its    *)
(* steps: an event that arrives then is read in the same batch, as if it had   *)
(* arrived before the wake-up, or in the next, as if it had arrived after the  *)
(* batch.  Still = {"ingest", "collect", "done"} leaves those orders out.      *)

CanAct(p) == Alive(p) /\ sig[p] # "KILL" /\ pc \notin Still

\* Process numbers are handed out in order.
Fresh(c) == kproc[c] = "unborn" /\ \A q \in Pids : q < c => kproc[q] # "unborn"

ProcFork(p, c) ==
    /\ CanAct(p) /\ KFork(p, c)
    /\ UNCHANGED <<svc, fate, sig, pidfile, table, mon, pc, watch, early, history>>

\* The main process: the child, or the one that wrote the PID file.
IsMain(p) == p = IF svc.type = "forking" THEN pidfile ELSE child

ProcSetsid(p) ==
    /\ CanAct(p) /\ KSetsid(p)
    /\ Cardinality(leader') <= MaxSetsid
    /\ UNCHANGED <<svc, fate, sig, pidfile, table, mon, pc, watch, early, history>>

\* The status of a process that is not the main one is only ever logged.
ProcExit(p, w) ==
    /\ pc \notin Still /\ KExit(p, w)
    /\ IF sig[p] = "KILL" THEN w = "abort" ELSE p \in {child, pid, pidfile} \/ w = "clean"
    /\ fate' = IF IsMain(p) THEN w ELSE fate
    /\ sig' = [sig EXCEPT ![p] = "none"]
    /\ UNCHANGED <<svc, pidfile, table, mon, pc, watch, early, history>>

\* The service writes its PID file; in a forking service, the daemon does.
WritePidfile(p) ==
    /\ CanAct(p) /\ svc.pidfile /\ pidfile # p
    /\ svc.type = "forking" => p # child
    /\ pidfile' = p
    /\ UNCHANGED <<svc, kproc, leader, fate, sig, queue, table, mon, pc, watch, early, history>>

\* TimeoutStopSec passes since the last pass, or since the machine was booted.
Expire ==
    /\ sent = "fresh" /\ pc = "poll"
    /\ sent' = "expired"
    /\ UNCHANGED <<svc, procs, queue, table, mon, pc, stopping, collected, early, history>>

Uptime ==
    /\ early /\ pc = "poll"
    /\ early' = FALSE
    /\ UNCHANGED <<svc, procs, queue, table, mon, pc, watch, history>>
-----------------------------------------------------------------------------
MonitorStep ==
    \/ Restarting \/ Remaining \/ Stopping \/ Finish
    \/ \E c \in Pids : Fresh(c) /\ Start(c)
    \/ StartFails
    \/ \E cmd \in Commands : WakeAndStay(cmd) \/ WakeAndLeave(cmd) \/ WaitControl(cmd)
    \/ WakeError \/ Ingest \/ IngestedAll \/ IngestError \/ Collect \/ CollectedAll
    \/ WaitIngest \/ WaitOver \/ WaitLoss \/ WaitError

ServiceStep ==
    \E p \in Pids :
        \/ \E c \in Pids : Fresh(c) /\ ProcFork(p, c)
        \/ ProcSetsid(p) \/ WritePidfile(p)
        \/ \E w \in Statuses : ProcExit(p, w)

Next == MonitorStep \/ ServiceStep \/ Expire \/ Uptime

Spec == Init /\ [][Next]_vars

\* The monitor takes its turns, poll() returns when events are waiting, delays and
\* timeouts pass, and the kernel ends a process that was sent SIGKILL.
Fairness ==
    /\ WF_vars(Restarting \/ Remaining \/ Stopping \/ Finish)
    /\ WF_vars(StartFails \/ \E c \in Pids : Fresh(c) /\ Start(c))
    /\ WF_vars(queue # <<>> /\ (WakeAndStay("none") \/ WakeAndLeave("none")))
    /\ WF_vars(Ingest \/ IngestedAll) /\ WF_vars(Collect \/ CollectedAll)
    /\ WF_vars(WaitIngest) /\ WF_vars(WaitOver)
    /\ WF_vars(Expire) /\ WF_vars(Uptime)
    /\ \A p \in Pids : WF_vars(sig[p] = "KILL" /\ ProcExit(p, "abort"))

FairSpec == Spec /\ Fairness

\* monitor_control_stop() and monitor_control_wait() poll the monitor's status
\* until it has stopped, and every request wakes it up.
ClientPolls == WF_vars(WakeAndStay("none") \/ WakeAndLeave("none"))
-----------------------------------------------------------------------------
TypeOK ==
    /\ KernelType
    /\ svc \in Services
    /\ fate \in Statuses \cup {"none"}
    /\ sig \in [Pids -> {"none", "TERM", "KILL"}]
    /\ pidfile \in Pids \cup {NoPid}
    /\ table \in PT!Table
    /\ state \in StateNames
    /\ child \in Pids \cup {NoPid} /\ pid \in Pids \cup {NoPid}
    /\ wstatus \in Statuses \cup {"none"}
    /\ moved \in BOOLEAN /\ pc \in PCs
    /\ sent \in {"zero", "fresh", "expired"} /\ stopping \in 0..2 /\ collected \in BOOLEAN
    /\ early \in BOOLEAN
    /\ order \in Commands /\ ordered \in BOOLEAN /\ strayed \in {"none", "some", "main"}
    /\ starts \in 0..MaxStarts /\ orders \in 0..MaxOrders /\ losses \in 0..MaxLosses

\* The states that go with the last order.
Obeying == state \in IF order = "stop" THEN {"stopping", "stopped", "dead"}
                     ELSE {"restarting", "failed", "dead"}

\* An order counts until the service is started again: after a stop order the
\* monitor is stopping, has stopped or has died; after a restart order it is
\* restarting, or gave up because of the start limit, or has died.  Nothing the
\* service's processes do in between turns it back into "running"; except that
\* readiness does, for the types that monitor_watch() reports ready.
OrderObeyed == ordered /\ svc.type \notin {"forking", "oneshot"} => Obeying

\* What is known of the main process is what the kernel reported: no events were
\* lost, and the process did not call setsid(), which "a non-forking service
\* should never" do (monitor_proc_event()).
Sound == losses = 0 /\ strayed # "main"

\* The types that are reported running and whose main process is the monitor's
\* child, so that its status is known.
Judged == Sound /\ svc.type \in {"simple", "oneshot"}

\* When the service is started again its previous main process is gone or has
\* been sent SIGKILL, unless the unit says KillMode=none: two instances never
\* run side by side, however orders, exits and timeouts interleave.  (mon.pid of a
\* forking service is not reset: from its second instance on it names the main
\* process of the first, and nothing is said of the others.)
OneInstance ==
    [][starts' > starts /\ Sound /\ svc.kill_mode # "none" /\ (svc.type # "forking" \/ starts = 1)
        => pid = NoPid \/ ~Alive(pid) \/ sig[pid] = "KILL"]_vars

\* Exits after which the Restart= policy of the unit asks for a restart.
Unwelcome ==
    CASE svc.restart_policy = "always"      -> Statuses
      [] svc.restart_policy = "on-success"  -> {"clean"}
      [] svc.restart_policy = "on-failure"  -> {"fail", "abort"}
      [] svc.restart_policy = "on-abnormal" -> {"abort"}
      [] OTHER                              -> {}

\* The service is started again only if it was ordered to restart, or if its
\* main process really ended in a way the policy restarts it for.  A one-shot
\* service that has been restarted stays in state restarting while it runs, so that
\* it is ended after TimeoutStopSec and started once more, whatever its policy:
\* only its first restart is justified.  (internals.md, 78, has the last descendant's
\* outcome decide; monitor_watch() keeps that of the main process.)
RestartJustified ==
    [][starts' > starts /\ starts > 0 /\ Judged /\ (svc.type = "simple" \/ starts = 1)
        => (ordered /\ order = "restart") \/ fate \in Unwelcome]_vars

\* The converse, and the other verdicts: without an order, when the main process
\* really ended in a way the policy restarts the service for, the service is
\* restarted; "stopped" and "remaining" mean that it really succeeded, "failed"
\* that it did not.  (The verdict comes as soon as the main process has ended; by
\* internals.md, 74, only when all descendants have.)
PolicyFollowed ==
    [][pc = "collect" /\ pc' = "loop" /\ Judged
        => /\ ~ordered /\ fate \in Unwelcome /\ ~(svc.remain_after_exit /\ fate = "clean")
                => state' = "restarting"
           /\ state' \in {"stopped", "remaining"} => fate = "clean"
           /\ state' = "failed" => fate \in {"fail", "abort"}]_vars

\* If monitor_watch() finds its table empty, every process of the service has
\* terminated, whatever they forked and however they were orphaned; unless they
\* had been dropped for starting sessions of their own, events were lost, or an
\* earlier instance had left processes behind.
NoneLeftTrue ==
    [][pc = "collect" /\ pc' = "loop" /\ PT!Tracked(table) = {}
        /\ losses = 0 /\ strayed = "none" /\ starts = 1
        => \A p \in Pids : ~Alive(p)]_vars

\* monitor_watch() does not take the service for ended before its main process has
\* ended, even if events were lost or others come before that of its own fork; unless
\* the main process was dropped for a session of its own.  (After a loss, processes
\* that an earlier instance left behind may be taken for the new one's.)
WatchedToTheEnd ==
    [][pc = "collect" /\ pc' = "loop" /\ svc.type # "forking" /\ strayed # "main"
        /\ (losses = 0 \/ starts = 1)
        => fate # "none"]_vars

\* A process is sent a signal only after an order to stop or restart the
\* instance of the service that is running.  Other types than simple and exec may
\* be in state restarting while the new instance is watched.
SignalsOrdered ==
    [][svc.type = "simple" /\ (\E p \in Pids : sig'[p] # sig[p] /\ sig'[p] # "none")
        => ordered']_vars

\* With a client polling, a stop order ends the monitor: the kill passes escalate
\* and it gives up, whatever the service's processes do about the signals, unless
\* a restart order takes the stop order's place.
StopEnds ==
    ClientPolls => ((ordered /\ order = "stop") ~> (pc = "done" \/ order # "stop"))

\* The end of the main process is noticed (and its status recorded, or the
\* service started again, or the monitor done) even if other processes of the
\* service live on.
MainExitNoticed ==
    fate # "none" ~> (wstatus # "none" \/ fate = "none" \/ pc = "done" \/ ~Sound)

\* The monitor seen by its clients.
Phase == CASE pc \in {"poll", "ingest", "collect"} -> "watch"
           [] pc = "wait" -> "wait"
           [] pc = "done" -> "gone"
           [] OTHER       -> "busy"

ML == INSTANCE MonitorLife WITH
    Types <- {"simple", "oneshot", "forking", "notify"},
    life  <- [type |-> svc.type, state |-> state, phase |-> Phase]

\* Everything the monitor does, seen through its control socket, is a step of
\* MonitorLife: the state changes clients are told of come in no other order.
ImplementsLife == ML!Spec
-----------------------------------------------------------------------------
(* What a comment says of the monitor. *)

\* "We can get here if we receive a stop order very shortly after starting (or
\* restarting) the service", and then the monitor gives a forking service one more
\* interval "to make itself known before we give up" (monitor.c 559-562): no order
\* is forgotten, for services of any type.
OrderKept == ordered => Obeying
=============================================================================
