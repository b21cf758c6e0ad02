--------------------------- MODULE MonitorProofs ----------------------------
(***************************************************************************)
(* Proofs about Monitor, for every set of processes, every bound and every *)
(* set of unit files: its orders and signals, the life of a monitor it     *)
(* implements, and what it knows of its main process and of the others.    *)
(***************************************************************************)
EXTENDS Monitor, TLAPS

-----------------------------------------------------------------------------
(* Types *)

Exited == [wstatus : Statuses, after : SUBSET Pids]

\* What a process table consists of: a parent for each tracked process and an
\* entry for each terminated one.
LEMMA TableParts ==
    ASSUME NEW t \in PT!Table
    PROVE  /\ t = [ppid |-> t.ppid, ready |-> t.ready]
           /\ PT!Tracked(t) \subseteq Pids
           /\ t.ppid \in [PT!Tracked(t) -> Pids \cup {Self, InitPid}]
           /\ PT!ReadyPids(t) \subseteq Pids
           /\ t.ready \in [PT!ReadyPids(t) -> Exited]
  BY DEF PT!Table, PT!Tracked, PT!ReadyPids, Exited

\* Building a table from its parts.
LEMMA TableMade ==
    ASSUME NEW S \in SUBSET Pids, NEW f \in [S -> Pids \cup {Self, InitPid}],
           NEW R \in SUBSET Pids, NEW r \in [R -> Exited]
    PROVE  [ppid |-> f, ready |-> r] \in PT!Table
  BY DEF PT!Table, Exited

\* process_insert() yields a table.
LEMMA InsertType ==
    ASSUME NEW t \in PT!Table, NEW c \in Pids, NEW p \in Pids \cup {Self}
    PROVE  PT!Insert(t, c, p) \in PT!Table
<1>1. CASE c \in PT!Tracked(t) \/ p \notin PT!Tracked(t) \cup {Self}
  BY <1>1 DEF PT!Insert
<1>2. CASE ~(c \in PT!Tracked(t) \/ p \notin PT!Tracked(t) \cup {Self})
  <2> DEFINE f == [q \in PT!Tracked(t) \cup {c} |-> IF q = c THEN p ELSE t.ppid[q]]
  <2>1. PT!Insert(t, c, p) = [ppid |-> f, ready |-> t.ready]
    BY <1>2, TableParts DEF PT!Insert
  <2>2. f \in [PT!Tracked(t) \cup {c} -> Pids \cup {Self, InitPid}]
    BY TableParts
  <2>3. [ppid |-> f, ready |-> t.ready] \in PT!Table
    <3> HIDE DEF f
    <3> QED BY <2>2, TableParts, TableMade
  <2> QED BY <2>1, <2>3
<1> QED BY <1>1, <1>2

\* process_exit() yields a table.
LEMMA ExitType ==
    ASSUME NEW t \in PT!Table, NEW p \in Pids, NEW w \in Statuses
    PROVE  PT!Exit(t, p, w) \in PT!Table
<1> DEFINE R == PT!ReadyPids(t) \cup {p}
           r == [q \in R |-> IF q = p THEN [wstatus |-> w, after |-> PT!ReadyPids(t)]
                             ELSE t.ready[q]]
<1>1. PT!Orphan(t, p) \in [PT!Tracked(t) -> Pids \cup {Self, InitPid}]
  BY TableParts DEF PT!Orphan
<1>2. r \in [R -> Exited]
  BY TableParts DEF Exited
<1>3. [ppid |-> PT!Orphan(t, p), ready |-> r] \in PT!Table
  <2> HIDE DEF r
  <2> QED BY <1>1, <1>2, TableParts, TableMade
<1> QED BY <1>3 DEF PT!Exit

\* Removing processes from a table yields a table.
LEMMA WithoutType ==
    ASSUME NEW t \in PT!Table, NEW gone
    PROVE  PT!Without(t, gone) \in PT!Table
<1> DEFINE f == [q \in PT!Tracked(t) \ gone |-> t.ppid[q]]
           R == PT!ReadyPids(t) \ gone
           r == [q \in R |-> [wstatus |-> t.ready[q].wstatus,
                               after |-> t.ready[q].after \ gone]]
<1>1. f \in [PT!Tracked(t) \ gone -> Pids \cup {Self, InitPid}]
  BY TableParts
<1>2. r \in [R -> Exited]
  <2>1. ASSUME NEW q \in R
        PROVE  [wstatus |-> t.ready[q].wstatus, after |-> t.ready[q].after \ gone] \in Exited
    BY TableParts DEF Exited
  <2> QED BY <2>1
<1>3. [ppid |-> f, ready |-> r] \in PT!Table
  <2> HIDE DEF r, f
  <2> QED BY <1>1, <1>2, TableParts, TableMade
<1> QED BY <1>3 DEF PT!Without

\* process_drop() yields a table.
LEMMA DropType ==
    ASSUME NEW t \in PT!Table, NEW p
    PROVE  PT!Drop(t, p) \in PT!Table
  BY WithoutType DEF PT!Drop

\* process_collect() yields a table and a tracked process's status.
LEMMA CollectType ==
    ASSUME NEW t \in PT!Table, PT!Collectable(t)
    PROVE  /\ PT!Collect(t) \in PT!Table
           /\ PT!First(t) \in Pids
           /\ t.ready[PT!First(t)].wstatus \in Statuses
<1>1. PT!First(t) \in PT!ReadyPids(t)
  BY DEF PT!Collectable, PT!First
<1>2. PT!Collect(t) \in PT!Table
  BY WithoutType DEF PT!Collect
<1>3. t.ready[PT!First(t)] \in Exited
  BY <1>1, TableParts
<1> QED BY <1>1, <1>2, <1>3, TableParts DEF Exited

\* procwatch_drain() yields a table.
LEMMA EmptyType == PT!EmptyTable \in PT!Table
<1>1. [p \in {} |-> InitPid] \in [{} -> Pids \cup {Self, InitPid}]
  OBVIOUS
<1>2. [p \in {} |-> {}] \in [{} -> Exited]
  OBVIOUS
<1> QED BY <1>1, <1>2, TableMade, ZenonT(60) DEF PT!EmptyTable

\* procwatch_ingest() yields a table from whatever event is read.
LEMMA IngestedType ==
    ASSUME table \in PT!Table, NEW ev \in Events, NEW drop \in BOOLEAN
    PROVE  Ingested(ev, drop) \in PT!Table
<1>1. CASE ev.what = "fork"
  <2>1. ev.child \in Pids /\ ev.actor \in Pids \cup {Self}
    BY <1>1 DEF Events
  <2> QED BY <1>1, <2>1, InsertType DEF Ingested
<1>2. CASE ev.what = "exit"
  <2>1. ev.actor \in Pids /\ ev.wstatus \in Statuses
    BY <1>2 DEF Events
  <2> QED BY <1>2, <2>1, ExitType DEF Ingested
<1>3. CASE ev.what \notin {"fork", "exit"}
  BY <1>3, DropType DEF Ingested
<1> QED BY <1>1, <1>2, <1>3

\* The socket takes one more event.
LEMMA QueueGrows ==
    ASSUME KernelType, NEW ev \in Events PROVE Append(queue, ev) \in Seq(Events)
<1> HIDE DEF Events
<1> QED BY DEF KernelType

\* A fork leaves the kernel's part of the state well formed.
LEMMA ForkType ==
    ASSUME KernelType, NEW p \in Pids \cup {Self}, NEW c \in Pids, KFork(p, c)
    PROVE  KernelType'
<1>1. ForkEvent(p, c) \in Events
  BY DEF Events, ForkEvent
<1> QED BY <1>1, QueueGrows DEF KFork, KernelType

\* So does a setsid().
LEMMA SetsidType ==
    ASSUME KernelType, NEW p \in Pids, KSetsid(p) PROVE KernelType'
<1>1. SidEvent(p) \in Events
  BY DEF Events, SidEvent
<1> QED BY <1>1, QueueGrows DEF KSetsid, KernelType

\* So does an exit.
LEMMA KExitType ==
    ASSUME KernelType, NEW p \in Pids, NEW w \in Statuses, KExit(p, w) PROVE KernelType'
<1>1. ExitEvent(p, w) \in Events
  BY DEF Events, ExitEvent
<1> QED BY <1>1, QueueGrows DEF KExit, KernelType

\* Reading an event off the queue, or losing all of them, leaves a queue of events.
LEMMA QueueRead ==
    ASSUME queue \in Seq(Events)
    PROVE  /\ queue # <<>> => Tail(queue) \in Seq(Events) /\ Head(queue) \in Events
           /\ <<>> \in Seq(Events)
<1> HIDE DEF Events
<1> QED OBVIOUS

\* The names of enum monitor_state.
LEMMA StatesListed ==
    StateNames = {"idle", "restarting", "starting", "running", "remaining",
                  "stopping", "stopped", "failed", "dead"}
  BY DEF StateNames, States

\* The control session yields states and counters of the right type.
LEMMA ControlType ==
    ASSUME TypeOK, NEW cmd \in Commands
    PROVE  /\ StateAfter(cmd) \in StateNames
           /\ monitor_control_socket_ingest(cmd) =>
                /\ order' \in Commands /\ ordered' \in BOOLEAN /\ orders' \in 0..MaxOrders
                /\ UNCHANGED <<strayed, starts, losses>>
<1>1. StateAfter(cmd) \in StateNames
  BY StatesListed DEF TypeOK, StateAfter
<1>2. ASSUME monitor_control_socket_ingest(cmd)
      PROVE  /\ order' \in Commands /\ ordered' \in BOOLEAN /\ orders' \in 0..MaxOrders
             /\ UNCHANGED <<strayed, starts, losses>>
  <2>1. orders \in 0..MaxOrders /\ MaxOrders \in Nat
    BY MonitorAssumption DEF TypeOK
  <2>2. orders' \in 0..MaxOrders
    BY <1>2, <2>1 DEF monitor_control_socket_ingest
  <2> QED BY <1>2, <2>2 DEF TypeOK, monitor_control_socket_ingest, Commands
<1> QED BY <1>1, <1>2

\* The policy decision yields a state.
LEMMA OutcomeType ==
    ASSUME NEW st \in StateNames, NEW w PROVE Outcome(st, w) \in StateNames
  BY StatesListed DEF Outcome

\* Every variable keeps its type: in particular no pass beyond the second is made,
\* a collected status is one the kernel reported, and the table stays a table.
THEOREM TypeCorrect == Spec => []TypeOK
<1>1. Init => TypeOK
  <2> SUFFICES ASSUME Init PROVE TypeOK
    OBVIOUS
  <2>1. KernelType
    BY DEF Init, KernelInit, KernelType
  <2>2. table \in PT!Table
    BY EmptyType DEF Init
  <2>3. starts \in 0..MaxStarts /\ orders \in 0..MaxOrders /\ losses \in 0..MaxLosses
    BY MonitorAssumption DEF Init
  <2>4. state \in StateNames /\ pc \in PCs /\ order \in Commands
    BY StatesListed DEF Init, PCs, Commands
  <2>5. sig \in [Pids -> {"none", "TERM", "KILL"}] /\ stopping \in 0..2
    BY DEF Init
  <2> QED BY <2>1, <2>2, <2>3, <2>4, <2>5, Zenon DEF Init, TypeOK
<1>2. TypeOK /\ [Next]_vars => TypeOK'
  <2> SUFFICES ASSUME TypeOK, [Next]_vars PROVE TypeOK'
    OBVIOUS
  <2> USE DEF TypeOK, procs, mon, watch, history
  <2>0. queue \in Seq(Events)
    BY DEF KernelType
  <2>k. UNCHANGED <<kproc, leader, queue>> => KernelType'
    BY DEF KernelType
  <2>s. {"running", "stopped", "failed", "dead"} \subseteq StateNames
    BY StatesListed
  <2>p. {"loop", "start", "poll", "ingest", "collect", "wait", "done"} \subseteq PCs
    BY DEF PCs
  <2>1. CASE Restarting \/ Remaining \/ Stopping \/ Finish
    BY <2>k, <2>s, <2>p, <2>1, SMTT(30) DEF Restarting, Remaining, Stopping, Finish
  <2>2. ASSUME NEW c \in Pids, Start(c) PROVE TypeOK'
    <3>1. KernelType'
      BY <2>2, ForkType DEF Start
    <3>2. starts' \in 0..MaxStarts
      BY <2>2, MonitorAssumption DEF Start
    <3>3. state' \in StateNames /\ pid' \in Pids \cup {NoPid} /\ pc' \in PCs
      BY <2>s, <2>p, <2>2 DEF Start
    <3>4. stopping' \in 0..2
      BY <2>2 DEF Start
    <3>5. /\ UNCHANGED <<svc, sig, pidfile, table, early, order, orders, losses>>
          /\ child' = c /\ wstatus' = "none" /\ moved' = FALSE /\ sent' = "zero"
          /\ collected' = FALSE /\ ordered' = FALSE /\ strayed' = "none" /\ fate' = "none"
      BY <2>2 DEF Start
    <3> QED BY <3>1, <3>2, <3>3, <3>4, <3>5, ZenonT(60)
  <2>3. CASE StartFails
    BY <2>k, <2>s, <2>p, <2>3, ZenonT(30) DEF StartFails
  <2>4. ASSUME NEW cmd \in Commands, WakeAndStay(cmd) PROVE TypeOK'
    <3>1. /\ UNCHANGED table
          /\ sig' \in [Pids -> {"none", "TERM", "KILL"}]
          /\ sent' \in {"zero", "fresh", "expired"} /\ stopping' \in 0..2
      <4>1. CASE WakeIdle(cmd) \/ WakeGrace(cmd)
        BY <4>1 DEF WakeIdle, WakeGrace
      <4>2. CASE WakeKill(cmd)
        BY <4>2 DEF WakeKill
      <4> QED BY <2>4, <4>1, <4>2 DEF WakeAndStay
    <3> QED BY <2>k, <2>s, <2>p, <2>4, <3>1, ControlType, SMTT(30) DEF WakeAndStay
  <2>5. ASSUME NEW cmd \in Commands, WakeAndLeave(cmd) PROVE TypeOK'
    <3>1. state' \in StateNames /\ table' \in PT!Table /\ pc' \in PCs
      BY <2>s, <2>p, <2>5, ControlType, OutcomeType, EmptyType DEF WakeAndLeave, Leave
    <3> QED BY <2>k, <2>5, <3>1, ControlType, SMTT(30) DEF WakeAndLeave
  <2>6. ASSUME NEW cmd \in Commands, WaitControl(cmd) PROVE TypeOK'
    BY <2>k, <2>s, <2>p, <2>6, ControlType, SMTT(30) DEF WaitControl
  <2>7. CASE WakeError \/ WaitError
    BY <2>k, <2>s, <2>p, <2>7, EmptyType, SMTT(30) DEF WakeError, WaitError, Die
  <2>8. CASE Ingest
    <3>1. Tail(queue) \in Seq(Events) /\ Head(queue) \in Events
      BY <2>8, <2>0, QueueRead DEF Ingest
    <3>2. table' \in PT!Table
      BY <2>8, <3>1, IngestedType, ZenonT(60) DEF Ingest, DropsSid
    <3>3. moved' \in BOOLEAN /\ strayed' \in {"none", "some", "main"}
      BY <2>8 DEF Ingest
    <3>4. KernelType'
      BY <2>8, <3>1 DEF Ingest, KernelType
    <3> QED BY <2>8, <3>2, <3>3, <3>4, SMTT(30) DEF Ingest
  <2>9. CASE IngestedAll
    BY <2>k, <2>p, <2>9, SMTT(30) DEF IngestedAll, FindMain
  <2>10. CASE IngestError
    <3>1. losses' \in 0..MaxLosses
      BY <2>10, MonitorAssumption, SMTT(30) DEF IngestError
    <3>2. table' \in PT!Table /\ state' \in StateNames /\ pid' \in Pids \cup {NoPid} /\ pc' \in PCs
      BY <2>s, <2>p, <2>10, EmptyType DEF IngestError, Die, FindMain
    <3>3. KernelType'
      BY <2>10, QueueRead, <2>0 DEF IngestError, KernelType
    <3> QED BY <2>10, <3>1, <3>2, <3>3, SMTT(30) DEF IngestError
  <2>11. CASE Collect
    <3>1. /\ table' \in PT!Table
          /\ PT!First(table) \in Pids
          /\ table.ready[PT!First(table)].wstatus \in Statuses
      BY <2>11, CollectType DEF Collect
    <3>2. /\ child' \in Pids \cup {NoPid} /\ pidfile' \in Pids \cup {NoPid}
          /\ wstatus' \in Statuses \cup {"none"} /\ state' \in StateNames
      BY <2>s, <2>11, <3>1 DEF Collect
    <3> QED BY <2>k, <2>11, <3>1, <3>2, SMTT(30) DEF Collect
  <2>12. CASE CollectedAll
    <3>1. state' \in StateNames /\ table' \in PT!Table /\ pc' \in PCs
      BY <2>s, <2>p, <2>12, OutcomeType, EmptyType DEF CollectedAll, Leave
    <3> QED BY <2>k, <2>12, <3>1, SMTT(30) DEF CollectedAll
  <2>13. CASE WaitIngest
    <3>1. Tail(queue) \in Seq(Events) /\ Head(queue) \in Events
      BY <2>13, <2>0, QueueRead DEF WaitIngest
    <3>2. Ingested(Head(queue), FALSE) \in PT!Table
      BY <3>1, IngestedType, ZenonT(60)
    <3>3. table' \in PT!Table
      BY <2>13, <3>2, CollectType, ZenonT(60) DEF WaitIngest
    <3>4. KernelType'
      BY <2>13, <3>1 DEF WaitIngest, KernelType
    <3>5. UNCHANGED <<svc, procs, mon, pc, watch, early, history>>
      BY <2>13 DEF WaitIngest
    <3> QED BY <3>3, <3>4, <3>5, SMTT(30)
  <2>14. CASE WaitOver
    BY <2>k, <2>s, <2>p, <2>14, SMTT(30) DEF WaitOver
  <2>15. CASE WaitLoss
    <3>1. losses' \in 0..MaxLosses
      BY <2>15, MonitorAssumption, SMTT(30) DEF WaitLoss
    <3>2. KernelType'
      BY <2>15, <2>0, QueueRead DEF WaitLoss, KernelType
    <3> QED BY <2>15, <3>1, <3>2, SMTT(30) DEF WaitLoss
  <2>16. ASSUME NEW p \in Pids, NEW c \in Pids, ProcFork(p, c) PROVE TypeOK'
    <3>1. KernelType'
      BY <2>16, ForkType DEF ProcFork
    <3> QED BY <2>16, <3>1, SMTT(30) DEF ProcFork
  <2>17. ASSUME NEW p \in Pids, ProcSetsid(p) PROVE TypeOK'
    <3>1. KernelType'
      BY <2>17, SetsidType DEF ProcSetsid
    <3> QED BY <2>17, <3>1, SMTT(30) DEF ProcSetsid
  <2>18. ASSUME NEW p \in Pids, WritePidfile(p) PROVE TypeOK'
    BY <2>k, <2>18, SMTT(30) DEF WritePidfile
  <2>19. ASSUME NEW p \in Pids, NEW w \in Statuses, ProcExit(p, w) PROVE TypeOK'
    <3>1. KernelType'
      BY <2>19, KExitType DEF ProcExit
    <3> QED BY <2>19, <3>1, SMTT(30) DEF ProcExit
  <2>20. CASE Expire \/ Uptime
    <3>1. CASE Expire
      BY <2>k, <3>1, ZenonT(30) DEF Expire
    <3>2. CASE Uptime
      BY <2>k, <3>2, ZenonT(30) DEF Uptime
    <3> QED BY <2>20, <3>1, <3>2
  <2>21. CASE UNCHANGED vars
    BY <2>k, <2>21, SMTT(30) DEF vars
  <2> QED
    BY ZenonT(30), <2>1, <2>2, <2>3, <2>4, <2>5, <2>6, <2>7, <2>8, <2>9, <2>10, <2>11, <2>12, <2>13,
       <2>14, <2>15, <2>16, <2>17, <2>18, <2>19, <2>20, <2>21
    DEF Next, MonitorStep, ServiceStep
<1> QED BY <1>1, <1>2, PTL DEF Spec
-----------------------------------------------------------------------------
(* Orders *)

\* The states in which monitor_watch() or monitor_wait() may be serving clients.
Busy == {"start", "poll", "ingest", "collect", "wait"}

\* Strengthening of OrderObeyed: a monitor that reads orders has not reached a
\* final state, and one that is about to fork after a delay is restarting.
IInv ==
    /\ OrderObeyed
    /\ pc \in Busy => state \notin Final
    /\ pc = "start" => state = "restarting"

\* An order a client gives takes effect at once (monitor_control_socket_ingest()).
LEMMA OrderTaken ==
    ASSUME NEW cmd \in Commands, IInv, pc \in {"poll", "wait"},
           monitor_control_socket_ingest(cmd), state' = StateAfter(cmd), svc' = svc
    PROVE  OrderObeyed' /\ state' \notin Final
<1>1. CASE cmd = "none"
  BY <1>1, ZenonT(60) DEF IInv, OrderObeyed, Obeying, Busy, StateAfter, monitor_control_socket_ingest
<1>2. CASE cmd = "stop"
  BY <1>2 DEF IInv, OrderObeyed, Obeying, Busy, StateAfter, monitor_control_socket_ingest, Final
<1>3. CASE cmd = "restart"
  BY <1>3 DEF IInv, OrderObeyed, Obeying, Busy, StateAfter, monitor_control_socket_ingest, Final
<1> QED BY <1>1, <1>2, <1>3 DEF Commands

\* A stop or restart order that was obeyed stays obeyed until the service is started
\* again, for the types whose readiness is not reported from within monitor_watch()
\* (simple and exec; notify, dbus and idle): neither the collection of processes nor
\* the policy decision in monitor_func() undoes it.
THEOREM OrdersStayObeyed == Spec => []OrderObeyed
<1>1. Init => IInv
  BY SMTT(30) DEF Init, IInv, OrderObeyed, Busy, Final
<1>2. IInv /\ [Next]_vars => IInv'
  <2> SUFFICES ASSUME IInv, [Next]_vars PROVE IInv'
    OBVIOUS
  <2> USE DEF IInv, OrderObeyed, Obeying, Busy, Final
  <2>1. CASE Restarting
    BY <2>1 DEF Restarting, history
  <2>2. CASE Remaining
    BY <2>2 DEF Remaining, history, mon
  <2>3. CASE Stopping
    BY <2>3 DEF Stopping, history
  <2>4. CASE Finish
    BY <2>4 DEF Finish, history, mon
  <2>5. ASSUME NEW c \in Pids, Start(c) PROVE IInv'
    BY <2>5 DEF Start, AtStart
  <2>6. CASE StartFails
    BY <2>6 DEF StartFails, history
  <2>7. ASSUME NEW cmd \in Commands, WakeAndStay(cmd) PROVE IInv'
    BY <2>7, OrderTaken DEF WakeAndStay
  <2>8. ASSUME NEW cmd \in Commands, WakeAndLeave(cmd) PROVE IInv'
    <3>1. state' = StateAfter(cmd)
      BY <2>8 DEF WakeAndLeave, Leave, Outcome, Due, monitor_is_stopping
    <3> QED BY <2>8, <3>1, OrderTaken DEF WakeAndLeave, Leave
  <2>9. ASSUME NEW cmd \in Commands, WaitControl(cmd) PROVE IInv'
    BY <2>9, OrderTaken DEF WaitControl
  <2>10. CASE WakeError \/ WaitError
    BY <2>10 DEF WakeError, WaitError, Die, history
  <2>11. CASE Ingest
    BY <2>11 DEF Ingest
  <2>12. CASE IngestedAll
    BY <2>12 DEF IngestedAll, history
  <2>13. CASE IngestError
    BY <2>13 DEF IngestError, Die
  <2>14. CASE Collect
    BY <2>14 DEF Collect, history
  <2>15. CASE CollectedAll
    <3>1. CASE pc' = "poll" /\ UNCHANGED state
      BY <2>15, <3>1 DEF CollectedAll, history
    <3>2. CASE svc.type # "oneshot" /\ Leave(state)
      <4>1. state = "running" => ~ordered \/ svc.type = "forking"
        BY <3>2
      <4>2. state # "running" => state' = state
        BY <3>2 DEF Leave, Outcome
      <4>3. ordered' = ordered /\ order' = order /\ svc' = svc /\ pc' = "loop"
        BY <2>15, <3>2 DEF CollectedAll, Leave, history
      <4> QED BY <4>1, <4>2, <4>3
    <3>3. CASE svc.type = "oneshot" /\ pc' = "loop"
      BY <2>15, <3>3 DEF CollectedAll
    <3> QED BY <2>15, <3>1, <3>2, <3>3 DEF CollectedAll, Leave
  <2>16. CASE WaitIngest \/ WaitOver \/ WaitLoss
    <3>1. CASE WaitIngest
      BY <3>1 DEF WaitIngest, history, mon
    <3>2. CASE WaitOver
      BY <3>2 DEF WaitOver, history, mon
    <3>3. CASE WaitLoss
      BY <3>3, SMTT(30) DEF WaitLoss, history, mon
    <3> QED BY <2>16, <3>1, <3>2, <3>3
  <2>17. CASE ServiceStep
    BY <2>17, SMTT(30) DEF ServiceStep, ProcFork, ProcSetsid, ProcExit, WritePidfile, history, mon
  <2>18. CASE Expire \/ Uptime
    BY <2>18, SMTT(30) DEF Expire, Uptime, history, mon
  <2>19. CASE UNCHANGED vars
    BY <2>19 DEF vars, history, mon
  <2> QED
    BY SMTT(30), <2>1, <2>2, <2>3, <2>4, <2>5, <2>6, <2>7, <2>8, <2>9, <2>10, <2>11, <2>12,
       <2>13, <2>14, <2>15, <2>16, <2>17, <2>18, <2>19 DEF Next, MonitorStep
<1>3. IInv => OrderObeyed
  BY DEF IInv
<1> QED BY <1>1, <1>2, <1>3, PTL DEF Spec
-----------------------------------------------------------------------------
(* Signals *)

\* While monitor_watch() runs, the state of a simple service says stopping or
\* restarting only if an order came in since the service was started.
SInv ==
    svc.type = "simple" /\ pc \in {"poll", "ingest", "collect"} => (monitor_is_stopping(state) => ordered)

\* No process of a service that monitor_func() reports running as soon as it is
\* started (simple and exec) is ever sent a signal but for an order to stop or
\* restart the instance that is running.
THEOREM SimpleSignalsOrdered == Spec => SignalsOrdered
<1>1. Init => SInv
  BY SMTT(30) DEF Init, SInv
<1>2. SInv /\ [Next]_vars => SInv'
  <2> SUFFICES ASSUME SInv, [Next]_vars PROVE SInv'
    OBVIOUS
  <2> USE DEF SInv, monitor_is_stopping
  <2>1. CASE Restarting \/ Remaining \/ Stopping \/ Finish
    BY <2>1 DEF Restarting, Remaining, Stopping, Finish
  <2>2. ASSUME NEW c \in Pids, Start(c) PROVE SInv'
    BY <2>2 DEF Start
  <2>3. CASE StartFails
    BY <2>3 DEF StartFails
  <2>4. ASSUME NEW cmd \in Commands, WakeAndStay(cmd) PROVE SInv'
    BY <2>4, ZenonT(60) DEF WakeAndStay, StateAfter, monitor_control_socket_ingest, Commands
  <2>5. ASSUME NEW cmd \in Commands, WakeAndLeave(cmd) \/ WaitControl(cmd) PROVE SInv'
    BY <2>5 DEF WakeAndLeave, WaitControl, Leave
  <2>6. CASE WakeError \/ WaitError \/ WaitOver
    BY <2>6, SMTT(30) DEF WakeError, WaitError, WaitOver, Die
  <2>7. CASE Ingest
    BY <2>7 DEF Ingest
  <2>8. CASE IngestedAll
    BY <2>8 DEF IngestedAll, history
  <2>9. CASE IngestError
    BY <2>9 DEF IngestError, Die
  <2>10. CASE Collect
    BY <2>10 DEF Collect, history
  <2>11. CASE CollectedAll
    BY <2>11 DEF CollectedAll, Leave, history
  <2>12. CASE WaitIngest \/ WaitLoss
    <3>1. CASE WaitIngest
      BY <3>1 DEF WaitIngest
    <3>2. CASE WaitLoss
      BY <3>2, SMTT(30) DEF WaitLoss
    <3> QED BY <2>12, <3>1, <3>2
  <2>13. CASE ServiceStep
    BY <2>13, SMTT(30) DEF ServiceStep, ProcFork, ProcSetsid, ProcExit, WritePidfile, history, mon
  <2>14. CASE Expire \/ Uptime
    <3>1. CASE Expire
      BY <3>1 DEF Expire, history, mon
    <3>2. CASE Uptime
      BY <3>2 DEF Uptime, history, mon
    <3> QED BY <2>14, <3>1, <3>2
  <2>15. CASE UNCHANGED vars
    BY <2>15 DEF vars, history, mon
  <2> QED
    BY SMTT(30), <2>1, <2>2, <2>3, <2>4, <2>5, <2>6, <2>7, <2>8, <2>9, <2>10, <2>11, <2>12,
       <2>13, <2>14, <2>15 DEF Next, MonitorStep
<1>3. TypeOK /\ SInv /\ [Next]_vars
        => [svc.type = "simple" /\ (\E p \in Pids : sig'[p] # sig[p] /\ sig'[p] # "none")
              => ordered']_vars
  <2> SUFFICES ASSUME TypeOK, SInv, Next, svc.type = "simple",
                      NEW q \in Pids, sig'[q] # sig[q], sig'[q] # "none"
               PROVE  ordered'
    OBVIOUS
  <2>1. ASSUME NEW cmd \in Commands, WakeAndStay(cmd) PROVE ordered'
    <3>1. monitor_is_stopping(StateAfter(cmd))
      BY <2>1, SMTT(30) DEF WakeAndStay, WakeIdle, WakeGrace, WakeKill, Due
    <3> QED BY <2>1, <3>1, ZenonT(30) DEF SInv, WakeAndStay, StateAfter, monitor_is_stopping,
                              monitor_control_socket_ingest, Commands
  <2>2. ASSUME NEW p \in Pids, NEW w \in Statuses, ProcExit(p, w) PROVE FALSE
    BY <2>2 DEF ProcExit, TypeOK
  <2>3. sig' # sig
    BY SMTT(30)
  <2>4. ~(Restarting \/ Remaining \/ Stopping \/ Finish \/ StartFails \/ Ingest \/ IngestedAll)
    BY <2>3, ZenonT(30) DEF Restarting, Remaining, Stopping, Finish, StartFails, Ingest, IngestedAll, procs
  <2>5. ~(WakeError \/ IngestError \/ Collect \/ CollectedAll)
    BY <2>3, ZenonT(30) DEF WakeError, IngestError, Collect, CollectedAll, procs
  <2>6. ~WaitIngest /\ ~WaitOver /\ ~WaitLoss /\ ~WaitError
    <3>1. ~WaitIngest
      BY <2>3, ZenonT(30) DEF WaitIngest, procs
    <3> QED BY <2>3, <3>1 DEF WaitOver, WaitLoss, WaitError, procs
  <2>7. /\ \A c \in Pids : ~Start(c)
        /\ \A cmd \in Commands : ~WakeAndLeave(cmd) /\ ~WaitControl(cmd)
    BY <2>3, SMTT(30) DEF Start, WakeAndLeave, WaitControl, procs
  <2>8. ASSUME NEW p \in Pids, NEW c \in Pids
        PROVE  ~ProcFork(p, c) /\ ~ProcSetsid(p) /\ ~WritePidfile(p)
    BY <2>3 DEF ProcFork, ProcSetsid, WritePidfile
  <2>9. ~Expire /\ ~Uptime
    BY <2>3, SMTT(30) DEF Expire, Uptime, procs
  <2>10. ASSUME MonitorStep PROVE ordered'
    BY <2>1, <2>4, <2>5, <2>6, <2>7, <2>10, Zenon DEF MonitorStep
  <2>11. ASSUME ServiceStep PROVE FALSE
    BY <2>2, <2>8, <2>11 DEF ServiceStep
  <2> QED BY <2>9, <2>10, <2>11, SMTT(30) DEF Next
<1> QED BY <1>1, <1>2, <1>3, TypeCorrect, PTL DEF Spec, SignalsOrdered
-----------------------------------------------------------------------------
(* The states of monitor_func() *)

USE ZenonT(30)

\* Starts and losses are counted.
LEMMA CountsType == TypeOK => starts \in Nat /\ losses \in Nat
  BY MonitorAssumption, SMT DEF TypeOK

\* Counting one more start, loss or kill pass.
LEMMA OneMore == (\A n \in Nat : n + 1 # 0 /\ (n + 1 = 1 => n = 0)) /\ 0 + 1 # 2
  BY SMT

\* Places in the queue.
LEMMA LessDiffers == \A i, j \in Int : i < j => i # j
  BY SMT

\* A place before one that is before the end is not the end.
LEMMA LessApart == \A i, j, n \in Int : j < i /\ i < n => j # n
  BY SMT

\* Places in the queue from which the first event was taken.
LEMMA Shifts ==
    \A i, j \in Int : /\ j < i => j + 1 < i + 1
                      /\ j < i - 1 => j + 1 < i
                      /\ j < i + 1 => j - 1 < i
  BY SMT

\* No place follows two others, nor is one that follows another the first.
LEMMA Successors == \A i, j \in Int : (1 < i + 1 => 1 # i + 1) /\ (i + 1 = j + 1 => i = j)
  BY SMT

\* The places of a queue are numbered from one on.
LEMMA Indices == \A q \in Seq(Events) : \A j \in DOMAIN q : j \in Nat /\ ~(j < 1)
  BY SMT

\* An empty queue has none.
LEMMA NoEvents == DOMAIN <<>> = {}
  BY SMT

\* monitor_watch() is at work.
Watching == pc \in {"poll", "ingest", "collect"}

\* In which states monitor_func() starts, watches and waits.
StateInv ==
    /\ pc = "start" => state = "restarting"
    /\ pc = "wait" => state \in {"restarting", "remaining"}
    /\ Watching => state \in {"starting", "restarting", "running", "stopping"}

\* The state after an order, in a state in which orders are read.
LEMMA StateAfterForm ==
    ASSUME StateInv, NEW cmd \in Commands, pc \in {"poll", "wait"}
    PROVE  /\ cmd = "none" => StateAfter(cmd) = state
           /\ cmd = "stop" => StateAfter(cmd) = "stopping"
           /\ cmd = "restart" => StateAfter(cmd) = "restarting"
<1>1. state \notin Final
  BY DEF StateInv, Watching, Final
<1>2. cmd = "none" => StateAfter(cmd) = state
  BY DEF StateAfter
<1>3. cmd = "stop" => StateAfter(cmd) = "stopping"
  BY <1>1 DEF StateAfter
<1>4. cmd = "restart" => StateAfter(cmd) = "restarting"
  BY DEF StateAfter
<1> QED BY <1>2, <1>3, <1>4

\* The states that monitor_func() knows of.
LEMMA StateInvNext == StateInv /\ [Next]_vars => StateInv'
<1> SUFFICES ASSUME StateInv, [Next]_vars PROVE StateInv'
  OBVIOUS
<1> USE DEF StateInv, Watching
<1>1. CASE Restarting
  BY <1>1 DEF Restarting
<1>2. CASE Remaining
  BY <1>2 DEF Remaining, mon
<1>3. CASE Stopping
  BY <1>3 DEF Stopping
<1>4. CASE Finish
  BY <1>4 DEF Finish
<1>5. ASSUME NEW c \in Pids, Start(c) PROVE StateInv'
  BY <1>5 DEF Start, AtStart
<1>6. CASE StartFails
  BY <1>6 DEF StartFails
<1>7. ASSUME NEW cmd \in Commands, WakeAndStay(cmd) PROVE StateInv'
  <2>1. pc = "poll" /\ state' = StateAfter(cmd) /\ pc' \in {"poll", "ingest"}
    BY <1>7 DEF WakeAndStay
  <2>2. StateAfter(cmd) \in {state, "stopping", "restarting"}
    BY <2>1, StateAfterForm DEF Commands
  <2> QED BY <2>1, <2>2
<1>8. ASSUME NEW cmd \in Commands, WakeAndLeave(cmd) PROVE StateInv'
  BY <1>8 DEF WakeAndLeave, Leave
<1>9. ASSUME NEW cmd \in Commands, WaitControl(cmd) PROVE StateInv'
  BY <1>9 DEF WaitControl
<1>10. CASE WakeError \/ WaitError
  BY <1>10 DEF WakeError, WaitError, Die
<1>11. CASE Ingest
  BY <1>11 DEF Ingest
<1>12. CASE IngestedAll
  BY <1>12 DEF IngestedAll
<1>13. CASE IngestError
  BY <1>13 DEF IngestError, Die
<1>14. CASE Collect
  BY <1>14 DEF Collect
<1>15. CASE CollectedAll
  BY <1>15 DEF CollectedAll, Leave
<1>16. CASE WaitIngest
  BY <1>16 DEF WaitIngest, mon
<1>17. CASE WaitOver
  BY <1>17 DEF WaitOver, mon
<1>18. CASE WaitLoss
  BY <1>18 DEF WaitLoss, mon
<1>19. CASE ServiceStep
  BY <1>19 DEF ServiceStep, ProcFork, ProcSetsid, ProcExit, WritePidfile, mon
<1>20. CASE Expire \/ Uptime
  BY <1>20 DEF Expire, Uptime, mon
<1>21. CASE UNCHANGED vars
  BY <1>21 DEF vars, mon
<1> QED
  BY <1>1, <1>2, <1>3, <1>4, <1>5, <1>6, <1>7, <1>8, <1>9, <1>10, <1>11, <1>12, <1>13, <1>14, <1>15,
     <1>16, <1>17, <1>18, <1>19, <1>20, <1>21 DEF Next, MonitorStep

\* They hold throughout.
THEOREM StatesKnown == Spec => []StateInv
<1>1. Init => StateInv
  BY DEF Init, StateInv, Watching
<1> QED BY <1>1, StateInvNext, PTL DEF Spec
-----------------------------------------------------------------------------
(* The monitor seen by its clients *)

\* A monitor's life, field by field.
Life(t, s, ph) == [type |-> t, state |-> s, phase |-> ph]

\* What a client sees of the monitor, by where it is.
LEMMA PhaseForm == 
   /\ pc \in {"poll", "ingest", "collect"} => Phase = "watch"
   /\ pc = "wait" => Phase = "wait"
   /\ pc = "done" => Phase = "gone"
   /\ pc \in {"loop", "start"} => Phase = "busy"
   /\ pc' \in {"poll", "ingest", "collect"} => Phase' = "watch"
   /\ pc' = "wait" => Phase' = "wait"
   /\ pc' = "done" => Phase' = "gone"
   /\ pc' \in {"loop", "start"} => Phase' = "busy"
BY SMT DEF Phase

\* A step of MonitorLife or none.
LifeStep(l, m) == m = l \/ ML!Step(l, m) \/ \E cmd \in {"stop", "restart"} : ML!Order(l, m, cmd)

\* Where it begins and ends.
Before == Life(svc.type, state, Phase)
After == Life(svc.type, state', Phase')

\* The steps of MonitorLife, field by field: the service is launched or cannot be.
LEMMA LaunchSteps ==
    ASSUME NEW t, NEW s \in {"starting", "restarting"}
    PROVE  /\ LifeStep(Life(t, s, "busy"), Life(t, IF t = "simple" THEN "running" ELSE s, "watch"))
           /\ LifeStep(Life(t, s, "busy"), Life(t, "dead", "busy"))
<1>1. ML!Launch(Life(t, s, "busy"), Life(t, IF t = "simple" THEN "running" ELSE s, "watch"))
  BY SMT DEF Life, ML!Launch, ML!At
<1>2. ML!LaunchFails(Life(t, s, "busy"), Life(t, "dead", "busy"))
  BY SMT DEF Life, ML!LaunchFails, ML!At
<1> QED BY <1>1, <1>2 DEF LifeStep, ML!Step

\* It is ready, has ended, or cannot be watched.
LEMMA WatchSteps ==
    ASSUME NEW t, NEW s, NEW u
    PROVE  /\ t = "forking" => LifeStep(Life(t, s, "watch"), Life(t, "running", "watch"))
           /\ u \in ML!Decided(s) => LifeStep(Life(t, s, "watch"), Life(t, u, "busy"))
           /\ t = "oneshot" /\ u \in ML!Decided("running") => LifeStep(Life(t, s, "watch"), Life(t, u, "busy"))
           /\ \A ph \in {"watch", "wait"} : LifeStep(Life(t, s, ph), Life(t, "dead", "busy"))
<1>1. t = "forking" => ML!Ready(Life(t, s, "watch"), Life(t, "running", "watch"))
  BY SMT DEF Life, ML!Ready, ML!At
<1>2. /\ u \in ML!Decided(s) => ML!Leave(Life(t, s, "watch"), Life(t, u, "busy"))
      /\ t = "oneshot" /\ u \in ML!Decided("running") => ML!Leave(Life(t, s, "watch"), Life(t, u, "busy"))
  BY SMT DEF Life, ML!Leave, ML!At
<1>3. \A ph \in {"watch", "wait"} : ML!Die(Life(t, s, ph), Life(t, "dead", "busy"))
  BY SMT DEF Life, ML!Die, ML!At, ML!Serving
<1> QED BY <1>1, <1>2, <1>3 DEF LifeStep, ML!Step

\* A delay begins and ends; the monitor comes to its end.
LEMMA LoopSteps ==
    ASSUME NEW t
    PROVE  /\ \A s \in {"restarting", "remaining"} : LifeStep(Life(t, s, "busy"), Life(t, s, "wait"))
           /\ LifeStep(Life(t, "restarting", "wait"), Life(t, "restarting", "busy"))
           /\ LifeStep(Life(t, "restarting", "busy"), Life(t, "failed", "busy"))
           /\ LifeStep(Life(t, "stopping", "busy"), Life(t, "stopped", "busy"))
           /\ \A s \in Final : LifeStep(Life(t, s, "busy"), Life(t, s, "gone"))
<1>1. \A s \in {"restarting", "remaining"} : ML!Delay(Life(t, s, "busy"), Life(t, s, "wait"))
  BY SMT DEF Life, ML!Delay, ML!At
<1>2. ML!DelayOver(Life(t, "restarting", "wait"), Life(t, "restarting", "busy"))
  BY SMT DEF Life, ML!DelayOver, ML!At
<1>3. ML!GiveUp(Life(t, "restarting", "busy"), Life(t, "failed", "busy"))
  BY SMT DEF Life, ML!GiveUp, ML!At
<1>4. ML!Stopped(Life(t, "stopping", "busy"), Life(t, "stopped", "busy"))
  BY SMT DEF Life, ML!Stopped, ML!At
<1>5. \A s \in Final : ML!Close(Life(t, s, "busy"), Life(t, s, "gone"))
  BY SMT DEF Life, ML!Close, ML!At, ML!Final, Final
<1> QED BY <1>1, <1>2, <1>3, <1>4, <1>5 DEF LifeStep, ML!Step

\* An order is taken.
LEMMA OrderSteps ==
    ASSUME NEW t, NEW s, NEW cmd \in {"stop", "restart"}
    PROVE  /\ \A ph \in {"watch", "busy"} :
                LifeStep(Life(t, s, "watch"), Life(t, ML!StateAfter(s, cmd), ph))
           /\ LifeStep(Life(t, s, "wait"),
                       Life(t, ML!StateAfter(s, cmd), IF ML!StateAfter(s, cmd) = s THEN "wait" ELSE "busy"))
<1>1. \A ph \in {"watch", "busy"} :
        ML!Order(Life(t, s, "watch"), Life(t, ML!StateAfter(s, cmd), ph), cmd)
  BY SMT DEF Life, ML!Order, ML!At, ML!Serving
<1>2. ML!Order(Life(t, s, "wait"),
               Life(t, ML!StateAfter(s, cmd), IF ML!StateAfter(s, cmd) = s THEN "wait" ELSE "busy"), cmd)
  BY SMT DEF Life, ML!Order, ML!At, ML!Serving
<1> QED BY <1>1, <1>2 DEF LifeStep

\* The order is carried out as MonitorLife says.
LEMMA OrderSame ==
    ASSUME NEW cmd \in {"stop", "restart"}
    PROVE  StateAfter(cmd) = ML!StateAfter(state, cmd)
BY SMT DEF StateAfter, ML!StateAfter, Final, ML!Final

\* What monitor_func() decides is one of the states MonitorLife allows.
LEMMA OutcomeDecided ==
    ASSUME NEW st, NEW w
    PROVE  Outcome(st, w) \in ML!Decided(st)
<1>1. CASE st # "running"
  BY <1>1 DEF Outcome, ML!Decided
<1>2. CASE st = "running"
  <2>1. Outcome(st, w) \in {"remaining", "restarting", "stopped", "failed"}
    BY <1>2 DEF Outcome
  <2> QED BY <1>2, <2>1 DEF ML!Decided
<1> QED BY <1>1, <1>2

\* Every step of the monitor is one.
LEMMA StepsAreLife == StateInv /\ [Next]_vars => LifeStep(Before, After) /\ svc' = svc
<1> SUFFICES ASSUME StateInv, [Next]_vars PROVE LifeStep(Before, After) /\ svc' = svc
  OBVIOUS
<1>0. svc' = svc
  BY DEF Next, MonitorStep, ServiceStep, vars, Restarting, Remaining, Stopping, Finish, Start, StartFails,
         WakeAndStay, WakeAndLeave, WakeError, Ingest, IngestedAll, IngestError, Collect, CollectedAll,
         WaitControl, WaitIngest, WaitOver, WaitLoss, WaitError, ProcFork, ProcSetsid, ProcExit, WritePidfile,
         Expire, Uptime
<1> SUFFICES LifeStep(Before, After)
  BY <1>0
<1>s. state' = state /\ pc' = pc => LifeStep(Before, After)
  <2>1. pc' = pc => Phase' = Phase
    BY DEF Phase
  <2> QED BY <2>1, PhaseForm DEF LifeStep, Before, After
<1>1. CASE Restarting
  <2>1. pc = "loop" /\ state = "restarting" /\ ((state' = "failed" /\ pc' = pc) \/ (pc' = "wait" /\ state' = state))
    BY <1>1 DEF Restarting
  <2> QED BY <2>1, LoopSteps, PhaseForm DEF Before, After
<1>2. CASE Remaining
  <2>1. pc = "loop" /\ state = "remaining" /\ pc' = "wait" /\ state' = state
    BY <1>2 DEF Remaining, mon
  <2> QED BY <2>1, LoopSteps, PhaseForm DEF Before, After
<1>3. CASE Stopping
  <2>1. pc = "loop" /\ state = "stopping" /\ pc' = "loop" /\ state' = "stopped"
    BY <1>3 DEF Stopping
  <2> QED BY <2>1, LoopSteps, PhaseForm DEF Before, After
<1>4. CASE Finish
  <2>1. pc = "loop" /\ state \in Final /\ pc' = "done" /\ state' = state
    BY <1>4 DEF Finish, mon
  <2> QED BY <2>1, LoopSteps, PhaseForm DEF Before, After
<1>5. ASSUME NEW c \in Pids, Start(c) PROVE LifeStep(Before, After)
  <2>1. /\ pc \in {"loop", "start"} /\ state \in {"starting", "restarting"} /\ pc' = "poll"
        /\ state' = IF svc.type = "simple" THEN "running" ELSE state
    BY <1>5 DEF Start, AtStart, StateInv
  <2> QED BY <2>1, LaunchSteps, PhaseForm DEF Before, After
<1>6. CASE StartFails
  <2>1. /\ pc \in {"loop", "start"} /\ state \in {"starting", "restarting"} /\ pc' = "loop" /\ state' = "dead"
    BY <1>6 DEF StartFails, AtStart, StateInv
  <2> QED BY <2>1, LaunchSteps, PhaseForm DEF Before, After
<1>7. ASSUME NEW cmd \in Commands, WakeAndStay(cmd) PROVE LifeStep(Before, After)
  <2>1. pc = "poll" /\ pc' \in {"poll", "ingest"} /\ state' = StateAfter(cmd)
    BY <1>7 DEF WakeAndStay
  <2>2. CASE cmd = "none"
    <3>1. state' = state
      BY <2>1, <2>2 DEF StateAfter
    <3> QED BY <2>1, <3>1, PhaseForm DEF LifeStep, Before, After
  <2>3. CASE cmd \in {"stop", "restart"}
    BY <2>1, <2>3, OrderSame, OrderSteps, PhaseForm DEF Before, After
  <2> QED BY <2>2, <2>3 DEF Commands
<1>8. ASSUME NEW cmd \in Commands, WakeAndLeave(cmd) PROVE LifeStep(Before, After)
  <2>1. pc = "poll" /\ pc' = "loop" /\ monitor_is_stopping(StateAfter(cmd)) /\ state' = Outcome(StateAfter(cmd), wstatus)
    BY <1>8 DEF WakeAndLeave, Leave, Due
  <2>2. state' = StateAfter(cmd)
    BY <2>1 DEF Outcome, monitor_is_stopping
  <2>3. CASE cmd = "none"
    <3>1. StateAfter(cmd) = state
      BY <2>3 DEF StateAfter
    <3>2. state' \in ML!Decided(state)
      BY <2>1, <3>1, OutcomeDecided
    <3> QED BY <2>1, <3>2, WatchSteps, PhaseForm DEF Before, After
  <2>4. CASE cmd \in {"stop", "restart"}
    BY <2>1, <2>2, <2>4, OrderSame, OrderSteps, PhaseForm DEF Before, After
  <2> QED BY <2>3, <2>4 DEF Commands
<1>9. ASSUME NEW cmd \in Commands, WaitControl(cmd) PROVE LifeStep(Before, After)
  <2>1. /\ pc = "wait" /\ cmd \in {"stop", "restart"} /\ state' = StateAfter(cmd)
        /\ pc' = IF state' = state THEN "wait" ELSE "loop"
    BY <1>9 DEF WaitControl, Commands
  <2>2. Phase' = IF state' = state THEN "wait" ELSE "busy"
    BY <2>1, PhaseForm
  <2> QED BY <2>1, <2>2, OrderSame, OrderSteps, PhaseForm DEF Before, After
<1>10. CASE WakeError \/ WaitError
  <2>1. pc \in {"poll", "wait"} /\ pc' = "loop" /\ state' = "dead"
    BY <1>10 DEF WakeError, WaitError, Die
  <2> QED BY <2>1, WatchSteps, PhaseForm DEF Before, After
<1>11. CASE Ingest
  BY <1>11, <1>s DEF Ingest
<1>12. CASE IngestedAll
  <2>1. pc = "ingest" /\ pc' = "collect" /\ state' = state
    BY <1>12 DEF IngestedAll
  <2> QED BY <2>1, PhaseForm DEF LifeStep, Before, After
<1>13. CASE IngestError
  <2>1. pc = "ingest" /\ ((pc' = "collect" /\ state' = state) \/ (pc' = "loop" /\ state' = "dead"))
    BY <1>13 DEF IngestError, Die
  <2>2. CASE pc' = "collect" /\ state' = state
    BY <2>1, <2>2, PhaseForm DEF LifeStep, Before, After
  <2>3. CASE pc' = "loop" /\ state' = "dead"
    BY <2>1, <2>3, WatchSteps, PhaseForm DEF Before, After
  <2> QED BY <2>1, <2>2, <2>3
<1>14. CASE Collect
  <2>1. pc = "collect" /\ pc' = "collect" /\ (state' = state \/ (svc.type = "forking" /\ state' = "running"))
    BY <1>14 DEF Collect
  <2>2. CASE state' = state
    BY <2>1, <2>2, <1>s
  <2>3. CASE svc.type = "forking" /\ state' = "running"
    BY <2>1, <2>3, WatchSteps, PhaseForm DEF Before, After
  <2> QED BY <2>1, <2>2, <2>3
<1>15. CASE CollectedAll
  <2>1. /\ pc = "collect"
        /\ \/ pc' = "poll" /\ state' = state
           \/ pc' = "loop" /\ state' = Outcome(state, wstatus)
           \/ pc' = "loop" /\ svc.type = "oneshot" /\ state' = Outcome("running", wstatus)
    BY <1>15 DEF CollectedAll, Leave
  <2>2. CASE pc' = "poll" /\ state' = state
    BY <2>1, <2>2, PhaseForm DEF LifeStep, Before, After
  <2>3. CASE pc' = "loop" /\ state' = Outcome(state, wstatus)
    BY <2>1, <2>3, OutcomeDecided, WatchSteps, PhaseForm DEF Before, After
  <2>4. CASE pc' = "loop" /\ svc.type = "oneshot" /\ state' = Outcome("running", wstatus)
    BY <2>1, <2>4, OutcomeDecided, WatchSteps, PhaseForm DEF Before, After
  <2> QED BY <2>1, <2>2, <2>3, <2>4
<1>16. CASE WaitIngest
  BY <1>16, <1>s DEF WaitIngest, mon
<1>17. CASE WaitOver
  <2>1. pc = "wait" /\ state = "restarting" /\ pc' = "start" /\ state' = state
    BY <1>17 DEF WaitOver, mon
  <2> QED BY <2>1, LoopSteps, PhaseForm DEF Before, After
<1>18. CASE WaitLoss
  BY <1>18, <1>s DEF WaitLoss, mon
<1>19. CASE ServiceStep
  BY <1>19, <1>s DEF ServiceStep, ProcFork, ProcSetsid, ProcExit, WritePidfile, mon
<1>20. CASE Expire \/ Uptime
  BY <1>20, <1>s DEF Expire, Uptime, mon
<1>21. CASE UNCHANGED vars
  BY <1>21, <1>s DEF vars, mon
<1> QED
  BY <1>0, <1>1, <1>2, <1>3, <1>4, <1>5, <1>6, <1>7, <1>8, <1>9, <1>10, <1>11, <1>12, <1>13, <1>14, <1>15,
     <1>16, <1>17, <1>18, <1>19, <1>20, <1>21 DEF Next, MonitorStep

\* Whatever the service's processes do, what clients are told of the monitor through its
\* control socket changes only as MonitorLife, on which Control is built, says.
THEOREM LifeImplemented == Spec => ImplementsLife
<1>1. Init => ML!Init
  <2> SUFFICES ASSUME Init PROVE ML!Init
    OBVIOUS
  <2>1. svc.type \in {"simple", "oneshot", "forking", "notify"} /\ state = "starting" /\ pc = "loop"
    BY MonitorAssumption, SMT DEF Init, ServiceType
  <2> QED BY <2>1, PhaseForm DEF ML!Init, ML!Born
<1>2. StateInv /\ [Next]_vars => [ML!Next]_[type |-> svc.type, state |-> state, phase |-> Phase]
  BY StepsAreLife DEF LifeStep, Before, After, Life, ML!Next
<1> QED BY <1>1, <1>2, StatesKnown, PTL DEF Spec, ImplementsLife, ML!Spec

-----------------------------------------------------------------------------
(* What the operations on the table track *)

\* The table u tracks the child c too if its parent p is tracked.
Grown(t, u, c, p) ==
    /\ PT!ReadyPids(u) = PT!ReadyPids(t)
    /\ u.ready = t.ready
    /\ p \in PT!Tracked(t) \cup {Self} => PT!Tracked(u) = PT!Tracked(t) \cup {c}
    /\ p \notin PT!Tracked(t) \cup {Self} => PT!Tracked(u) = PT!Tracked(t)

\* That is what process_insert() does.
LEMMA InsertTracks == ASSUME NEW t, NEW c, NEW p PROVE Grown(t, PT!Insert(t, c, p), c, p)
<1>1. CASE c \in PT!Tracked(t) \/ p \notin PT!Tracked(t) \cup {Self}
  <2>1. PT!Insert(t, c, p) = t
    BY <1>1 DEF PT!Insert
  <2>2. Grown(t, t, c, p)
    BY <1>1 DEF Grown
  <2> QED BY <2>1, <2>2
<1>2. CASE ~(c \in PT!Tracked(t) \/ p \notin PT!Tracked(t) \cup {Self})
  <2> DEFINE f == [q \in PT!Tracked(t) \cup {c} |-> IF q = c THEN p ELSE t.ppid[q]]
  <2>1. PT!Insert(t, c, p) = [ppid |-> f, ready |-> t.ready]
    BY <1>2 DEF PT!Insert
  <2>2. DOMAIN f = PT!Tracked(t) \cup {c}
    OBVIOUS
  <2> HIDE DEF f
  <2>3. PT!Insert(t, c, p).ppid = f /\ PT!Insert(t, c, p).ready = t.ready
    BY SMT, <2>1
  <2>4. PT!Tracked(PT!Insert(t, c, p)) = DOMAIN f /\ PT!ReadyPids(PT!Insert(t, c, p)) = PT!ReadyPids(t)
    BY <2>3 DEF PT!Tracked, PT!ReadyPids
  <2> QED BY <1>2, <2>2, <2>3, <2>4 DEF Grown
<1> QED BY <1>1, <1>2

\* The terminated process p is queued in the table u if it is tracked; nothing else changes.
Ended(t, u, p, w) ==
    /\ PT!Tracked(u) = PT!Tracked(t)
    /\ p \notin PT!Tracked(t) => u = t
    /\ p \in PT!Tracked(t) => /\ PT!ReadyPids(u) = PT!ReadyPids(t) \cup {p}
                              /\ u.ready[p].wstatus = w
                              /\ \A q \in PT!ReadyPids(t) \ {p} : u.ready[q] = t.ready[q]

\* That is what process_exit() does.
LEMMA ExitTracks == ASSUME NEW t, NEW p, NEW w PROVE Ended(t, PT!Exit(t, p, w), p, w)
<1>1. CASE p \notin PT!Tracked(t)
  BY <1>1 DEF PT!Exit, Ended
<1>2. CASE p \in PT!Tracked(t)
  <2> DEFINE R == PT!ReadyPids(t) \cup {p}
             r == [q \in R |-> IF q = p THEN [wstatus |-> w, after |-> PT!ReadyPids(t)] ELSE t.ready[q]]
  <2>1. PT!Exit(t, p, w) = [ppid |-> PT!Orphan(t, p), ready |-> r]
    BY <1>2 DEF PT!Exit
  <2>2. DOMAIN PT!Orphan(t, p) = PT!Tracked(t)
    BY DEF PT!Orphan
  <2>3. /\ DOMAIN r = R /\ r[p] = [wstatus |-> w, after |-> PT!ReadyPids(t)]
        /\ \A q \in PT!ReadyPids(t) \ {p} : r[q] = t.ready[q]
    OBVIOUS
  <2>4. r[p].wstatus = w
    BY <2>3
  <2> HIDE DEF r
  <2>5. PT!Exit(t, p, w).ppid = PT!Orphan(t, p) /\ PT!Exit(t, p, w).ready = r
    BY SMT, <2>1
  <2>6. PT!Tracked(PT!Exit(t, p, w)) = DOMAIN PT!Orphan(t, p) /\ PT!ReadyPids(PT!Exit(t, p, w)) = DOMAIN r
    BY <2>5 DEF PT!Tracked, PT!ReadyPids
  <2> QED BY <1>2, <2>2, <2>3, <2>4, <2>5, <2>6 DEF Ended
<1> QED BY <1>1, <1>2

\* Processes that leave the table leave both parts of it.
LEMMA WithoutTracks ==
    ASSUME NEW t, NEW gone
    PROVE  /\ PT!Tracked(PT!Without(t, gone)) = PT!Tracked(t) \ gone
           /\ PT!ReadyPids(PT!Without(t, gone)) = PT!ReadyPids(t) \ gone
           /\ \A q \in PT!ReadyPids(t) \ gone : PT!Without(t, gone).ready[q].wstatus = t.ready[q].wstatus
<1> DEFINE f == [q \in PT!Tracked(t) \ gone |-> t.ppid[q]]
           r == [q \in PT!ReadyPids(t) \ gone |->
                    [wstatus |-> t.ready[q].wstatus, after |-> t.ready[q].after \ gone]]
<1>1. PT!Without(t, gone) = [ppid |-> f, ready |-> r]
  BY DEF PT!Without
<1>2. DOMAIN f = PT!Tracked(t) \ gone
  OBVIOUS
<1>3. /\ DOMAIN r = PT!ReadyPids(t) \ gone
      /\ \A q \in PT!ReadyPids(t) \ gone : r[q].wstatus = t.ready[q].wstatus
  OBVIOUS
<1> HIDE DEF f, r
<1>4. PT!Without(t, gone).ppid = f /\ PT!Without(t, gone).ready = r
  BY SMT, <1>1
<1>5. PT!Tracked(PT!Without(t, gone)) = DOMAIN f /\ PT!ReadyPids(PT!Without(t, gone)) = DOMAIN r
  BY <1>4 DEF PT!Tracked, PT!ReadyPids
<1> QED BY <1>2, <1>3, <1>4, <1>5

\* The empty table.
LEMMA EmptyTracks == PT!Tracked(PT!EmptyTable) = {} /\ PT!ReadyPids(PT!EmptyTable) = {}
  BY DEF PT!Tracked, PT!ReadyPids, PT!EmptyTable

\* The table after a process was collected.
LEMMA CollectTracks ==
    ASSUME NEW t, PT!Collectable(t)
    PROVE  /\ PT!First(t) \in PT!ReadyPids(t)
           /\ PT!Tracked(PT!Collect(t)) = PT!Tracked(t) \ {PT!First(t)}
           /\ PT!ReadyPids(PT!Collect(t)) = PT!ReadyPids(t) \ {PT!First(t)}
           /\ \A q \in PT!ReadyPids(t) \ {PT!First(t)} :
                PT!Collect(t).ready[q].wstatus = t.ready[q].wstatus
<1>1. PT!First(t) \in PT!ReadyPids(t)
  BY DEF PT!Collectable, PT!First
<1> QED BY <1>1, WithoutTracks DEF PT!Collect

\* What an event read by procwatch_ingest() does to the table t.
Took(t, u, ev) ==
    /\ ev.what = "fork" =>
         /\ ev.actor \in PT!Tracked(t) \cup {Self} => PT!Tracked(u) = PT!Tracked(t) \cup {ev.child}
         /\ ev.actor \notin PT!Tracked(t) \cup {Self} => PT!Tracked(u) = PT!Tracked(t)
         /\ PT!ReadyPids(u) = PT!ReadyPids(t) /\ u.ready = t.ready
    /\ ev.what = "exit" =>
         /\ PT!Tracked(u) = PT!Tracked(t)
         /\ ev.actor \notin PT!Tracked(t) => u = t
         /\ ev.actor \in PT!Tracked(t) =>
              /\ PT!ReadyPids(u) = PT!ReadyPids(t) \cup {ev.actor}
              /\ u.ready[ev.actor].wstatus = ev.wstatus
              /\ \A q \in PT!ReadyPids(t) \ {ev.actor} : u.ready[q] = t.ready[q]
    /\ ev.what = "sid" => \E gone :
         /\ ev.actor \notin PT!Tracked(t) => gone = {}
         /\ PT!Tracked(u) = PT!Tracked(t) \ gone
         /\ PT!ReadyPids(u) = PT!ReadyPids(t) \ gone
         /\ \A q \in PT!ReadyPids(u) : u.ready[q].wstatus = t.ready[q].wstatus

\* procwatch_ingest() does just that, whether the callback drops processes or not.
LEMMA IngestTakes ==
    ASSUME NEW ev, NEW drop
    PROVE  /\ Took(table, Ingested(ev, drop), ev)
           /\ ev.what = "sid" /\ ~drop => Ingested(ev, drop) = table
<1>1. CASE ev.what = "fork"
  <2>1. Ingested(ev, drop) = PT!Insert(table, ev.child, ev.actor)
    BY <1>1 DEF Ingested
  <2> DEFINE u == PT!Insert(table, ev.child, ev.actor)
  <2>2. Grown(table, u, ev.child, ev.actor)
    BY InsertTracks
  <2>3. ev.what # "exit" /\ ev.what # "sid"
    BY <1>1
  <2> HIDE DEF u
  <2>4. Took(table, u, ev)
    BY <2>2, <2>3 DEF Took, Grown
  <2> QED BY <2>1, <2>3, <2>4 DEF u
<1>2. CASE ev.what = "exit"
  <2>1. Ingested(ev, drop) = PT!Exit(table, ev.actor, ev.wstatus)
    BY <1>2 DEF Ingested
  <2> DEFINE u == PT!Exit(table, ev.actor, ev.wstatus)
  <2>2. Ended(table, u, ev.actor, ev.wstatus)
    BY ExitTracks
  <2>3. ev.what # "fork" /\ ev.what # "sid"
    BY <1>2
  <2> HIDE DEF u
  <2>4. Took(table, u, ev)
    BY <2>2, <2>3 DEF Took, Ended
  <2> QED BY <2>1, <2>3, <2>4 DEF u
<1>3. CASE ev.what = "sid"
  <2>1. CASE drop /\ ev.actor \in PT!Tracked(table)
    <3>1. Ingested(ev, drop) = PT!Without(table, PT!Subtree(table, ev.actor))
      BY <1>3, <2>1 DEF Ingested, PT!Drop
    <3> DEFINE gone == PT!Subtree(table, ev.actor)
               u == PT!Without(table, gone)
    <3>2. /\ PT!Tracked(u) = PT!Tracked(table) \ gone
          /\ PT!ReadyPids(u) = PT!ReadyPids(table) \ gone
          /\ \A q \in PT!ReadyPids(table) \ gone : u.ready[q].wstatus = table.ready[q].wstatus
      BY WithoutTracks
    <3>3. ev.what # "fork" /\ ev.what # "exit"
      BY <1>3
    <3>4. u = Ingested(ev, drop)
      BY <3>1
    <3> HIDE DEF gone, u
    <3>5. Took(table, u, ev)
      BY <2>1, <3>2, <3>3 DEF Took
    <3> QED BY <2>1, <3>4, <3>5
  <2>2. CASE ~drop \/ ev.actor \notin PT!Tracked(table)
    <3>1. Ingested(ev, drop) = table
      BY <1>3, <2>2 DEF Ingested, PT!Drop
    <3>2. PT!Tracked(table) = PT!Tracked(table) \ {} /\ PT!ReadyPids(table) = PT!ReadyPids(table) \ {}
      OBVIOUS
    <3> QED BY <1>3, <2>2, <3>1, <3>2 DEF Took
  <2> QED BY <2>1, <2>2
<1> QED BY <1>1, <1>2, <1>3 DEF Took
-----------------------------------------------------------------------------
(* Processes, events and the table *)

\* The queue r has the event ev, at place n, in addition to those of q.
Added(q, ev, r, n) ==
    /\ n \in Int /\ n \in DOMAIN r /\ r[n] = ev
    /\ \A i \in DOMAIN r : i \in Int /\ (i = n \/ (i \in DOMAIN q /\ r[i] = q[i]))
    /\ \A i \in DOMAIN q : i \in Int /\ i < n /\ i \in DOMAIN r /\ r[i] = q[i]

\* That is what Append() does.
LEMMA Appended ==
    ASSUME NEW q \in Seq(Events), NEW ev \in Events
    PROVE  Added(q, ev, Append(q, ev), Len(q) + 1)
  BY SMT DEF Added

\* The queue r has the events of q but the first.
Shifted(q, r) ==
    /\ 1 \in DOMAIN q
    /\ \A i \in DOMAIN r : i \in Int /\ 1 < i + 1 /\ i + 1 \in DOMAIN q /\ r[i] = q[i + 1]
    /\ \A i \in DOMAIN q : i \in Int /\ (i # 1 => i - 1 \in DOMAIN r /\ r[i - 1] = q[i])

\* That is what Tail() does.
LEMMA Tailed ==
    ASSUME NEW q \in Seq(Events), q # <<>>
    PROVE  /\ Tail(q) \in Seq(Events) /\ Shifted(q, Tail(q))
           /\ Head(q) = q[1] /\ Head(q) \in Events
<1>1. /\ Tail(q) \in Seq(Events) /\ 1 \in DOMAIN q /\ Head(q) = q[1] /\ Head(q) \in Events
  BY SMT
<1>2. \A i \in DOMAIN Tail(q) : i \in Int /\ 1 < i + 1 /\ i + 1 \in DOMAIN q /\ Tail(q)[i] = q[i + 1]
  BY SMT
<1>3. \A i \in DOMAIN q : i \in Int /\ (i # 1 => i - 1 \in DOMAIN Tail(q) /\ Tail(q)[i - 1] = q[i])
  BY SMT
<1> QED BY <1>1, <1>2, <1>3 DEF Shifted

\* The event says that p was born, or that it terminated.
Bears(ev, p) == ev.what = "fork" /\ ev.child = p
Ends(ev, p) == ev.what = "exit" /\ ev.actor = p

\* A process was forked.
LEMMA ForkForm ==
    ASSUME NEW p \in Pids \cup {Self}, NEW c \in Pids
    PROVE  /\ ForkEvent(p, c) \in Events /\ ForkEvent(p, c).what = "fork" /\ ForkEvent(p, c).actor = p
           /\ ForkEvent(p, c).child = c
           /\ \A q : ~Ends(ForkEvent(p, c), q) /\ (Bears(ForkEvent(p, c), q) <=> q = c)
  BY SMT DEF Events, ForkEvent, Bears, Ends

\* A process has begun a session.
LEMMA SidForm ==
    ASSUME NEW p \in Pids
    PROVE  /\ SidEvent(p) \in Events /\ SidEvent(p).what = "sid" /\ SidEvent(p).actor = p
           /\ \A q : ~Ends(SidEvent(p), q) /\ ~Bears(SidEvent(p), q)
  BY SMT DEF Events, SidEvent, Bears, Ends

\* A process has terminated.
LEMMA ExitForm ==
    ASSUME NEW p \in Pids, NEW w \in Statuses
    PROVE  /\ ExitEvent(p, w) \in Events /\ ExitEvent(p, w).what = "exit" /\ ExitEvent(p, w).actor = p
           /\ ExitEvent(p, w).wstatus = w
           /\ \A q : ~Bears(ExitEvent(p, w), q) /\ (Ends(ExitEvent(p, w), q) <=> q = p)
  BY SMT DEF Events, ExitEvent, Bears, Ends

\* The kinds of events.
LEMMA EventForm ==
    ASSUME NEW ev \in Events
    PROVE  /\ ev.what = "fork" => ev.actor \in Pids \cup {Self} /\ ev.child \in Pids /\ ev = ForkEvent(ev.actor, ev.child)
           /\ ev.what = "sid" => ev.actor \in Pids
           /\ ev.what = "exit" => ev.actor \in Pids /\ ev.wstatus \in Statuses
           /\ ev.what \in {"fork", "sid", "exit"}
           /\ \A p : Bears(ev, p) => p \in Pids
  BY SMT DEF Events, ForkEvent, SidEvent, ExitEvent, Bears

\* A queue q of events, processes k and a table t that go together: whoever is reported
\* terminated is, whoever is reported born was, is reported so once, and is not tracked yet.
EventsOk(q, k, t) ==
    /\ \A i \in DOMAIN q, p \in Pids : Ends(q[i], p) => k[p] = "dead"
    /\ \A i \in DOMAIN q, p \in Pids : Bears(q[i], p) => k[p] # "unborn" /\ p \notin PT!Tracked(t)
    /\ \A i, j \in DOMAIN q, p \in Pids : Bears(q[i], p) /\ Bears(q[j], p) => i = j

\* The tracked processes were born and those that wait to be collected are tracked and dead.
TableOk(k, t) ==
    /\ \A p \in PT!Tracked(t) : k[p] # "unborn"
    /\ \A p \in PT!ReadyPids(t) : p \in PT!Tracked(t) /\ k[p] = "dead"

\* The processes the monitor knows by number were born.
Known(k, p) == p # NoPid => k[p] # "unborn"

\* Invariant: all of this.
EventInv ==
    /\ EventsOk(queue, kproc, table)
    /\ TableOk(kproc, table)
    /\ Known(kproc, pid) /\ Known(kproc, child) /\ Known(kproc, pidfile)

\* The dead stay dead, and nobody is unborn again.
Onward(k, l) == \A p \in Pids : (k[p] = "dead" => l[p] = "dead") /\ (k[p] # "unborn" => l[p] # "unborn")

\* All of it is kept as processes go on.
LEMMA OnwardKeeps ==
    ASSUME NEW q, NEW k, NEW l, NEW t, Onward(k, l), PT!Tracked(t) \subseteq Pids
    PROVE  /\ EventsOk(q, k, t) => EventsOk(q, l, t)
           /\ TableOk(k, t) => TableOk(l, t)
           /\ \A p \in Pids \cup {NoPid} : Known(k, p) => Known(l, p)
<1>1. EventsOk(q, k, t) => EventsOk(q, l, t)
  BY DEF EventsOk, Onward
<1>2. TableOk(k, t) => TableOk(l, t)
  BY DEF TableOk, Onward
<1>3. \A p \in Pids \cup {NoPid} : Known(k, p) => Known(l, p)
  BY DEF Known, Onward
<1> QED BY <1>1, <1>2, <1>3

\* One more event.
LEMMA EventsAppend ==
    ASSUME NEW q \in Seq(Events), NEW k, NEW t, EventsOk(q, k, t), NEW ev \in Events,
           \A p \in Pids : Ends(ev, p) => k[p] = "dead",
           \A p \in Pids : Bears(ev, p) => /\ k[p] # "unborn" /\ p \notin PT!Tracked(t)
                                           /\ \A i \in DOMAIN q : ~Bears(q[i], p)
    PROVE  EventsOk(Append(q, ev), k, t)
<1> DEFINE r == Append(q, ev)
           n == Len(q) + 1
<1>1. /\ \A i \in DOMAIN r : i = n \/ (i \in DOMAIN q /\ r[i] = q[i])
      /\ r[n] = ev
  <2>1. Added(q, ev, r, n)
    BY Appended
  <2> QED BY <2>1 DEF Added
<1> HIDE DEF r, n
<1>2. \A i \in DOMAIN r, p \in Pids : Ends(r[i], p) => k[p] = "dead"
  BY <1>1 DEF EventsOk
<1>3. \A i \in DOMAIN r, p \in Pids : Bears(r[i], p) => k[p] # "unborn" /\ p \notin PT!Tracked(t)
  BY <1>1 DEF EventsOk
<1>4. \A i, j \in DOMAIN r, p \in Pids : Bears(r[i], p) /\ Bears(r[j], p) => i = j
  BY <1>1 DEF EventsOk
<1>5. EventsOk(r, k, t)
  BY <1>2, <1>3, <1>4 DEF EventsOk
<1> QED BY <1>5 DEF r

\* One event less, and the process it says was born tracked.
LEMMA EventsTail ==
    ASSUME NEW q \in Seq(Events), NEW k, NEW t, NEW u, EventsOk(q, k, t), q # <<>>,
           \A p \in PT!Tracked(u) : p \in PT!Tracked(t) \/ Bears(Head(q), p)
    PROVE  EventsOk(Tail(q), k, u)
<1> DEFINE r == Tail(q)
<1>1. /\ \A i \in DOMAIN r : i + 1 \in DOMAIN q /\ r[i] = q[i + 1] /\ 1 # i + 1
      /\ \A i, j \in DOMAIN r : i + 1 = j + 1 => i = j
      /\ 1 \in DOMAIN q /\ Head(q) = q[1]
  <2>1. /\ \A i \in DOMAIN r : i \in Int /\ 1 < i + 1 /\ i + 1 \in DOMAIN q /\ r[i] = q[i + 1]
        /\ 1 \in DOMAIN q /\ Head(q) = q[1]
    BY Tailed DEF Shifted
  <2>2. ASSUME NEW i \in DOMAIN r, NEW j \in DOMAIN r PROVE 1 # i + 1 /\ (i + 1 = j + 1 => i = j)
    <3>1. i \in Int /\ j \in Int /\ 1 < i + 1
      BY <2>1
    <3> QED BY <3>1, Successors
  <2> QED BY <2>1, <2>2
<1> HIDE DEF r
<1>2. ASSUME NEW i \in DOMAIN r, NEW p \in Pids, Ends(r[i], p) PROVE k[p] = "dead"
  <2>1. i + 1 \in DOMAIN q /\ Ends(q[i + 1], p)
    BY <1>1, <1>2
  <2> QED BY <2>1 DEF EventsOk
<1>3. ASSUME NEW i \in DOMAIN r, NEW p \in Pids, Bears(r[i], p)
      PROVE  k[p] # "unborn" /\ p \notin PT!Tracked(u)
  <2>1. i + 1 \in DOMAIN q /\ Bears(q[i + 1], p) /\ 1 # i + 1 /\ 1 \in DOMAIN q
    BY <1>1, <1>3
  <2>2. k[p] # "unborn" /\ p \notin PT!Tracked(t) /\ ~Bears(q[1], p)
    BY <2>1 DEF EventsOk
  <2> QED BY <1>1, <2>2
<1>4. ASSUME NEW i \in DOMAIN r, NEW j \in DOMAIN r, NEW p \in Pids, Bears(r[i], p), Bears(r[j], p)
      PROVE  i = j
  <2>1. i + 1 \in DOMAIN q /\ Bears(q[i + 1], p) /\ j + 1 \in DOMAIN q /\ Bears(q[j + 1], p)
    BY <1>1, <1>4
  <2>2. i + 1 = j + 1
    BY <2>1 DEF EventsOk
  <2> QED BY <1>1, <2>2
<1>5. EventsOk(r, k, u)
  BY <1>2, <1>3, <1>4 DEF EventsOk
<1> QED BY <1>5 DEF r

\* No events, or fewer processes tracked.
LEMMA EventsFewer ==
    ASSUME NEW k, NEW t, NEW u
    PROVE  /\ EventsOk(<<>>, k, t)
           /\ \A q : EventsOk(q, k, t) /\ PT!Tracked(u) \subseteq PT!Tracked(t) => EventsOk(q, k, u)
<1>1. DOMAIN <<>> = {}
  BY NoEvents
<1> QED BY <1>1 DEF EventsOk

\* An event that is read leaves a table that goes with the processes.
LEMMA TableTakes ==
    ASSUME NEW k, NEW t, NEW u, NEW ev \in Events, TableOk(k, t), Took(t, u, ev),
           \A p \in Pids : Ends(ev, p) => k[p] = "dead",
           \A p \in Pids : Bears(ev, p) => k[p] # "unborn"
    PROVE  /\ TableOk(k, u)
           /\ \A p \in PT!Tracked(u) : p \in PT!Tracked(t) \/ Bears(ev, p)
<1>1. CASE ev.what = "fork"
  <2>1. /\ \A p \in PT!Tracked(u) : p \in PT!Tracked(t) \/ p = ev.child
        /\ \A p \in PT!Tracked(t) : p \in PT!Tracked(u)
        /\ PT!ReadyPids(u) = PT!ReadyPids(t)
    BY <1>1 DEF Took
  <2>2. Bears(ev, ev.child) /\ k[ev.child] # "unborn"
    BY <1>1, EventForm DEF Bears
  <2> QED BY <2>1, <2>2 DEF TableOk
<1>2. CASE ev.what = "exit"
  <2>1. CASE ev.actor \in PT!Tracked(t)
    <3>1. PT!Tracked(u) = PT!Tracked(t) /\ PT!ReadyPids(u) = PT!ReadyPids(t) \cup {ev.actor}
      BY <1>2, <2>1 DEF Took
    <3>2. k[ev.actor] = "dead"
      BY <1>2, EventForm DEF Ends
    <3> QED BY <2>1, <3>1, <3>2 DEF TableOk
  <2>2. CASE ev.actor \notin PT!Tracked(t)
    BY <1>2, <2>2 DEF Took
  <2> QED BY <2>1, <2>2
<1>3. CASE ev.what = "sid"
  BY <1>3 DEF TableOk, Took
<1> QED BY <1>1, <1>2, <1>3, EventForm

\* Steps of processes.
LEMMA KernelSteps ==
    ASSUME TypeOK, EventInv
    PROVE  /\ \A p \in Pids \cup {Self}, c \in Pids : KFork(p, c) =>
                /\ EventsOk(queue', kproc', table) /\ Onward(kproc, kproc')
                /\ kproc'[c] = "alive" /\ kproc[c] = "unborn" /\ c \notin PT!Tracked(table)
           /\ \A p \in Pids : KSetsid(p) => EventsOk(queue', kproc', table) /\ Onward(kproc, kproc')
           /\ \A p \in Pids, w \in Statuses : KExit(p, w) =>
                EventsOk(queue', kproc', table) /\ Onward(kproc, kproc') /\ kproc'[p] = "dead"
<1>0. /\ queue \in Seq(Events) /\ kproc \in [Pids -> {"unborn", "alive", "dead"}]
      /\ PT!Tracked(table) \subseteq Pids
  BY TableParts DEF TypeOK, KernelType
<1>1. ASSUME NEW p \in Pids \cup {Self}, NEW c \in Pids, KFork(p, c)
      PROVE  /\ EventsOk(queue', kproc', table) /\ Onward(kproc, kproc')
             /\ kproc'[c] = "alive" /\ kproc[c] = "unborn" /\ c \notin PT!Tracked(table)
  <2>1. /\ kproc[c] = "unborn" /\ kproc' = [kproc EXCEPT ![c] = "alive"]
        /\ queue' = Append(queue, ForkEvent(p, c))
    BY <1>1 DEF KFork
  <2>2. kproc'[c] = "alive" /\ Onward(kproc, kproc')
    BY <1>0, <2>1 DEF Onward
  <2>3. c \notin PT!Tracked(table) /\ \A i \in DOMAIN queue : ~Bears(queue[i], c)
    BY <2>1 DEF EventInv, TableOk, EventsOk
  <2>4. EventsOk(queue, kproc', table)
    BY <1>0, <2>2, OnwardKeeps DEF EventInv
  <2>5. /\ ForkEvent(p, c) \in Events
        /\ \A q \in Pids : ~Ends(ForkEvent(p, c), q) /\ (Bears(ForkEvent(p, c), q) => q = c)
    BY ForkForm
  <2>6. EventsOk(Append(queue, ForkEvent(p, c)), kproc', table)
    <3> HIDE DEF EventsOk
    <3>1. kproc'[c] # "unborn"
      BY <2>2
    <3> QED BY <1>0, <2>3, <2>4, <2>5, <3>1, EventsAppend
  <2> QED BY <2>1, <2>2, <2>3, <2>6
<1>2. ASSUME NEW p \in Pids, KSetsid(p)
      PROVE  EventsOk(queue', kproc', table) /\ Onward(kproc, kproc')
  <2>1. kproc' = kproc /\ queue' = Append(queue, SidEvent(p))
    BY <1>2 DEF KSetsid
  <2>2. /\ SidEvent(p) \in Events
        /\ \A q \in Pids : ~Ends(SidEvent(p), q) /\ ~Bears(SidEvent(p), q)
    BY SidForm
  <2>3. EventsOk(Append(queue, SidEvent(p)), kproc, table)
    BY <1>0, <2>2, EventsAppend DEF EventInv
  <2> QED BY <2>1, <2>3 DEF Onward
<1>3. ASSUME NEW p \in Pids, NEW w \in Statuses, KExit(p, w)
      PROVE  EventsOk(queue', kproc', table) /\ Onward(kproc, kproc') /\ kproc'[p] = "dead"
  <2>1. kproc' = [kproc EXCEPT ![p] = "dead"] /\ queue' = Append(queue, ExitEvent(p, w))
    BY <1>3 DEF KExit
  <2>2. kproc'[p] = "dead" /\ Onward(kproc, kproc')
    BY <1>0, <2>1 DEF Onward
  <2>3. EventsOk(queue, kproc', table)
    BY <1>0, <2>2, OnwardKeeps DEF EventInv
  <2>4. /\ ExitEvent(p, w) \in Events
        /\ \A q \in Pids : ~Bears(ExitEvent(p, w), q) /\ (Ends(ExitEvent(p, w), q) => q = p)
    BY ExitForm
  <2>5. EventsOk(Append(queue, ExitEvent(p, w)), kproc', table)
    BY <1>0, <2>2, <2>3, <2>4, EventsAppend
  <2> QED BY <2>1, <2>2, <2>5
<1> QED BY <1>1, <1>2, <1>3

\* What the monitor does when it reads an event.
LEMMA EventTaken ==
    ASSUME TypeOK, EventInv, queue # <<>>, NEW drop
    PROVE  /\ Head(queue) \in Events /\ Took(table, Ingested(Head(queue), drop), Head(queue))
           /\ TableOk(kproc, Ingested(Head(queue), drop))
           /\ EventsOk(Tail(queue), kproc, Ingested(Head(queue), drop))
<1> DEFINE ev == Head(queue)
           u == Ingested(ev, drop)
<1>0. queue \in Seq(Events)
  BY DEF TypeOK, KernelType
<1>1. ev \in Events /\ ev = queue[1] /\ 1 \in DOMAIN queue
  BY <1>0, Tailed DEF Shifted
<1>2. Took(table, u, ev)
  BY IngestTakes
<1> HIDE DEF ev, u
<1>3. /\ \A p \in Pids : Ends(ev, p) => kproc[p] = "dead"
      /\ \A p \in Pids : Bears(ev, p) => kproc[p] # "unborn"
  BY <1>1 DEF EventInv, EventsOk
<1>4. TableOk(kproc, u) /\ \A p \in PT!Tracked(u) : p \in PT!Tracked(table) \/ Bears(ev, p)
  BY <1>1, <1>2, <1>3, TableTakes DEF EventInv
<1>5. EventsOk(Tail(queue), kproc, u)
  BY <1>0, <1>4, EventsTail DEF EventInv, ev
<1> QED BY <1>1, <1>2, <1>4, <1>5 DEF ev, u

\* Collecting a process, or draining the table, loses nothing but processes.
LEMMA TableLeft ==
    ASSUME NEW k, NEW t, TableOk(k, t)
    PROVE  /\ PT!Collectable(t) => TableOk(k, PT!Collect(t)) /\ PT!Tracked(PT!Collect(t)) \subseteq PT!Tracked(t)
           /\ TableOk(k, PT!EmptyTable) /\ PT!Tracked(PT!EmptyTable) \subseteq PT!Tracked(t)
BY CollectTracks, EmptyTracks DEF TableOk

\* The processes, the events and the table stay in step.
LEMMA EventInvNext == TypeOK /\ EventInv /\ [Next]_vars => EventInv'
<1> SUFFICES ASSUME TypeOK, EventInv, [Next]_vars PROVE EventInv'
  OBVIOUS
<1>0. /\ PT!Tracked(table) \subseteq Pids /\ {pid, child, pidfile} \subseteq Pids \cup {NoPid}
      /\ \A p : p = NoPid => Known(kproc, p)
  BY TableParts DEF TypeOK, Known
<1>u. ASSUME UNCHANGED kproc, queue' \in {queue, <<>>}, table' \in {table, PT!EmptyTable},
             Known(kproc, pid'), Known(kproc, child'), Known(kproc, pidfile')
      PROVE  EventInv'
  <2>1. TableOk(kproc, table')
    BY <1>u, TableLeft DEF EventInv
  <2>2. EventsOk(queue', kproc, table')
    BY <1>u, EventsFewer, TableLeft DEF EventInv
  <2> QED BY <1>u, <2>1, <2>2 DEF EventInv
<1>v. ASSUME UNCHANGED <<kproc, queue, pid, child, pidfile>>, table' \in {table, PT!EmptyTable}
      PROVE  EventInv'
  BY <1>v, <1>u DEF EventInv
<1>1. CASE Restarting \/ Remaining \/ Stopping \/ Finish
  BY <1>1, <1>v DEF Restarting, Remaining, Stopping, Finish, procs, mon
<1>2. ASSUME NEW c \in Pids, Start(c) PROVE EventInv'
  <2>1. /\ KFork(Self, c) /\ table' = table /\ pidfile' = pidfile /\ child' = c /\ pid' \in {c, pid}
    BY <1>2 DEF Start
  <2>2. /\ EventsOk(queue', kproc', table) /\ Onward(kproc, kproc')
        /\ kproc'[c] = "alive"
    BY <2>1, KernelSteps
  <2>3. TableOk(kproc', table) /\ Known(kproc', pid) /\ Known(kproc', pidfile) /\ Known(kproc', c)
    BY <1>0, <2>2, OnwardKeeps DEF EventInv, Known
  <2> QED BY <2>1, <2>2, <2>3 DEF EventInv
<1>3. CASE StartFails
  BY <1>3, <1>0, <1>u DEF StartFails, procs, EventInv
<1>4. ASSUME NEW cmd \in Commands, WakeAndStay(cmd) PROVE EventInv'
  BY <1>4, <1>v DEF WakeAndStay, WakeIdle, WakeGrace, WakeKill
<1>5. ASSUME NEW cmd \in Commands, WakeAndLeave(cmd) \/ WaitControl(cmd) PROVE EventInv'
  BY <1>5, <1>v DEF WakeAndLeave, Leave, WaitControl, procs
<1>6. CASE WakeError \/ WaitError
  BY <1>6, <1>v DEF WakeError, WaitError, Die, procs
<1>7. CASE Ingest
  <2>1. /\ queue # <<>> /\ table' = Ingested(Head(queue), DropsSid) /\ queue' = Tail(queue)
        /\ UNCHANGED <<kproc, pid, child, pidfile>>
    BY <1>7 DEF Ingest, procs
  <2> QED BY <2>1, EventTaken DEF EventInv
<1>8. CASE IngestedAll \/ IngestError
  <2>1. /\ UNCHANGED <<kproc, child, pidfile>> /\ queue' \in {queue, <<>>}
        /\ table' \in {table, PT!EmptyTable} /\ pid' \in {pid, pidfile, NoPid}
    BY <1>8 DEF IngestedAll, IngestError, FindMain, Die, procs
  <2> QED BY <1>0, <1>u, <2>1 DEF EventInv
<1>9. CASE Collect
  <2>1. /\ PT!Collectable(table) /\ table' = PT!Collect(table) /\ UNCHANGED <<kproc, queue, pid>>
        /\ child' \in {child, NoPid} /\ pidfile' \in {pidfile, NoPid}
    BY <1>9 DEF Collect
  <2>2. TableOk(kproc, table') /\ EventsOk(queue, kproc, table')
    BY <2>1, TableLeft, EventsFewer DEF EventInv
  <2> QED BY <1>0, <2>1, <2>2 DEF EventInv
<1>10. CASE CollectedAll
  BY <1>10, <1>v DEF CollectedAll, Leave, procs
<1>11. CASE WaitIngest
  <2> DEFINE t == Ingested(Head(queue), FALSE)
  <2>1. /\ queue # <<>> /\ table' \in {t, PT!Collect(t)} /\ queue' = Tail(queue)
        /\ table' # t => PT!Collectable(t)
        /\ UNCHANGED <<kproc, pid, child, pidfile>>
    BY <1>11 DEF WaitIngest, procs, mon
  <2>2. TableOk(kproc, t) /\ EventsOk(Tail(queue), kproc, t)
    BY <2>1, EventTaken
  <2> HIDE DEF t
  <2>3. TableOk(kproc, table') /\ EventsOk(Tail(queue), kproc, table')
    BY <2>1, <2>2, TableLeft, EventsFewer
  <2> QED BY <2>1, <2>3 DEF EventInv
<1>12. CASE WaitOver \/ WaitLoss
  <2>1. UNCHANGED <<kproc, table, pid, child, pidfile>> /\ queue' \in {queue, <<>>}
    BY <1>12 DEF WaitOver, WaitLoss, procs, mon
  <2> QED BY <2>1, <1>u DEF EventInv
<1>13. ASSUME NEW p \in Pids, NEW c \in Pids, ProcFork(p, c) PROVE EventInv'
  <2>1. KFork(p, c) /\ UNCHANGED <<table, pid, child, pidfile>>
    BY <1>13 DEF ProcFork, mon
  <2>2. EventsOk(queue', kproc', table) /\ Onward(kproc, kproc')
    BY <2>1, KernelSteps
  <2> QED BY <1>0, <2>1, <2>2, OnwardKeeps DEF EventInv
<1>14. ASSUME NEW p \in Pids, ProcSetsid(p) PROVE EventInv'
  <2>1. KSetsid(p) /\ UNCHANGED <<table, pid, child, pidfile>>
    BY <1>14 DEF ProcSetsid, mon
  <2>2. EventsOk(queue', kproc', table) /\ Onward(kproc, kproc')
    BY <2>1, KernelSteps
  <2> QED BY <1>0, <2>1, <2>2, OnwardKeeps DEF EventInv
<1>15. ASSUME NEW p \in Pids, NEW w \in Statuses, ProcExit(p, w) PROVE EventInv'
  <2>1. KExit(p, w) /\ UNCHANGED <<table, pid, child, pidfile>>
    BY <1>15 DEF ProcExit, mon
  <2>2. EventsOk(queue', kproc', table) /\ Onward(kproc, kproc')
    BY <2>1, KernelSteps
  <2> QED BY <1>0, <2>1, <2>2, OnwardKeeps DEF EventInv
<1>16. ASSUME NEW p \in Pids, WritePidfile(p) PROVE EventInv'
  <2>1. UNCHANGED <<kproc, queue, table, pid, child>> /\ pidfile' = p /\ kproc[p] = "alive"
    BY <1>16 DEF WritePidfile, CanAct, Alive, mon
  <2> QED BY <2>1, <1>u DEF EventInv, Known
<1>17. CASE Expire \/ Uptime \/ UNCHANGED vars
  BY <1>17, <1>v DEF Expire, Uptime, vars, procs, mon
<1> QED
  BY <1>1, <1>2, <1>3, <1>4, <1>5, <1>6, <1>7, <1>8, <1>9, <1>10, <1>11, <1>12, <1>13, <1>14, <1>15, <1>16,
     <1>17 DEF Next, MonitorStep, ServiceStep

\* The processes, the events and the table are in step throughout.
THEOREM EventsSound == Spec => []EventInv
<1>1. Init => EventInv
  BY EmptyTracks, EventsFewer DEF Init, KernelInit, EventInv, TableOk, Known
<1> QED BY <1>1, EventInvNext, TypeCorrect, PTL DEF Spec
-----------------------------------------------------------------------------
(* The main process *)

\* The event that the monitor forked p is on the queue, and p's end is not before it.
Coming(q, p) ==
    \E i \in DOMAIN q : q[i] = ForkEvent(Self, p) /\ \A j \in DOMAIN q : j < i => ~Ends(q[j], p)

\* p is reported to have ended as w says, if at all.
EndsAs(q, p, w) == \A i \in DOMAIN q : Ends(q[i], p) => q[i].wstatus = w

\* Both are kept when another event is queued.
LEMMA ComingAppend ==
    ASSUME NEW q \in Seq(Events), NEW ev \in Events, NEW p, NEW w
    PROVE  /\ Coming(q, p) => Coming(Append(q, ev), p)
           /\ ev = ForkEvent(Self, p) /\ (\A i \in DOMAIN q : ~Ends(q[i], p)) => Coming(Append(q, ev), p)
           /\ EndsAs(q, p, w) /\ (Ends(ev, p) => ev.wstatus = w) => EndsAs(Append(q, ev), p, w)
<1> DEFINE r == Append(q, ev)
           n == Len(q) + 1
<1>1. /\ \A i \in DOMAIN r : i \in Int /\ (i = n \/ (i \in DOMAIN q /\ r[i] = q[i]))
      /\ \A i \in DOMAIN q : i \in Int /\ i < n /\ i \in DOMAIN r /\ r[i] = q[i]
      /\ r[n] = ev /\ n \in DOMAIN r /\ n \in Int
  <2>1. Added(q, ev, r, n)
    BY Appended
  <2> QED BY <2>1 DEF Added
<1> HIDE DEF r, n
<1>2. ASSUME Coming(q, p) PROVE Coming(r, p)
  <2>1. PICK i \in DOMAIN q : q[i] = ForkEvent(Self, p) /\ \A j \in DOMAIN q : j < i => ~Ends(q[j], p)
    BY <1>2 DEF Coming
  <2>2. i \in DOMAIN r /\ r[i] = ForkEvent(Self, p)
    BY <1>1, <2>1
  <2>3. ASSUME NEW j \in DOMAIN r, j < i PROVE ~Ends(r[j], p)
    <3>1. j # n
      BY <1>1, <2>3, LessApart
    <3> QED BY <1>1, <2>1, <2>3, <3>1
  <2> QED BY <2>2, <2>3 DEF Coming
<1>3. ASSUME ev = ForkEvent(Self, p), \A i \in DOMAIN q : ~Ends(q[i], p) PROVE Coming(r, p)
  <2>1. ASSUME NEW j \in DOMAIN r, j < n PROVE ~Ends(r[j], p)
    <3>1. j # n
      BY <1>1, <2>1, LessDiffers
    <3> QED BY <1>1, <1>3, <3>1
  <2> QED BY <1>1, <1>3, <2>1 DEF Coming
<1>4. ASSUME EndsAs(q, p, w), Ends(ev, p) => ev.wstatus = w PROVE EndsAs(r, p, w)
  BY <1>1, <1>4 DEF EndsAs
<1> QED BY <1>2, <1>3, <1>4 DEF r

\* They tell what the event read next is, and are kept when it is read.
LEMMA ComingTail ==
    ASSUME NEW q \in Seq(Events), q # <<>>, NEW p, NEW w
    PROVE  /\ Coming(q, p) => Head(q) = ForkEvent(Self, p) \/ Coming(Tail(q), p)
           /\ EndsAs(q, p, w) => EndsAs(Tail(q), p, w) /\ (Ends(Head(q), p) => Head(q).wstatus = w)
<1> DEFINE r == Tail(q)
<1>1. /\ \A i \in DOMAIN r : i \in Int /\ i + 1 \in DOMAIN q /\ r[i] = q[i + 1]
      /\ \A i \in DOMAIN q : i \in Int /\ (i # 1 => i - 1 \in DOMAIN r /\ r[i - 1] = q[i])
      /\ 1 \in DOMAIN q /\ Head(q) = q[1]
  BY Tailed DEF Shifted
<1> HIDE DEF r
<1>2. ASSUME Coming(q, p), Head(q) # ForkEvent(Self, p) PROVE Coming(r, p)
  <2>1. PICK i \in DOMAIN q : q[i] = ForkEvent(Self, p) /\ \A j \in DOMAIN q : j < i => ~Ends(q[j], p)
    BY <1>2 DEF Coming
  <2>2. i # 1 /\ i \in Int
    BY <1>1, <1>2, <2>1
  <2>3. i - 1 \in DOMAIN r /\ r[i - 1] = ForkEvent(Self, p)
    BY <1>1, <2>1, <2>2
  <2>4. ASSUME NEW j \in DOMAIN r, j < i - 1 PROVE ~Ends(r[j], p)
    <3>1. j + 1 \in DOMAIN q /\ j + 1 < i /\ r[j] = q[j + 1]
      BY <1>1, <2>2, <2>4, Shifts
    <3> QED BY <2>1, <3>1
  <2> QED BY <2>3, <2>4 DEF Coming
<1>3. ASSUME EndsAs(q, p, w) PROVE EndsAs(r, p, w) /\ (Ends(Head(q), p) => Head(q).wstatus = w)
  <2>1. ASSUME NEW i \in DOMAIN r, Ends(r[i], p) PROVE r[i].wstatus = w
    <3>1. i + 1 \in DOMAIN q /\ r[i] = q[i + 1]
      BY <1>1
    <3> QED BY <1>3, <2>1, <3>1 DEF EndsAs
  <2>2. Ends(Head(q), p) => Head(q).wstatus = w
    BY <1>1, <1>3 DEF EndsAs
  <2> QED BY <2>1, <2>2 DEF EndsAs
<1> QED BY <1>2, <1>3 DEF r

\* What an event that is read makes of a process in the table, dead or alive.
LEMMA TookOne ==
    ASSUME NEW t, NEW u, NEW ev \in Events, Took(t, u, ev), NEW p \in Pids, NEW w,
           p \in PT!ReadyPids(t) => t.ready[p].wstatus = w,
           Ends(ev, p) => ev.wstatus = w
    PROVE  /\ p \in PT!ReadyPids(u) => u.ready[p].wstatus = w
           /\ ev.what # "sid" /\ p \in PT!Tracked(t) => p \in PT!Tracked(u)
           /\ ev.what = "sid" /\ ev.actor \notin PT!Tracked(t) /\ p \in PT!Tracked(t) => p \in PT!Tracked(u)
           /\ ev = ForkEvent(Self, p) => p \in PT!Tracked(u)
<1>1. CASE ev.what = "fork"
  <2>1. ForkEvent(Self, p).actor = Self /\ ForkEvent(Self, p).child = p
    BY ForkForm
  <2> QED BY <1>1, <2>1 DEF Took
<1>2. CASE ev.what = "exit"
  <2>1. ev # ForkEvent(Self, p)
    BY <1>2, ForkForm
  <2>2. ASSUME ev.actor \in PT!Tracked(t), p \in PT!ReadyPids(u) PROVE u.ready[p].wstatus = w
    BY <1>2, <2>2 DEF Took, Ends
  <2> QED BY <1>2, <2>1, <2>2 DEF Took
<1>3. CASE ev.what = "sid"
  <2>1. ev # ForkEvent(Self, p)
    BY <1>3, ForkForm
  <2> QED BY <1>3, <2>1 DEF Took
<1> QED BY <1>1, <1>2, <1>3, EventForm

\* Invariant: what monitor_watch() knows of the main process of a service whose main
\* process is its child, as long as no events were lost and the process was not dropped: the
\* status it has recorded, or will when it has read the queue and collected the process, is
\* the one the process ended with, and it will not miss it.
MainInv ==
    Sound /\ Watching /\ svc.type # "forking" =>
        /\ pid \in Pids /\ child \in {pid, NoPid}
        /\ child = NoPid => kproc[pid] = "dead"
        /\ EndsAs(queue, pid, fate)
        /\ pid \in PT!ReadyPids(table) => table.ready[pid].wstatus = fate
        /\ wstatus # "none" => wstatus = fate /\ kproc[pid] = "dead"
        /\ pid \in PT!Tracked(table) \/ wstatus # "none" \/ (pc # "collect" /\ Coming(queue, pid))

\* It is kept.
LEMMA MainInvNext == TypeOK /\ EventInv /\ MainInv /\ [Next]_vars => MainInv'
<1> SUFFICES ASSUME TypeOK, EventInv, MainInv, [Next]_vars,
                    Sound', Watching', svc'.type # "forking"
             PROVE  /\ pid' \in Pids /\ child' \in {pid', NoPid}
                    /\ child' = NoPid => kproc'[pid'] = "dead"
                    /\ EndsAs(queue', pid', fate')
                    /\ pid' \in PT!ReadyPids(table') => table'.ready[pid'].wstatus = fate'
                    /\ wstatus' # "none" => wstatus' = fate' /\ kproc'[pid'] = "dead"
                    /\ pid' \in PT!Tracked(table') \/ wstatus' # "none" \/ (pc' # "collect" /\ Coming(queue', pid'))
  BY DEF MainInv
<1> DEFINE Goal == /\ pid' \in Pids /\ child' \in {pid', NoPid}
                   /\ child' = NoPid => kproc'[pid'] = "dead"
                   /\ EndsAs(queue', pid', fate')
                   /\ pid' \in PT!ReadyPids(table') => table'.ready[pid'].wstatus = fate'
                   /\ wstatus' # "none" => wstatus' = fate' /\ kproc'[pid'] = "dead"
                   /\ pid' \in PT!Tracked(table') \/ wstatus' # "none" \/ (pc' # "collect" /\ Coming(queue', pid'))
<1> SUFFICES Goal
  OBVIOUS
<1>0. /\ queue \in Seq(Events) /\ kproc \in [Pids -> {"unborn", "alive", "dead"}]
      /\ PT!Tracked(table) \subseteq Pids /\ NoPid \notin Pids /\ Self \notin Pids
  BY TableParts, MonitorAssumption DEF TypeOK, KernelType
<1>w. ASSUME Watching, svc' = svc, losses' = losses, strayed' = strayed
      PROVE  /\ pid \in Pids /\ child \in {pid, NoPid}
             /\ child = NoPid => kproc[pid] = "dead"
             /\ EndsAs(queue, pid, fate)
             /\ pid \in PT!ReadyPids(table) => table.ready[pid].wstatus = fate
             /\ wstatus # "none" => wstatus = fate /\ kproc[pid] = "dead"
             /\ pid \in PT!Tracked(table) \/ wstatus # "none" \/ (pc # "collect" /\ Coming(queue, pid))
  BY <1>w DEF MainInv, Sound
<1>u. ASSUME Watching, UNCHANGED <<svc, pid, child, kproc, queue, table, fate, wstatus, losses, strayed>>,
             pc' = "collect" => pc = "collect"
      PROVE  Goal
  BY <1>u, <1>w
<1>1. CASE Restarting \/ Remaining \/ Stopping \/ Finish
  BY <1>1 DEF Restarting, Remaining, Stopping, Finish, Watching
<1>2. ASSUME NEW c \in Pids, Start(c) PROVE Goal
  <2>1. /\ KFork(Self, c) /\ table' = table /\ child' = c /\ pid' = c /\ wstatus' = "none" /\ pc' = "poll"
        /\ fate' = "none" /\ queue' = Append(queue, ForkEvent(Self, c))
    BY <1>2 DEF Start, KFork
  <2>2. kproc[c] = "unborn" /\ c \notin PT!Tracked(table)
    BY <2>1, KernelSteps
  <2>3. \A i \in DOMAIN queue : ~Ends(queue[i], c)
    BY <2>2 DEF EventInv, EventsOk
  <2>4. ForkEvent(Self, c) \in Events /\ ~Ends(ForkEvent(Self, c), c)
    BY ForkForm
  <2>5. Coming(queue', c) /\ EndsAs(queue', c, "none")
    BY <1>0, <2>1, <2>3, <2>4, ComingAppend DEF EndsAs
  <2>6. c \notin PT!ReadyPids(table)
    BY <2>2 DEF EventInv, TableOk
  <2>7. c # NoPid
    BY <1>0
  <2> QED BY <2>1, <2>5, <2>6, <2>7
<1>3. CASE StartFails
  BY <1>3 DEF StartFails, Watching
<1>4. ASSUME NEW cmd \in Commands, WakeAndStay(cmd) PROVE Goal
  BY <1>4, <1>u DEF WakeAndStay, WakeIdle, WakeGrace, WakeKill, monitor_control_socket_ingest, Watching
<1>5. ASSUME NEW cmd \in Commands, WakeAndLeave(cmd) \/ WaitControl(cmd) PROVE Goal
  BY <1>5 DEF WakeAndLeave, Leave, WaitControl, Watching
<1>6. CASE WakeError \/ WaitError
  BY <1>6 DEF WakeError, WaitError, Die, Watching
<1>7. CASE Ingest
  <2> DEFINE ev == Head(queue)
             u == Ingested(ev, DropsSid)
             sid == ev.what = "sid" /\ ev.actor \in PT!Tracked(table)
  <2>1. /\ queue # <<>> /\ table' = u /\ queue' = Tail(queue) /\ Watching /\ pc = "ingest"
        /\ UNCHANGED <<svc, kproc, fate, pid, child, wstatus, losses, pc>>
        /\ strayed' = IF ~sid \/ ~DropsSid THEN strayed
                      ELSE IF pid \in PT!Tracked(table) \ PT!Tracked(u) THEN "main"
                      ELSE IF strayed = "none" THEN "some" ELSE strayed
    BY <1>7 DEF Ingest, procs, Watching
  <2>2. strayed # "main" /\ (sid /\ DropsSid => ~(pid \in PT!Tracked(table) \ PT!Tracked(u)))
    BY <2>1 DEF Sound
  <2>3. Sound
    BY <2>1, <2>2 DEF Sound
  <2>4. /\ ev \in Events /\ Took(table, u, ev)
        /\ ev.what = "sid" /\ ~DropsSid => u = table
    BY <2>1, EventTaken, IngestTakes
  <2> HIDE DEF u, ev
  <2>5. /\ pid \in Pids /\ child \in {pid, NoPid}
        /\ child = NoPid => kproc[pid] = "dead"
        /\ EndsAs(queue, pid, fate)
        /\ pid \in PT!ReadyPids(table) => table.ready[pid].wstatus = fate
        /\ wstatus # "none" => wstatus = fate /\ kproc[pid] = "dead"
        /\ pid \in PT!Tracked(table) \/ wstatus # "none" \/ Coming(queue, pid)
    BY <2>1, <2>3 DEF MainInv
  <2>6. /\ EndsAs(Tail(queue), pid, fate) /\ (Ends(ev, pid) => ev.wstatus = fate)
        /\ Coming(queue, pid) => ev = ForkEvent(Self, pid) \/ Coming(Tail(queue), pid)
    BY <1>0, <2>1, <2>5, ComingTail DEF ev
  <2>7. /\ pid \in PT!ReadyPids(u) => u.ready[pid].wstatus = fate
        /\ ev.what # "sid" /\ pid \in PT!Tracked(table) => pid \in PT!Tracked(u)
        /\ ev.what = "sid" /\ ev.actor \notin PT!Tracked(table) /\ pid \in PT!Tracked(table) => pid \in PT!Tracked(u)
        /\ ev = ForkEvent(Self, pid) => pid \in PT!Tracked(u)
    BY <2>4, <2>5, <2>6, TookOne
  <2>8. pid \in PT!Tracked(table) => pid \in PT!Tracked(u)
    BY <2>2, <2>4, <2>7
  <2>9. pc' # "collect"
    BY <2>1
  <2> QED BY <2>1, <2>5, <2>6, <2>7, <2>8, <2>9
<1>8. CASE IngestedAll
  <2>1. /\ queue = <<>> /\ UNCHANGED <<svc, child, kproc, queue, table, fate, wstatus, losses, strayed>>
        /\ Watching /\ (pid # NoPid => pid' = pid)
    BY <1>8 DEF IngestedAll, FindMain, procs, history, Watching
  <2>2. pid' = pid
    BY <1>0, <1>w, <2>1
  <2>3. ~Coming(queue, pid)
    <3>1. DOMAIN <<>> = {}
      BY NoEvents
    <3> QED BY <2>1, <3>1 DEF Coming
  <2> QED BY <1>w, <2>1, <2>2, <2>3
<1>9. CASE IngestError
  <2>1. losses' = 0 /\ losses' = losses + 1 /\ losses \in Nat
    BY <1>9, CountsType DEF IngestError, Sound
  <2>2. FALSE
    BY <2>1, OneMore
  <2> QED BY <2>2
<1>10. CASE Collect
  <2> DEFINE p == PT!First(table)
  <2>1. /\ PT!Collectable(table) /\ table' = PT!Collect(table) /\ Watching /\ pc = "collect"
        /\ UNCHANGED <<svc, kproc, queue, pid, fate, losses, strayed, pc>>
        /\ child' = IF p = child THEN NoPid ELSE child
        /\ wstatus' = IF p = pid THEN table.ready[p].wstatus ELSE wstatus
    BY <1>10 DEF Collect, history, Watching
  <2>2. /\ p \in PT!ReadyPids(table) /\ PT!Tracked(table') = PT!Tracked(table) \ {p}
        /\ PT!ReadyPids(table') = PT!ReadyPids(table) \ {p}
        /\ \A q \in PT!ReadyPids(table) \ {p} : table'.ready[q].wstatus = table.ready[q].wstatus
    BY <2>1, CollectTracks
  <2>3. p \in Pids /\ kproc[p] = "dead" /\ p # NoPid /\ table.ready[p].wstatus # "none"
    <3>1. p \in PT!Tracked(table) /\ kproc[p] = "dead"
      BY <2>2 DEF EventInv, TableOk
    <3>2. table.ready[p].wstatus \in Statuses
      BY <2>1, CollectType DEF TypeOK
    <3>3. "none" \notin Statuses
      BY MonitorAssumption
    <3> QED BY <1>0, <3>1, <3>2, <3>3
  <2> HIDE DEF p
  <2>4. /\ pid \in Pids /\ child \in {pid, NoPid}
        /\ child = NoPid => kproc[pid] = "dead"
        /\ EndsAs(queue, pid, fate)
        /\ pid \in PT!ReadyPids(table) => table.ready[pid].wstatus = fate
        /\ wstatus # "none" => wstatus = fate /\ kproc[pid] = "dead"
        /\ pid \in PT!Tracked(table) \/ wstatus # "none"
    BY <1>w, <2>1
  <2>5. CASE p = pid
    <3>1. wstatus' = fate /\ wstatus' # "none" /\ kproc[pid] = "dead" /\ child' = NoPid
      BY <2>1, <2>2, <2>3, <2>4, <2>5
    <3>2. pid \notin PT!ReadyPids(table')
      BY <2>2, <2>5
    <3> QED BY <2>1, <2>4, <3>1, <3>2
  <2>6. CASE p # pid
    <3>1. wstatus' = wstatus /\ child' = child
      BY <2>1, <2>3, <2>4, <2>6
    <3>2. pid \in PT!ReadyPids(table') => table'.ready[pid].wstatus = fate
      BY <2>2, <2>4, <2>6
    <3>3. pid \in PT!Tracked(table) => pid \in PT!Tracked(table')
      BY <2>2, <2>6
    <3> QED BY <2>1, <2>4, <3>1, <3>2, <3>3
  <2> QED BY <2>5, <2>6
<1>11. CASE CollectedAll
  BY <1>11, <1>u DEF CollectedAll, Leave, procs, history, Watching
<1>12. CASE WaitIngest \/ WaitOver \/ WaitLoss
  BY <1>12 DEF WaitIngest, WaitOver, WaitLoss, Watching
<1>13. ASSUME NEW p \in Pids, NEW c \in Pids, ProcFork(p, c) PROVE Goal
  <2>1. /\ KFork(p, c) /\ queue' = Append(queue, ForkEvent(p, c))
        /\ UNCHANGED <<svc, table, pid, child, fate, wstatus, losses, strayed, pc>>
    BY <1>13 DEF ProcFork, KFork, mon, history
  <2>2. Watching /\ Onward(kproc, kproc')
    BY <2>1, KernelSteps DEF Watching
  <2>3. ForkEvent(p, c) \in Events /\ ~Ends(ForkEvent(p, c), pid)
    BY ForkForm
  <2>4. /\ EndsAs(queue, pid, fate) => EndsAs(queue', pid, fate)
        /\ Coming(queue, pid) => Coming(queue', pid)
    BY <1>0, <2>1, <2>3, ComingAppend
  <2> QED BY <1>w, <2>1, <2>2, <2>4 DEF Onward
<1>14. ASSUME NEW p \in Pids, ProcSetsid(p) PROVE Goal
  <2>1. /\ KSetsid(p) /\ queue' = Append(queue, SidEvent(p)) /\ kproc' = kproc
        /\ UNCHANGED <<svc, table, pid, child, fate, wstatus, losses, strayed, pc>>
    BY <1>14 DEF ProcSetsid, KSetsid, mon, history
  <2>2. Watching
    BY <2>1 DEF Watching
  <2>3. SidEvent(p) \in Events /\ ~Ends(SidEvent(p), pid)
    BY SidForm
  <2>4. /\ EndsAs(queue, pid, fate) => EndsAs(queue', pid, fate)
        /\ Coming(queue, pid) => Coming(queue', pid)
    BY <1>0, <2>1, <2>3, ComingAppend
  <2> QED BY <1>w, <2>1, <2>2, <2>4
<1>15. ASSUME NEW p \in Pids, NEW w \in Statuses, ProcExit(p, w) PROVE Goal
  <2>1. /\ KExit(p, w) /\ queue' = Append(queue, ExitEvent(p, w)) /\ kproc[p] = "alive"
        /\ UNCHANGED <<svc, table, pid, child, wstatus, losses, strayed, pc>>
        /\ fate' = IF IsMain(p) THEN w ELSE fate
    BY <1>15 DEF ProcExit, KExit, Alive, mon, history
  <2>2. Watching /\ Onward(kproc, kproc') /\ kproc'[p] = "dead"
    BY <2>1, KernelSteps DEF Watching
  <2>3. /\ ExitEvent(p, w) \in Events /\ ExitEvent(p, w).wstatus = w
        /\ Ends(ExitEvent(p, w), pid) => p = pid
    BY ExitForm
  <2>4. /\ pid \in Pids /\ child \in {pid, NoPid}
        /\ child = NoPid => kproc[pid] = "dead"
        /\ EndsAs(queue, pid, fate)
        /\ pid \in PT!ReadyPids(table) => table.ready[pid].wstatus = fate
        /\ wstatus # "none" => wstatus = fate /\ kproc[pid] = "dead"
        /\ pid \in PT!Tracked(table) \/ wstatus # "none" \/ (pc # "collect" /\ Coming(queue, pid))
    BY <1>w, <2>1, <2>2
  <2>5. IsMain(p) <=> p = pid
    <3>1. IsMain(p) <=> p = child
      BY <2>1 DEF IsMain
    <3> QED BY <1>0, <2>1, <2>4, <3>1
  <2>6. Coming(queue, pid) => Coming(queue', pid)
    BY <1>0, <2>1, <2>3, ComingAppend
  <2>7. CASE p = pid
    <3>1. /\ \A i \in DOMAIN queue : ~Ends(queue[i], pid)
          /\ pid \notin PT!ReadyPids(table) /\ wstatus = "none"
      BY <2>1, <2>4, <2>7 DEF EventInv, EventsOk, TableOk
    <3>2. fate' = w
      BY <2>1, <2>5, <2>7
    <3>3. EndsAs(queue, pid, w)
      BY <3>1 DEF EndsAs
    <3>4. EndsAs(queue', pid, w)
      BY <1>0, <2>1, <2>3, <3>3, ComingAppend
    <3> QED BY <2>1, <2>2, <2>4, <2>6, <2>7, <3>1, <3>2, <3>4
  <2>8. CASE p # pid
    <3>1. fate' = fate
      BY <2>1, <2>5, <2>8
    <3>2. EndsAs(queue', pid, fate)
      BY <1>0, <2>1, <2>3, <2>4, <2>8, ComingAppend
    <3> QED BY <2>1, <2>2, <2>4, <2>6, <3>1, <3>2 DEF Onward
  <2> QED BY <2>7, <2>8
<1>16. ASSUME NEW p \in Pids, WritePidfile(p) PROVE Goal
  BY <1>16, <1>u DEF WritePidfile, mon, history, Watching
<1>17. CASE Expire \/ Uptime \/ UNCHANGED vars
  BY <1>17, <1>u DEF Expire, Uptime, vars, procs, mon, history, Watching
<1> HIDE DEF Goal
<1> QED
  BY <1>1, <1>2, <1>3, <1>4, <1>5, <1>6, <1>7, <1>8, <1>9, <1>10, <1>11, <1>12, <1>13, <1>14, <1>15, <1>16,
     <1>17 DEF Next, MonitorStep, ServiceStep

\* It holds throughout.
THEOREM MainKnown == Spec => []MainInv
<1>1. Init => MainInv
  BY DEF Init, MainInv, Watching
<1> QED BY <1>1, MainInvNext, EventsSound, TypeCorrect, PTL DEF Spec

-----------------------------------------------------------------------------
(* Decisions *)

\* Invariant: a simple service is stopped or restarted under the monitor's eyes only by an
\* order, a one-shot service restarted only so the first time it runs.
OrderInv ==
    /\ starts = 0 => pc \in {"loop", "done"} /\ state \in {"starting", "dead"}
    /\ Watching /\ svc.type = "simple" => state # "starting" /\ (state = "stopping" => ordered)
    /\ Watching /\ state = "restarting" /\ (svc.type = "simple" \/ (svc.type = "oneshot" /\ starts = 1))
         => ordered /\ order = "restart"

\* It is kept.
LEMMA OrderInvNext == TypeOK /\ StateInv /\ OrderInv /\ [Next]_vars => OrderInv'
<1> SUFFICES ASSUME TypeOK, StateInv, OrderInv, [Next]_vars PROVE OrderInv'
  OBVIOUS
<1> USE DEF OrderInv, Watching
<1>1. CASE Restarting
  BY <1>1 DEF Restarting, history
<1>2. CASE Remaining
  BY <1>2 DEF Remaining, history, mon
<1>3. CASE Stopping
  BY <1>3 DEF Stopping, history
<1>4. CASE Finish
  BY <1>4 DEF Finish, history, mon
<1>5. ASSUME NEW c \in Pids, Start(c) PROVE OrderInv'
  <2>1. /\ AtStart /\ svc' = svc /\ starts' = starts + 1 /\ pc' = "poll"
        /\ state' = IF svc.type = "simple" THEN "running" ELSE state
    BY <1>5 DEF Start
  <2>2. starts \in Nat
    BY CountsType
  <2>3. starts' # 0 /\ (starts' = 1 => starts = 0)
    BY <2>1, <2>2, OneMore
  <2>4. starts = 0 => state = "starting"
    BY <2>1 DEF AtStart
  <2> QED BY <2>1, <2>3, <2>4
<1>6. CASE StartFails
  BY <1>6 DEF StartFails, history
<1>7. ASSUME NEW cmd \in Commands, WakeAndStay(cmd) PROVE OrderInv'
  <2>1. /\ pc = "poll" /\ state' = StateAfter(cmd) /\ pc' \in {"poll", "ingest"} /\ svc' = svc /\ starts' = starts
        /\ order' = IF cmd = "none" THEN order ELSE cmd
        /\ ordered \/ cmd # "none" => ordered'
    BY <1>7 DEF WakeAndStay, monitor_control_socket_ingest
  <2>2. CASE cmd = "none"
    <3>1. state' = state /\ order' = order /\ (ordered => ordered') /\ Watching
      BY <2>1, <2>2, StateAfterForm
    <3> QED BY <2>1, <3>1
  <2>3. CASE cmd = "stop"
    BY <2>1, <2>3, StateAfterForm
  <2>4. CASE cmd = "restart"
    BY <2>1, <2>4, StateAfterForm
  <2> QED BY <2>2, <2>3, <2>4 DEF Commands
<1>8. ASSUME NEW cmd \in Commands, WakeAndLeave(cmd) PROVE OrderInv'
  BY <1>8 DEF WakeAndLeave, Leave, monitor_control_socket_ingest
<1>9. ASSUME NEW cmd \in Commands, WaitControl(cmd) PROVE OrderInv'
  BY <1>9 DEF WaitControl, monitor_control_socket_ingest
<1>10. CASE WakeError \/ WaitError
  BY <1>10 DEF WakeError, WaitError, Die, history
<1>11. CASE Ingest
  BY <1>11 DEF Ingest
<1>12. CASE IngestedAll
  BY <1>12 DEF IngestedAll, history
<1>13. CASE IngestError
  BY <1>13 DEF IngestError, Die
<1>14. CASE Collect
  BY <1>14 DEF Collect, history
<1>15. CASE CollectedAll
  BY <1>15 DEF CollectedAll, Leave, history
<1>16. CASE WaitIngest
  BY <1>16 DEF WaitIngest, mon, history
<1>17. CASE WaitOver
  BY <1>17 DEF WaitOver, mon, history
<1>18. CASE WaitLoss
  BY <1>18 DEF WaitLoss, mon
<1>19. CASE ServiceStep
  <2>1. UNCHANGED <<svc, state, pc, order, ordered, starts>>
    BY <1>19 DEF ServiceStep, ProcFork, ProcSetsid, ProcExit, WritePidfile, mon, history
  <2> QED BY <2>1
<1>20. CASE Expire \/ Uptime
  BY <1>20 DEF Expire, Uptime, mon, history
<1>21. CASE UNCHANGED vars
  BY <1>21 DEF vars, mon, history
<1> QED
  BY <1>1, <1>2, <1>3, <1>4, <1>5, <1>6, <1>7, <1>8, <1>9, <1>10, <1>11, <1>12, <1>13, <1>14, <1>15,
     <1>16, <1>17, <1>18, <1>19, <1>20, <1>21 DEF Next, MonitorStep

\* It holds throughout.
THEOREM OrdersKnown == Spec => []OrderInv
<1>1. Init => OrderInv
  BY DEF Init, OrderInv, Watching
<1> QED BY <1>1, OrderInvNext, StatesKnown, TypeCorrect, PTL DEF Spec

\* monitor_watch() leaves the collection of processes only when it is done.
LEMMA LeavesCollected ==
    ASSUME Next, pc = "collect", pc' = "loop"
    PROVE  CollectedAll
  BY DEF Next, MonitorStep, ServiceStep, Restarting, Remaining, Stopping, Finish, Start, AtStart, StartFails,
         WakeAndStay, WakeAndLeave, WakeError, Ingest, IngestedAll, IngestError, Collect,
         WaitControl, WaitIngest, WaitOver, WaitLoss, WaitError, ProcFork, ProcSetsid, ProcExit, WritePidfile,
         Expire, Uptime

\* When monitor_watch() has collected all there is and returns, it has recorded how the
\* main process ended.
LEMMA LeavesInformed ==
    ASSUME TypeOK, MainInv, CollectedAll, pc' = "loop", Judged
    PROVE  /\ wstatus = fate /\ fate \in Statuses
           /\ state' = Outcome(IF svc.type = "oneshot" THEN "running" ELSE state, fate)
<1>1. /\ pc = "collect" /\ Watching /\ svc.type \in {"simple", "oneshot"} /\ Sound
      /\ wstatus # "none" \/ PT!Tracked(table) = {}
      /\ wstatus # "none" => state' = Outcome(IF svc.type = "oneshot" THEN "running" ELSE state, wstatus)
  BY DEF CollectedAll, Leave, MainEnded, NoneLeft, Judged, Watching
<1>2. wstatus # "none" /\ wstatus = fate
  BY <1>1 DEF MainInv
<1>3. fate \in Statuses
  BY <1>2 DEF TypeOK
<1> QED BY <1>1, <1>2, <1>3

\* What monitor_func() decides of a service found running.
LEMMA Verdict ==
    ASSUME NEW w \in Statuses, svc \in Services
    PROVE  /\ Outcome("running", w) = "restarting" => w \in Unwelcome
           /\ w \in Unwelcome /\ ~(svc.remain_after_exit /\ w = "clean") => Outcome("running", w) = "restarting"
           /\ Outcome("running", w) \in {"stopped", "remaining"} => w = "clean"
           /\ Outcome("running", w) = "failed" => w \in {"fail", "abort"}
           /\ Outcome("running", w) # "starting"
<1>1. w \in {"clean", "fail", "abort"} /\ svc \in ServiceType
  BY MonitorAssumption
<1> QED BY SMT, <1>1 DEF Outcome, Unwelcome, ServiceType

\* Without an order, when the main process really ended in a way the policy restarts the
\* service for, the service is restarted; "stopped" and "remaining" mean that it really
\* succeeded, "failed" that it did not.
THEOREM PolicyIsFollowed == Spec => PolicyFollowed
<1>1. TypeOK /\ StateInv /\ OrderInv /\ MainInv /\ [Next]_vars =>
        [pc = "collect" /\ pc' = "loop" /\ Judged
            => /\ ~ordered /\ fate \in Unwelcome /\ ~(svc.remain_after_exit /\ fate = "clean")
                    => state' = "restarting"
               /\ state' \in {"stopped", "remaining"} => fate = "clean"
               /\ state' = "failed" => fate \in {"fail", "abort"}]_vars
  <2> SUFFICES ASSUME TypeOK, StateInv, OrderInv, MainInv, Next, pc = "collect", pc' = "loop", Judged
               PROVE  /\ ~ordered /\ fate \in Unwelcome /\ ~(svc.remain_after_exit /\ fate = "clean")
                            => state' = "restarting"
                      /\ state' \in {"stopped", "remaining"} => fate = "clean"
                      /\ state' = "failed" => fate \in {"fail", "abort"}
    OBVIOUS
  <2>1. CollectedAll
    BY LeavesCollected
  <2>2. /\ fate \in Statuses /\ svc \in Services
        /\ state' = Outcome(IF svc.type = "oneshot" THEN "running" ELSE state, fate)
    BY <2>1, LeavesInformed DEF TypeOK
  <2>3. CASE svc.type = "oneshot" \/ state = "running"
    <3>1. state' = Outcome("running", fate)
      BY <2>2, <2>3
    <3> QED BY <2>2, <3>1, Verdict
  <2>4. CASE svc.type # "oneshot" /\ state # "running"
    <3>1. state' = state
      BY <2>2, <2>4 DEF Outcome
    <3>2. state \in {"starting", "restarting", "stopping"} /\ svc.type = "simple"
      BY <2>4 DEF StateInv, Watching, Judged
    <3> QED BY <3>1, <3>2 DEF OrderInv, Watching
  <2> QED BY <2>3, <2>4
<1> QED BY <1>1, StatesKnown, OrdersKnown, MainKnown, TypeCorrect, PTL DEF Spec, PolicyFollowed

\* Invariant: as long as the service's child process lives, it has not ended.
FateInv == svc.type # "forking" /\ child # NoPid => (kproc[child] = "dead" <=> fate # "none")

\* It is kept.
LEMMA FateInvNext == TypeOK /\ EventInv /\ FateInv /\ [Next]_vars => FateInv'
<1> SUFFICES ASSUME TypeOK, EventInv, FateInv, [Next]_vars PROVE FateInv'
  OBVIOUS
<1>u. ASSUME UNCHANGED <<svc, fate, kproc>>, child' \in {child, NoPid} PROVE FateInv'
  BY <1>u DEF FateInv
<1>1. CASE Restarting \/ Remaining \/ Stopping \/ Finish \/ StartFails
  BY <1>1, <1>u DEF Restarting, Remaining, Stopping, Finish, StartFails, procs, mon
<1>2. ASSUME NEW c \in Pids, Start(c) PROVE FateInv'
  <2>1. child' = c /\ KFork(Self, c) /\ fate' = "none"
    BY <1>2 DEF Start
  <2>2. kproc'[c] = "alive"
    BY <2>1, KernelSteps
  <2> QED BY <2>1, <2>2 DEF FateInv
<1>3. ASSUME NEW cmd \in Commands, WakeAndStay(cmd) \/ WakeAndLeave(cmd) \/ WaitControl(cmd) PROVE FateInv'
  BY <1>3, <1>u DEF WakeAndStay, WakeAndLeave, WaitControl, procs
<1>4. CASE WakeError \/ WaitError \/ Ingest \/ IngestedAll \/ IngestError
  BY <1>4, <1>u DEF WakeError, WaitError, Ingest, IngestedAll, IngestError, procs
<1>5. CASE Collect \/ CollectedAll \/ WaitIngest \/ WaitOver \/ WaitLoss
  BY <1>5, <1>u DEF Collect, CollectedAll, WaitIngest, WaitOver, WaitLoss, procs, mon
<1>6. ASSUME NEW p \in Pids, NEW c \in Pids, ProcFork(p, c) PROVE FateInv'
  <2>1. KFork(p, c) /\ UNCHANGED <<svc, fate, child>>
    BY <1>6 DEF ProcFork, mon
  <2>2. Onward(kproc, kproc') /\ kproc[c] = "unborn" /\ kproc'[c] = "alive" /\ kproc' = [kproc EXCEPT ![c] = "alive"]
    BY <2>1, KernelSteps DEF KFork
  <2>3. child # NoPid => child # c /\ child \in Pids
    BY <2>2 DEF EventInv, Known, TypeOK
  <2>4. child # NoPid => kproc'[child] = kproc[child]
    BY <2>2, <2>3 DEF TypeOK, KernelType
  <2> QED BY <2>1, <2>4 DEF FateInv
<1>7. ASSUME NEW p \in Pids, ProcSetsid(p) \/ WritePidfile(p) PROVE FateInv'
  BY <1>7, <1>u DEF ProcSetsid, KSetsid, WritePidfile, mon
<1>8. ASSUME NEW p \in Pids, NEW w \in Statuses, ProcExit(p, w) PROVE FateInv'
  <2>1. /\ KExit(p, w) /\ UNCHANGED <<svc, child>> /\ kproc' = [kproc EXCEPT ![p] = "dead"]
        /\ fate' = IF IsMain(p) THEN w ELSE fate
    BY <1>8 DEF ProcExit, KExit, mon
  <2>2. w # "none" /\ kproc'[p] = "dead"
    BY <2>1, MonitorAssumption, KernelSteps
  <2>3. child # NoPid /\ child # p => kproc'[child] = kproc[child]
    BY <2>1 DEF TypeOK, KernelType
  <2>4. svc.type # "forking" => (IsMain(p) <=> p = child)
    BY DEF IsMain
  <2> QED BY <2>1, <2>2, <2>3, <2>4 DEF FateInv
<1>9. CASE Expire \/ Uptime \/ UNCHANGED vars
  BY <1>9, <1>u DEF Expire, Uptime, vars, procs, mon
<1> QED
  BY <1>1, <1>2, <1>3, <1>4, <1>5, <1>6, <1>7, <1>8, <1>9 DEF Next, MonitorStep, ServiceStep

\* It holds throughout.
THEOREM FateKnown == Spec => []FateInv
<1>1. Init => FateInv
  BY DEF Init, FateInv
<1> QED BY <1>1, FateInvNext, EventsSound, TypeCorrect, PTL DEF Spec

\* Why a service may be restarted.
Justified == (ordered /\ order = "restart") \/ fate \in Unwelcome

\* Invariant: a service that is about to be started again, other than a one-shot service that
\* has been restarted before, is restarting for an order or for how its main process ended.
JustInv ==
    Judged /\ (svc.type = "simple" \/ starts = 1) /\ starts > 0 =>
        /\ pc = "loop" => state # "starting"
        /\ ~Watching /\ state = "restarting" => Justified

\* It is kept.
LEMMA JustInvNext ==
    TypeOK /\ StateInv /\ MainInv /\ OrderInv /\ FateInv /\ JustInv /\ [Next]_vars => JustInv'
<1> SUFFICES ASSUME TypeOK, StateInv, MainInv, OrderInv, FateInv, JustInv, [Next]_vars PROVE JustInv'
  OBVIOUS
<1>u. ASSUME UNCHANGED <<svc, losses, strayed, starts, order, ordered, fate>>,
             pc' = "loop" /\ state' = "starting" => pc = "loop" /\ state = "starting",
             ~Watching' /\ state' = "restarting" => ~Watching /\ state = "restarting"
      PROVE  JustInv'
  BY <1>u DEF JustInv, Judged, Sound, Justified, Unwelcome
<1>1. CASE Restarting
  BY <1>1, <1>u DEF Restarting, procs, history, Watching
<1>2. CASE Remaining \/ Finish
  BY <1>2, <1>u DEF Remaining, Finish, procs, mon, history, Watching
<1>3. CASE Stopping
  BY <1>3, <1>u DEF Stopping, procs, history, Watching
<1>4. ASSUME NEW c \in Pids, Start(c) PROVE JustInv'
  BY <1>4 DEF Start, JustInv, Watching
<1>5. CASE StartFails
  BY <1>5, <1>u DEF StartFails, procs, history, Watching
<1>6. ASSUME NEW cmd \in Commands, WakeAndStay(cmd) PROVE JustInv'
  BY <1>6 DEF WakeAndStay, JustInv, Watching
<1>7. ASSUME NEW cmd \in Commands, WakeAndLeave(cmd) \/ WaitControl(cmd) PROVE JustInv'
  <2>1. /\ UNCHANGED <<svc, losses, strayed, starts, fate>>
        /\ order' = IF cmd = "none" THEN order ELSE cmd
        /\ ordered' = (ordered \/ cmd # "none")
        /\ pc \in {"poll", "wait"} /\ (pc = "wait" => cmd # "none")
    BY <1>7 DEF WakeAndLeave, WaitControl, monitor_control_socket_ingest, procs
  <2>2. state' = StateAfter(cmd)
    BY <1>7 DEF WakeAndLeave, WaitControl, Leave, Outcome, Due, monitor_is_stopping
  <2>3. /\ cmd = "none" => state' = state /\ pc = "poll"
        /\ cmd = "stop" => state' = "stopping"
        /\ cmd = "restart" => state' = "restarting"
    BY <2>1, <2>2, StateAfterForm
  <2>4. state' # "starting" 
    <3>1. CASE cmd = "none"
      BY <1>7, <2>2, <3>1 DEF WakeAndLeave, WaitControl, Due, monitor_is_stopping
    <3> QED BY <2>3, <3>1 DEF Commands
  <2>5. ASSUME cmd = "none", Judged, svc.type = "simple" \/ starts = 1, state' = "restarting"
        PROVE  ordered /\ order = "restart"
    BY <2>3, <2>5 DEF OrderInv, Watching, Judged
  <2>6. Judged' => Judged
    BY <2>1 DEF Judged, Sound
  <2> QED BY <2>1, <2>3, <2>4, <2>5, <2>6 DEF JustInv, Justified, Commands
<1>8. CASE WakeError \/ WaitError
  BY <1>8, <1>u DEF WakeError, WaitError, Die, procs, history, Watching
<1>9. CASE Ingest \/ IngestedAll
  BY <1>9 DEF Ingest, IngestedAll, JustInv, Watching
<1>10. CASE IngestError
  BY <1>10 DEF IngestError, Die, JustInv, Watching
<1>11. CASE Collect
  BY <1>11 DEF Collect, JustInv, Watching
<1>12. CASE CollectedAll
  <2>1. UNCHANGED <<svc, losses, strayed, starts, order, ordered, fate>> /\ pc = "collect" /\ pc' \in {"poll", "loop"}
    BY <1>12 DEF CollectedAll, Leave, procs, history
  <2>2. CASE pc' = "poll"
    BY <2>2 DEF JustInv, Watching
  <2>3. CASE pc' = "loop"
    <3> SUFFICES ASSUME Judged, svc.type = "simple" \/ starts = 1
                 PROVE  state' # "starting" /\ (state' = "restarting" => Justified)
      BY <2>1, <2>3 DEF JustInv, Judged, Sound, Justified, Unwelcome
    <3>1. /\ fate \in Statuses /\ svc \in Services
          /\ state' = Outcome(IF svc.type = "oneshot" THEN "running" ELSE state, fate)
      BY <1>12, <2>3, LeavesInformed DEF TypeOK
    <3>2. CASE svc.type = "oneshot" \/ state = "running"
      <4>1. state' = Outcome("running", fate)
        BY <3>1, <3>2
      <4> QED BY <3>1, <4>1, Verdict DEF Justified
    <3>3. CASE svc.type # "oneshot" /\ state # "running"
      <4>1. state' = state
        BY <3>1, <3>3 DEF Outcome
      <4>2. svc.type = "simple" /\ Watching
        BY <2>1, <3>3 DEF Watching, Judged
      <4> QED BY <4>1, <4>2 DEF OrderInv, Justified
    <3> QED BY <3>2, <3>3
  <2> QED BY <2>1, <2>2, <2>3
<1>13. CASE WaitIngest \/ WaitOver
  BY <1>13, <1>u DEF WaitIngest, WaitOver, procs, mon, history, Watching
<1>14. CASE WaitLoss
  <2>1. losses' = losses + 1 /\ losses \in Nat
    BY <1>14, CountsType DEF WaitLoss
  <2>2. losses' # 0
    BY <2>1, OneMore
  <2> QED BY <2>2 DEF JustInv, Judged, Sound
<1>15. ASSUME NEW p \in Pids, NEW c \in Pids, ProcFork(p, c) \/ ProcSetsid(p) \/ WritePidfile(p) PROVE JustInv'
  BY <1>15, <1>u DEF ProcFork, ProcSetsid, WritePidfile, mon, history, Watching
<1>16. ASSUME NEW p \in Pids, NEW w \in Statuses, ProcExit(p, w) PROVE JustInv'
  <2>1. /\ UNCHANGED <<svc, losses, strayed, starts, order, ordered, state, pc, child>> /\ kproc[p] = "alive"
        /\ fate' = IF IsMain(p) THEN w ELSE fate
    BY <1>16 DEF ProcExit, KExit, Alive, mon, history
  <2>2. CASE fate' = fate
    BY <2>1, <2>2, <1>u DEF Watching
  <2>3. CASE fate' # fate /\ svc.type \in {"simple", "oneshot"}
    <3>1. IsMain(p) /\ p = child /\ child # NoPid
      BY <2>1, <2>3, MonitorAssumption DEF IsMain
    <3>2. fate = "none"
      BY <2>1, <2>3, <3>1 DEF FateInv
    <3>3. fate \notin Unwelcome
      BY <3>2, MonitorAssumption DEF Unwelcome
    <3>4. Justified => ordered /\ order = "restart"
      BY <3>3 DEF Justified
    <3> QED BY <2>1, <3>4 DEF JustInv, Judged, Sound, Justified, Watching
  <2>4. CASE svc.type \notin {"simple", "oneshot"}
    BY <2>1, <2>4 DEF JustInv, Judged
  <2> QED BY <2>2, <2>3, <2>4
<1>17. CASE Expire \/ Uptime \/ UNCHANGED vars
  BY <1>17, <1>u DEF Expire, Uptime, vars, procs, mon, history, Watching
<1> QED
  BY <1>1, <1>2, <1>3, <1>4, <1>5, <1>6, <1>7, <1>8, <1>9, <1>10, <1>11, <1>12, <1>13, <1>14, <1>15, <1>16,
     <1>17 DEF Next, MonitorStep, ServiceStep

\* Only monitor_func() forking the service starts it.
LEMMA StartsGrow == ASSUME TypeOK, Next, starts' > starts PROVE \E c \in Pids : Start(c)
<1>1. starts' # starts
  <2>1. starts \in Nat
    BY CountsType
  <2> QED BY <2>1, SMTT(30)
<1> QED
  BY <1>1 DEF Next, MonitorStep, ServiceStep, Restarting, Remaining, Stopping, Finish, StartFails,
         WakeAndStay, WakeAndLeave, WakeError, Ingest, IngestedAll, IngestError, Collect, CollectedAll,
         WaitControl, WaitIngest, WaitOver, WaitLoss, WaitError, ProcFork, ProcSetsid, ProcExit, WritePidfile,
         Expire, Uptime, monitor_control_socket_ingest, history

\* The service is started again only if it was ordered to restart, or if its main process
\* really ended in a way the policy restarts it for.
THEOREM RestartsAreJustified == Spec => RestartJustified
<1>1. Init => JustInv
  BY SMT DEF Init, JustInv
<1>2. TypeOK /\ StateInv /\ JustInv /\ [Next]_vars =>
        [starts' > starts /\ starts > 0 /\ Judged /\ (svc.type = "simple" \/ starts = 1)
            => (ordered /\ order = "restart") \/ fate \in Unwelcome]_vars
  <2> SUFFICES ASSUME TypeOK, StateInv, JustInv, Next, starts' > starts, starts > 0, Judged,
                      svc.type = "simple" \/ starts = 1
               PROVE  Justified
    BY DEF Justified
  <2>1. AtStart
    BY StartsGrow DEF Start
  <2>2. pc = "start" /\ state = "restarting"
    BY <2>1 DEF AtStart, JustInv, StateInv
  <2> QED BY <2>2 DEF JustInv, Watching
<1> QED BY <1>1, <1>2, JustInvNext, StatesKnown, MainKnown, OrdersKnown, FateKnown, TypeCorrect, PTL
        DEF Spec, RestartJustified
-----------------------------------------------------------------------------
(* Kill passes *)

\* The main process has ended, will, or is not known.
Quashed == pid = NoPid \/ kproc[pid] = "dead" \/ sig[pid] = "KILL"

\* The event that the monitor forked p is on the queue.
Announced(q, p) == \E i \in DOMAIN q : q[i] = ForkEvent(Self, p)

\* It is kept until it is read.
LEMMA AnnouncedKept ==
    ASSUME NEW q \in Seq(Events), NEW p
    PROVE  /\ \A ev \in Events : Announced(q, p) \/ ev = ForkEvent(Self, p) => Announced(Append(q, ev), p)
           /\ q # <<>> /\ Announced(q, p) => Head(q) = ForkEvent(Self, p) \/ Announced(Tail(q), p)
           /\ ~Announced(<<>>, p)
<1>1. ASSUME NEW ev \in Events, Announced(q, p) \/ ev = ForkEvent(Self, p) PROVE Announced(Append(q, ev), p)
  <2> DEFINE r == Append(q, ev)
             n == Len(q) + 1
  <2>1. /\ \A i \in DOMAIN q : i \in DOMAIN r /\ r[i] = q[i]
        /\ n \in DOMAIN r /\ r[n] = ev
    <3>1. Added(q, ev, r, n)
      BY Appended
    <3> QED BY <3>1 DEF Added
  <2> HIDE DEF r, n
  <2>2. Announced(r, p)
    BY <1>1, <2>1 DEF Announced
  <2> QED BY <2>2 DEF r
<1>2. ASSUME q # <<>>, Announced(q, p) PROVE Head(q) = ForkEvent(Self, p) \/ Announced(Tail(q), p)
  <2>1. PICK i \in DOMAIN q : q[i] = ForkEvent(Self, p)
    BY <1>2 DEF Announced
  <2>2. i # 1 => i - 1 \in DOMAIN Tail(q) /\ Tail(q)[i - 1] = q[i]
    BY <1>2, Tailed DEF Shifted
  <2>3. Head(q) = q[1]
    BY <1>2, Tailed
  <2> QED BY <2>1, <2>2, <2>3 DEF Announced
<1>3. DOMAIN <<>> = {}
  BY NoEvents
<1> QED BY <1>1, <1>2, <1>3 DEF Announced

\* The instances whose main process the monitor follows and may kill.
Kept == Sound /\ svc.kill_mode # "none" /\ (svc.type # "forking" \/ starts \in {0, 1})

\* Invariant: a status is recorded, and a kill pass made, only of a main process that is known.
PidInv ==
    /\ starts = 0 => pid = NoPid
    /\ Watching /\ wstatus # "none" => pid # NoPid /\ kproc[pid] = "dead"
    /\ Watching /\ stopping # 0 => pid # NoPid

\* Invariant: as long as monitor_watch() has not seen the main process end it tracks it, or
\* will before the kill passes are over; after the second pass, and when it returns, the
\* process has ended or was sent SIGKILL.
KillInv ==
    Kept =>
        /\ ~Watching /\ state # "dead" => Quashed
        /\ Watching /\ stopping = 2 => Quashed
        /\ Watching => \/ Quashed
                       \/ pid \in PT!Tracked(table)
                       \/ (pc = "ingest" \/ (pc = "poll" /\ stopping = 0)) /\ Announced(queue, pid)

\* A main process that is quashed stays so.
LEMMA QuashedStays ==
    ASSUME TypeOK, Quashed, pid' = pid, Onward(kproc, kproc'),
           pid \in Pids => (sig[pid] = "KILL" => sig'[pid] = "KILL" \/ kproc'[pid] = "dead")
    PROVE  Quashed'
  BY DEF TypeOK, Quashed, Onward

\* The first of the two is kept.
LEMMA PidInvNext == TypeOK /\ EventInv /\ OrderInv /\ PidInv /\ [Next]_vars => PidInv'
<1> SUFFICES ASSUME TypeOK, EventInv, OrderInv, PidInv, [Next]_vars PROVE PidInv'
  OBVIOUS
<1>u. ASSUME starts' = starts, pid' = pid, Onward(kproc, kproc'),
             Watching' => Watching /\ UNCHANGED <<wstatus, stopping>>
      PROVE  PidInv'
  BY <1>u DEF PidInv, Onward, TypeOK
<1>0. Onward(kproc, kproc) /\ starts \in Nat /\ NoPid \notin Pids
  BY MonitorAssumption, CountsType DEF Onward
<1>1. CASE Restarting \/ Remaining \/ Stopping \/ Finish \/ StartFails
  BY <1>0, <1>1, <1>u DEF Restarting, Remaining, Stopping, Finish, StartFails, procs, mon, history, Watching
<1>2. ASSUME NEW c \in Pids, Start(c) PROVE PidInv'
  <2>1. starts' = starts + 1 /\ wstatus' = "none" /\ stopping' = 0
    BY <1>2 DEF Start
  <2>2. starts' # 0
    BY <1>0, <2>1, OneMore
  <2> QED BY <2>1, <2>2 DEF PidInv
<1>3. ASSUME NEW cmd \in Commands, WakeAndStay(cmd) PROVE PidInv'
  <2>1. /\ UNCHANGED <<starts, pid, kproc, wstatus>> /\ (stopping' # stopping => pid # NoPid) /\ pc = "poll"
    BY <1>3 DEF WakeAndStay, WakeIdle, WakeGrace, WakeKill, monitor_control_socket_ingest
  <2> QED BY <2>1 DEF PidInv, Watching
<1>4. ASSUME NEW cmd \in Commands, WakeAndLeave(cmd) \/ WaitControl(cmd) PROVE PidInv'
  BY <1>0, <1>4, <1>u DEF WakeAndLeave, Leave, WaitControl, monitor_control_socket_ingest, procs, Watching
<1>5. CASE WakeError \/ WaitError \/ Ingest \/ CollectedAll
  BY <1>0, <1>5, <1>u DEF WakeError, WaitError, Die, Ingest, CollectedAll, Leave, procs, history, watch, Watching
<1>6. CASE IngestedAll \/ IngestError
  <2>1. /\ UNCHANGED <<starts, kproc, wstatus, stopping>> /\ Watching
        /\ pid # NoPid => pid' = pid
    BY <1>6 DEF IngestedAll, IngestError, FindMain, Die, procs, history, watch, Watching
  <2>2. starts # 0
    BY <2>1 DEF OrderInv, Watching
  <2> QED BY <2>1, <2>2 DEF PidInv
<1>7. CASE Collect
  <2>1. /\ UNCHANGED <<starts, kproc, stopping, pid>> /\ Watching /\ PT!Collectable(table)
        /\ wstatus' # wstatus => PT!First(table) = pid
    BY <1>7 DEF Collect, history, Watching
  <2>2. PT!First(table) \in Pids /\ kproc[PT!First(table)] = "dead"
    BY <2>1, CollectTracks, CollectType DEF EventInv, TableOk, TypeOK
  <2> QED BY <1>0, <2>1, <2>2 DEF PidInv
<1>8. CASE WaitIngest \/ WaitOver \/ WaitLoss
  BY <1>0, <1>8, <1>u DEF WaitIngest, WaitOver, WaitLoss, procs, mon, history, Watching
<1>9. ASSUME NEW p \in Pids, NEW c \in Pids, ProcFork(p, c) \/ ProcSetsid(p) \/ WritePidfile(p) PROVE PidInv'
  <2>1. UNCHANGED <<starts, pid, wstatus, stopping, pc>> /\ (KFork(p, c) \/ KSetsid(p) \/ kproc' = kproc)
    BY <1>9 DEF ProcFork, ProcSetsid, WritePidfile, mon, history, watch
  <2>2. Onward(kproc, kproc')
    BY <1>0, <2>1, KernelSteps
  <2> QED BY <1>u, <2>1, <2>2 DEF Watching
<1>10. ASSUME NEW p \in Pids, NEW w \in Statuses, ProcExit(p, w) PROVE PidInv'
  <2>1. UNCHANGED <<starts, pid, wstatus, stopping, pc>> /\ KExit(p, w)
    BY <1>10 DEF ProcExit, mon, history, watch
  <2>2. Onward(kproc, kproc')
    BY <2>1, KernelSteps
  <2> QED BY <1>u, <2>1, <2>2 DEF Watching
<1>11. CASE Expire \/ Uptime \/ UNCHANGED vars
  BY <1>0, <1>11, <1>u DEF Expire, Uptime, vars, procs, mon, history, watch, Watching
<1> QED
  BY <1>1, <1>2, <1>3, <1>4, <1>5, <1>6, <1>7, <1>8, <1>9, <1>10, <1>11 DEF Next, MonitorStep, ServiceStep

\* The second is kept.
LEMMA KillInvNext == TypeOK /\ EventInv /\ StateInv /\ PidInv /\ KillInv /\ [Next]_vars => KillInv'
<1> DEFINE Goal == /\ ~Watching' /\ state' # "dead" => Quashed'
                   /\ Watching' /\ stopping' = 2 => Quashed'
                   /\ Watching' => \/ Quashed'
                                   \/ pid' \in PT!Tracked(table')
                                   \/ (pc' = "ingest" \/ (pc' = "poll" /\ stopping' = 0)) /\ Announced(queue', pid')
<1> SUFFICES ASSUME TypeOK, EventInv, StateInv, PidInv, KillInv, [Next]_vars, Kept' PROVE Goal
  BY DEF KillInv
<1>0. /\ queue \in Seq(Events) /\ starts \in Nat /\ losses \in Nat /\ pid \in Pids \cup {NoPid} /\ NoPid \notin Pids
      /\ Onward(kproc, kproc) /\ stopping \in 0..2 /\ 0 # 1 /\ 0 # 2
  BY MonitorAssumption, SMT DEF TypeOK, KernelType, Onward
<1>k. UNCHANGED <<svc, starts, losses, strayed>> => Kept
  BY DEF Kept, Sound
<1>q. ASSUME UNCHANGED <<kproc, sig, pid>> PROVE Quashed' <=> Quashed
  BY <1>q DEF Quashed
<1>n. ASSUME ~Watching, ~Watching', UNCHANGED <<svc, starts, losses, strayed, kproc, sig, pid>>,
             state = "dead" => state' = "dead"
      PROVE  Goal
  BY <1>k, <1>q, <1>n DEF KillInv
<1>s. ASSUME UNCHANGED <<svc, starts, losses, strayed, state, pid, table, pc, stopping>>,
             Quashed => Quashed', Announced(queue, pid) => Announced(queue', pid)
      PROVE  Goal
  BY <1>k, <1>s DEF KillInv, Watching
<1>1. CASE Restarting \/ Remaining \/ Stopping \/ Finish
  BY <1>1, <1>n DEF Restarting, Remaining, Stopping, Finish, procs, mon, history, Watching
<1>2. ASSUME NEW c \in Pids, Start(c) PROVE Goal
  <2>1. /\ starts' = starts + 1 /\ stopping' = 0 /\ pc' = "poll" /\ svc' = svc
        /\ svc.type # "forking" => pid' = c
        /\ svc.type = "forking" => pid' = pid
        /\ queue' = Append(queue, ForkEvent(Self, c))
    BY <1>2 DEF Start, KFork
  <2>2. ForkEvent(Self, c) \in Events
    BY ForkForm
  <2>3. CASE svc.type # "forking"
    BY <1>0, <2>1, <2>2, <2>3, AnnouncedKept DEF Watching
  <2>4. CASE svc.type = "forking"
    <3>1. starts' \in {0, 1}
      BY <2>1, <2>4 DEF Kept
    <3>2. starts = 0
      BY <1>0, <2>1, <3>1, OneMore
    <3>3. Quashed'
      BY <2>1, <2>4, <3>2 DEF PidInv, Quashed
    <3> QED BY <1>0, <2>1, <3>3 DEF Watching
  <2> QED BY <2>3, <2>4
<1>3. CASE StartFails
  BY <1>3 DEF StartFails, Watching
<1>4. ASSUME NEW cmd \in Commands, WakeAndStay(cmd) PROVE Goal
  <2>1. /\ UNCHANGED <<svc, starts, losses, strayed, kproc, pid, table, queue>> /\ pc = "poll"
        /\ pc' = IF queue # <<>> THEN "ingest" ELSE "poll"
    BY <1>4 DEF WakeAndStay, WakeIdle, WakeGrace, WakeKill, monitor_control_socket_ingest
  <2>2. Kept /\ Watching /\ Watching'
    BY <1>k, <2>1 DEF Watching
  <2>3. Announced(queue, pid) => pc' = "ingest"
    BY <1>0, <2>1, AnnouncedKept
  <2>4. CASE WakeIdle(cmd) \/ WakeGrace(cmd)
    <3>1. sig' = sig /\ stopping' = stopping
      BY <2>4 DEF WakeIdle, WakeGrace
    <3> QED BY <1>q, <2>1, <2>2, <2>3, <3>1 DEF KillInv
  <2>5. CASE WakeKill(cmd)
    <3>1. /\ pid # NoPid /\ stopping \in {0, 1} /\ stopping' = stopping + 1
          /\ sig' = [p \in Pids |-> IF p \notin Targets(stopping + 1) THEN sig[p]
                                    ELSE IF stopping = 0 /\ sig[p] # "KILL" THEN "TERM" ELSE "KILL"]
      BY <1>0, <2>5, SMTT(30) DEF WakeKill
    <3>2. pid \in Pids
      BY <1>0, <3>1
    <3>3. Quashed => Quashed'
      <4>1. sig[pid] = "KILL" => sig'[pid] = "KILL"
        BY <3>1, <3>2
      <4> QED BY <2>1, <4>1 DEF Quashed
    <3>4. stopping' = 2 => stopping = 1
      BY <3>1, OneMore
    <3>5. ASSUME stopping = 1, ~Quashed PROVE Quashed'
      <4>1. pid \in PT!Tracked(table)
        BY <2>1, <2>2, <3>5 DEF KillInv
      <4>2. kproc[pid] = "alive"
        BY <3>2, <4>1, <3>5 DEF EventInv, TableOk, Quashed, TypeOK, KernelType
      <4>3. pid \in Targets(stopping + 1)
        BY <3>2, <4>1, <4>2 DEF Targets, Alive
      <4>4. sig'[pid] = "KILL"
        <5>1. stopping # 0
          BY <1>0, <3>5
        <5> QED BY <3>1, <3>2, <4>3, <5>1
      <4> QED BY <2>1, <4>4 DEF Quashed
    <3> QED BY <2>1, <2>2, <2>3, <3>3, <3>4, <3>5 DEF KillInv
  <2> QED BY <1>4, <2>4, <2>5 DEF WakeAndStay
<1>5. ASSUME NEW cmd \in Commands, WakeAndLeave(cmd) PROVE Goal
  <2>1. /\ UNCHANGED <<svc, starts, losses, strayed, kproc, sig, pid>> /\ pc = "poll" /\ pc' = "loop"
        /\ IF pid = NoPid THEN sent # "zero" ELSE svc.kill_mode = "none" \/ stopping = 2
    BY <1>5 DEF WakeAndLeave, Leave, monitor_control_socket_ingest, procs
  <2>2. Quashed
    BY <1>k, <2>1 DEF KillInv, Watching, Kept, Quashed
  <2> QED BY <1>q, <2>1, <2>2 DEF Watching
<1>6. ASSUME NEW cmd \in Commands, WaitControl(cmd) PROVE Goal
  <2>1. state # "dead"
    BY <1>6 DEF WaitControl, StateInv
  <2> QED BY <1>6, <1>n, <2>1 DEF WaitControl, monitor_control_socket_ingest, procs, Watching
<1>7. CASE WakeError \/ WaitError
  BY <1>7 DEF WakeError, WaitError, Die, Watching
<1>8. CASE Ingest
  <2> DEFINE ev == Head(queue)
             u == Ingested(ev, DropsSid)
             sid == ev.what = "sid" /\ ev.actor \in PT!Tracked(table)
  <2>1. /\ queue # <<>> /\ table' = u /\ queue' = Tail(queue) /\ Watching /\ pc = "ingest"
        /\ UNCHANGED <<svc, starts, losses, kproc, sig, pid, stopping, pc>>
        /\ strayed' = IF ~sid \/ ~DropsSid THEN strayed
                      ELSE IF pid \in PT!Tracked(table) \ PT!Tracked(u) THEN "main"
                      ELSE IF strayed = "none" THEN "some" ELSE strayed
    BY <1>8 DEF Ingest, procs, watch, Watching
  <2>2. strayed # "main" /\ (sid /\ DropsSid => ~(pid \in PT!Tracked(table) \ PT!Tracked(u)))
    BY <2>1 DEF Kept, Sound
  <2>3. Kept
    BY <2>1, <2>2 DEF Kept, Sound
  <2>4. /\ ev \in Events /\ Took(table, u, ev)
        /\ ev.what = "sid" /\ ~DropsSid => u = table
    BY <2>1, EventTaken, IngestTakes
  <2>5. Announced(queue, pid) => ev = ForkEvent(Self, pid) \/ Announced(Tail(queue), pid)
    BY <1>0, <2>1, AnnouncedKept
  <2> HIDE DEF u, ev
  <2>6. ASSUME pid \in Pids
        PROVE  /\ pid \in PT!Tracked(table) => pid \in PT!Tracked(u)
               /\ ev = ForkEvent(Self, pid) => pid \in PT!Tracked(u)
    <3>1. /\ ev.what # "sid" /\ pid \in PT!Tracked(table) => pid \in PT!Tracked(u)
          /\ ev.what = "sid" /\ ev.actor \notin PT!Tracked(table) /\ pid \in PT!Tracked(table) => pid \in PT!Tracked(u)
          /\ ev = ForkEvent(Self, pid) => pid \in PT!Tracked(u)
      <4>1. ev = ForkEvent(Self, pid) => ev.what = "fork" /\ ev.actor = Self /\ ev.child = pid
        <5>1. /\ ForkEvent(Self, pid).what = "fork" /\ ForkEvent(Self, pid).actor = Self
              /\ ForkEvent(Self, pid).child = pid
          BY <2>6, ForkForm
        <5> QED BY <5>1
      <4>2. ev.what \in {"fork", "sid", "exit"}
        BY <2>4, EventForm
      <4>3. CASE ev.what = "fork"
        BY <2>4, <4>1, <4>3 DEF Took
      <4>4. CASE ev.what = "exit"
        BY <2>4, <4>1, <4>4 DEF Took
      <4>5. CASE ev.what = "sid"
        BY <2>4, <4>1, <4>5 DEF Took
      <4> QED BY <4>2, <4>3, <4>4, <4>5
    <3> QED BY <2>2, <2>4, <3>1
  <2>7. Quashed \/ pid \in PT!Tracked(table) \/ Announced(queue, pid)
    BY <2>1, <2>3 DEF KillInv
  <2>8. (pid \notin Pids => Quashed) /\ (Quashed' <=> Quashed)
    BY <1>0, <1>q, <2>1 DEF Quashed
  <2>9. Watching' /\ (stopping' = 2 => Quashed)
    BY <2>1, <2>3 DEF KillInv, Watching
  <2>10. Quashed \/ pid \in PT!Tracked(u) \/ Announced(Tail(queue), pid)
    BY <2>5, <2>6, <2>7, <2>8
  <2> QED BY <2>1, <2>8, <2>9, <2>10
<1>9. CASE IngestedAll
  <2>1. /\ queue = <<>> /\ UNCHANGED <<svc, starts, losses, strayed, kproc, sig, table, stopping, queue>> /\ Watching /\ Watching'
        /\ (pid # NoPid => pid' = pid) /\ (pid' = pid \/ pid' \in PT!Tracked(table) \/ pid' = NoPid)
    BY <1>9 DEF IngestedAll, FindMain, procs, history, watch, Watching
  <2>2. Kept /\ ~Announced(queue, pid)
    BY <1>0, <1>k, <2>1, AnnouncedKept
  <2>3. CASE pid' = pid
    BY <1>q, <2>1, <2>2, <2>3 DEF KillInv
  <2>4. CASE pid' # pid
    <3>1. pid = NoPid /\ stopping = 0
      BY <2>1, <2>4 DEF PidInv
    <3>2. stopping' # 2
      BY <1>0, <2>1, <3>1
    <3>3. pid' = NoPid => Quashed'
      BY DEF Quashed
    <3> QED BY <2>1, <2>4, <3>2, <3>3
  <2> QED BY <2>3, <2>4
<1>10. CASE IngestError \/ WaitLoss
  <2>1. losses' = losses + 1 /\ losses' = 0
    BY <1>10 DEF IngestError, WaitLoss, Kept, Sound
  <2>2. FALSE
    BY <1>0, <2>1, OneMore
  <2> QED BY <2>2
<1>11. CASE Collect
  <2>1. /\ UNCHANGED <<svc, starts, losses, strayed, kproc, sig, pid, stopping, queue, pc>> /\ pc = "collect"
        /\ PT!Collectable(table) /\ table' = PT!Collect(table)
    BY <1>11 DEF Collect, history
  <2>2. /\ PT!Tracked(table') = PT!Tracked(table) \ {PT!First(table)} /\ kproc[PT!First(table)] = "dead"
    BY <2>1, CollectTracks DEF EventInv, TableOk
  <2>3. Kept /\ Watching
    BY <1>k, <2>1 DEF Watching
  <2>4. Quashed \/ pid \in PT!Tracked(table)
    BY <2>1, <2>3 DEF KillInv
  <2>5. Quashed \/ pid \in PT!Tracked(table')
    BY <2>2, <2>4 DEF Quashed
  <2>6. Watching' /\ (Quashed' <=> Quashed)
    BY <1>q, <2>1 DEF Watching
  <2> QED BY <2>1, <2>3, <2>5, <2>6 DEF KillInv
<1>12. CASE CollectedAll
  <2>1. /\ UNCHANGED <<svc, starts, losses, strayed, kproc, sig, pid, stopping, queue>> /\ pc = "collect"
        /\ \/ pc' = "poll" /\ table' = table
           \/ pc' = "loop" /\ (wstatus # "none" \/ PT!Tracked(table) = {})
    BY <1>12 DEF CollectedAll, Leave, MainEnded, NoneLeft, procs, history, watch
  <2>2. Kept /\ Watching
    BY <1>k, <2>1 DEF Watching
  <2>3. Quashed \/ pid \in PT!Tracked(table)
    BY <2>1, <2>2 DEF KillInv
  <2>4. wstatus # "none" => Quashed
    BY <2>2 DEF PidInv, Quashed
  <2> QED BY <1>q, <2>1, <2>2, <2>3, <2>4 DEF KillInv, Watching
<1>13. CASE WaitIngest \/ WaitOver
  BY <1>13, <1>n DEF WaitIngest, WaitOver, procs, mon, history, Watching
<1>14. ASSUME NEW p \in Pids, NEW c \in Pids, ProcFork(p, c) PROVE Goal
  <2>1. /\ KFork(p, c) /\ queue' = Append(queue, ForkEvent(p, c))
        /\ UNCHANGED <<svc, starts, losses, strayed, state, pid, table, pc, stopping, sig>>
    BY <1>14 DEF ProcFork, KFork, mon, history, watch
  <2>2. Quashed => Quashed'
    BY <2>1, KernelSteps, QuashedStays
  <2>3. ForkEvent(p, c) \in Events
    BY ForkForm
  <2> QED BY <1>0, <1>s, <2>1, <2>2, <2>3, AnnouncedKept
<1>15. ASSUME NEW p \in Pids, ProcSetsid(p) PROVE Goal
  <2>1. /\ kproc' = kproc /\ queue' = Append(queue, SidEvent(p))
        /\ UNCHANGED <<svc, starts, losses, strayed, state, pid, table, pc, stopping, sig>>
    BY <1>15 DEF ProcSetsid, KSetsid, mon, history, watch
  <2>2. SidEvent(p) \in Events
    BY SidForm
  <2> QED BY <1>0, <1>q, <1>s, <2>1, <2>2, AnnouncedKept
<1>16. ASSUME NEW p \in Pids, NEW w \in Statuses, ProcExit(p, w) PROVE Goal
  <2>1. /\ KExit(p, w) /\ queue' = Append(queue, ExitEvent(p, w)) /\ sig' = [sig EXCEPT ![p] = "none"]
        /\ UNCHANGED <<svc, starts, losses, strayed, state, pid, table, pc, stopping>>
    BY <1>16 DEF ProcExit, KExit, mon, history, watch
  <2>2. Onward(kproc, kproc') /\ kproc'[p] = "dead"
    BY <2>1, KernelSteps
  <2>3. pid \in Pids => sig'[pid] = sig[pid] \/ kproc'[pid] = "dead"
    BY <2>1, <2>2 DEF TypeOK
  <2>4. Quashed => Quashed'
    BY <2>1, <2>2, <2>3, QuashedStays
  <2>5. ExitEvent(p, w) \in Events
    BY ExitForm
  <2> QED BY <1>0, <1>s, <2>1, <2>4, <2>5, AnnouncedKept
<1>17. ASSUME NEW p \in Pids, WritePidfile(p) PROVE Goal
  BY <1>17, <1>q, <1>s DEF WritePidfile, mon, history, watch
<1>18. CASE Expire \/ Uptime \/ UNCHANGED vars
  BY <1>18, <1>q, <1>s DEF Expire, Uptime, vars, procs, mon, history, watch
<1> HIDE DEF Goal
<1> QED
  BY <1>1, <1>2, <1>3, <1>4, <1>5, <1>6, <1>7, <1>8, <1>9, <1>10, <1>11, <1>12, <1>13, <1>14, <1>15, <1>16,
     <1>17, <1>18 DEF Next, MonitorStep, ServiceStep

\* When the service is started again its previous main process is gone or has been sent
\* SIGKILL, unless the unit says KillMode=none.
THEOREM OneAtATime == Spec => OneInstance
<1>1. Init => PidInv /\ KillInv
  BY DEF Init, PidInv, KillInv, Quashed, Watching
<1>2. TypeOK /\ StateInv /\ KillInv /\ [Next]_vars =>
        [starts' > starts /\ Sound /\ svc.kill_mode # "none" /\ (svc.type # "forking" \/ starts = 1)
            => pid = NoPid \/ ~Alive(pid) \/ sig[pid] = "KILL"]_vars
  <2> SUFFICES ASSUME TypeOK, StateInv, KillInv, Next, starts' > starts, Sound, svc.kill_mode # "none",
                      svc.type # "forking" \/ starts = 1
               PROVE  pid = NoPid \/ ~Alive(pid) \/ sig[pid] = "KILL"
    OBVIOUS
  <2>1. AtStart
    BY StartsGrow DEF Start
  <2>2. Kept /\ ~Watching /\ state # "dead"
    BY <2>1 DEF Kept, AtStart, StateInv, Watching
  <2> QED BY <2>2 DEF KillInv, Quashed, Alive
<1> QED BY <1>1, <1>2, PidInvNext, KillInvNext, StatesKnown, EventsSound, OrdersKnown, TypeCorrect, PTL
        DEF Spec, OneInstance

-----------------------------------------------------------------------------
(* An empty table *)

INSTANCE WellFoundedInduction

\* The least of a set of numbers.
LEMMA LeastIndex ==
    ASSUME NEW S \in SUBSET Nat, S # {} PROVE \E m \in S : \A n \in S : ~(n < m)
<1>1. PICK m \in S : \A n \in S : <<n, m>> \notin OpToRel(<, Nat)
  BY NatLessThanWellFounded, WFMin
<1>2. ASSUME NEW n \in S, n < m PROVE <<n, m>> \in OpToRel(<, Nat)
  BY <1>2, SMTT(30) DEF OpToRel
<1> QED BY <1>1, <1>2

\* A fork by a process of the service that is still to be read: the process is tracked and
\* alive as far as the table knows, or will be when the event is read.
Awaited(q, t, i) ==
    q[i].what = "fork" /\ q[i].actor # Self =>
        /\ \/ q[i].actor \in PT!Tracked(t) \ PT!ReadyPids(t)
           \/ \E j \in DOMAIN q : j < i /\ Bears(q[j], q[i].actor)
        /\ \A j \in DOMAIN q : j < i => ~Ends(q[j], q[i].actor)

\* Every live process of k is in the table t or will be when the queue q is read.
AllSeen(q, k, t) ==
    /\ \A p \in Pids : k[p] = "alive" => p \in PT!Tracked(t) \/ \E i \in DOMAIN q : Bears(q[i], p)
    /\ \A i \in DOMAIN q : Awaited(q, t, i)

\* One more event.
LEMMA SeenAppend ==
    ASSUME NEW q \in Seq(Events), NEW k, NEW l, NEW t, NEW ev \in Events, AllSeen(q, k, t),
           \A p \in Pids : l[p] = "alive" => k[p] = "alive" \/ Bears(ev, p),
           ev.what = "fork" /\ ev.actor # Self =>
             /\ ev.actor \in PT!Tracked(t) \ PT!ReadyPids(t) \/ \E j \in DOMAIN q : Bears(q[j], ev.actor)
             /\ \A j \in DOMAIN q : ~Ends(q[j], ev.actor)
    PROVE  AllSeen(Append(q, ev), l, t)
<1> DEFINE r == Append(q, ev)
           n == Len(q) + 1
<1>1. /\ \A i \in DOMAIN r : i \in Int /\ (i = n \/ (i \in DOMAIN q /\ r[i] = q[i]))
      /\ \A i \in DOMAIN q : i \in Int /\ i < n /\ i \in DOMAIN r /\ r[i] = q[i]
      /\ r[n] = ev /\ n \in DOMAIN r /\ n \in Int
  <2>1. Added(q, ev, r, n)
    BY Appended
  <2> QED BY <2>1 DEF Added
<1> HIDE DEF r, n
<1>2. ASSUME NEW p \in Pids, l[p] = "alive" PROVE p \in PT!Tracked(t) \/ \E i \in DOMAIN r : Bears(r[i], p)
  <2>1. CASE Bears(ev, p)
    BY <1>1, <2>1
  <2>2. CASE k[p] = "alive"
    BY <1>1, <2>2 DEF AllSeen
  <2> QED BY <1>2, <2>1, <2>2
<1>3. ASSUME NEW i \in DOMAIN r PROVE Awaited(r, t, i)
  <2>1. CASE i = n
    <3>1. ASSUME NEW j \in DOMAIN r, j < i PROVE j \in DOMAIN q /\ r[j] = q[j]
      <4>1. j \in Int /\ n \in Int /\ j < n
        BY <1>1, <2>1, <3>1
      <4>2. j # n
        BY <4>1, LessDiffers
      <4> QED BY <1>1, <4>2
    <3> QED BY <1>1, <2>1, <3>1 DEF Awaited
  <2>2. CASE i # n
    <3>1. i \in DOMAIN q /\ r[i] = q[i] /\ Awaited(q, t, i)
      BY <1>1, <2>2 DEF AllSeen
    <3>2. ASSUME NEW j \in DOMAIN r, j < i PROVE j \in DOMAIN q /\ r[j] = q[j]
      <4>1. j \in Int /\ i \in Int /\ n \in Int /\ i < n
        BY <1>1, <3>1
      <4>2. j # n
        BY <3>2, <4>1, LessApart
      <4> QED BY <1>1, <4>2
    <3> QED BY <1>1, <3>1, <3>2 DEF Awaited
  <2> QED BY <2>1, <2>2
<1>4. AllSeen(r, l, t)
  BY <1>2, <1>3 DEF AllSeen
<1> QED BY <1>4 DEF r

\* One event less.
LEMMA SeenTail ==
    ASSUME NEW q \in Seq(Events), q # <<>>, NEW k, NEW t, NEW u, AllSeen(q, k, t), EventsOk(q, k, t), TableOk(k, t),
           Took(t, u, Head(q)), Head(q).what = "sid" => u = t, PT!Tracked(t) \subseteq Pids
    PROVE  AllSeen(Tail(q), k, u)
<1> DEFINE r == Tail(q)
           ev == Head(q)
<1>1. /\ \A i \in DOMAIN r : i \in Int /\ i + 1 \in DOMAIN q /\ r[i] = q[i + 1] /\ 1 < i + 1
      /\ \A i \in DOMAIN q : i \in Int /\ (i # 1 => i - 1 \in DOMAIN r /\ r[i - 1] = q[i])
      /\ 1 \in DOMAIN q /\ ev = q[1] /\ ev \in Events
  BY Tailed DEF Shifted
<1>2. Took(t, u, ev) /\ (ev.what = "sid" => u = t)
  OBVIOUS
<1> HIDE DEF r, ev
<1>3. /\ \A p : Bears(ev, p) => p \in Pids
      /\ \A p : Bears(ev, p) => p \in PT!Tracked(u) \ PT!ReadyPids(u)
      /\ \A p \in PT!Tracked(t) : p \in PT!Tracked(u)
      /\ \A p \in PT!Tracked(t) \ PT!ReadyPids(t) : Ends(ev, p) \/ p \notin PT!ReadyPids(u)
  <2>0. \A p : Bears(ev, p) => p \in Pids
    BY <1>1, EventForm
  <2>1. CASE ev.what = "fork"
    <3>1. ev.child \in Pids /\ ev.child \notin PT!Tracked(t) /\ ev.child \notin PT!ReadyPids(t)
      <4>1. ev.child \in Pids /\ Bears(ev, ev.child)
        BY <1>1, <2>1, EventForm DEF Bears
      <4> QED BY <1>1, <4>1 DEF EventsOk, TableOk
    <3>2. ev.actor \in PT!Tracked(t) \cup {Self}
      <4>1. Awaited(q, t, 1)
        BY <1>1 DEF AllSeen
      <4>2. \A j \in DOMAIN q : ~(j < 1)
        BY Indices
      <4> QED BY <1>1, <2>1, <4>1, <4>2 DEF Awaited
    <3>3. PT!Tracked(u) = PT!Tracked(t) \cup {ev.child} /\ PT!ReadyPids(u) = PT!ReadyPids(t)
      BY <1>2, <2>1, <3>2 DEF Took
    <3> QED BY <2>0, <3>1, <3>3 DEF Bears
  <2>2. CASE ev.what = "exit"
    <3>1. \A p : ~Bears(ev, p)
      BY <2>2 DEF Bears
    <3>2. PT!Tracked(u) = PT!Tracked(t)
      BY <1>2, <2>2 DEF Took
    <3>3. \A p \in PT!ReadyPids(u) : p \in PT!ReadyPids(t) \/ p = ev.actor
      BY <1>2, <2>2 DEF Took
    <3> QED BY <2>2, <3>1, <3>2, <3>3 DEF Ends
  <2>3. CASE ev.what = "sid"
    BY <1>2, <2>3 DEF Bears
  <2> QED BY <1>1, <2>1, <2>2, <2>3, EventForm
<1>4. ASSUME NEW p \in Pids, k[p] = "alive" PROVE p \in PT!Tracked(u) \/ \E i \in DOMAIN r : Bears(r[i], p)
  <2>1. CASE p \in PT!Tracked(t)
    BY <1>3, <2>1
  <2>2. CASE p \notin PT!Tracked(t)
    <3>1. PICK i \in DOMAIN q : Bears(q[i], p)
      BY <1>4, <2>2 DEF AllSeen
    <3>2. CASE i = 1
      BY <1>1, <1>3, <3>1, <3>2
    <3>3. CASE i # 1
      BY <1>1, <3>1, <3>3
    <3> QED BY <3>2, <3>3
  <2> QED BY <2>1, <2>2
<1>5. ASSUME NEW i \in DOMAIN r PROVE Awaited(r, u, i)
  <2> DEFINE a == r[i].actor
  <2>0. i + 1 \in DOMAIN q /\ r[i] = q[i + 1] /\ i \in Int /\ 1 < i + 1
    BY <1>1
  <2> SUFFICES ASSUME r[i].what = "fork", a # Self
               PROVE  /\ a \in PT!Tracked(u) \ PT!ReadyPids(u) \/ \E j \in DOMAIN r : j < i /\ Bears(r[j], a)
                      /\ \A j \in DOMAIN r : j < i => ~Ends(r[j], a)
    BY DEF Awaited
  <2>1. Awaited(q, t, i + 1)
    BY <2>0 DEF AllSeen
  <2>2. /\ a \in PT!Tracked(t) \ PT!ReadyPids(t) \/ \E j \in DOMAIN q : j < i + 1 /\ Bears(q[j], a)
        /\ \A j \in DOMAIN q : j < i + 1 => ~Ends(q[j], a)
    BY <2>0, <2>1 DEF Awaited
  <2> HIDE DEF a
  <2>3. ASSUME NEW j \in DOMAIN r, j < i PROVE ~Ends(r[j], a)
    <3>1. j + 1 \in DOMAIN q /\ r[j] = q[j + 1] /\ j \in Int
      BY <1>1
    <3>2. j + 1 < i + 1
      BY <2>0, <2>3, <3>1, Shifts
    <3> QED BY <2>2, <3>1, <3>2
  <2>4. CASE a \in PT!Tracked(t) \ PT!ReadyPids(t)
    <3>1. ~Ends(ev, a)
      BY <1>1, <2>0, <2>2
    <3> QED BY <1>3, <2>3, <2>4, <3>1
  <2>5. ASSUME NEW j \in DOMAIN q, j < i + 1, Bears(q[j], a)
        PROVE  a \in PT!Tracked(u) \ PT!ReadyPids(u) \/ \E m \in DOMAIN r : m < i /\ Bears(r[m], a)
    <3>1. CASE j = 1
      BY <1>1, <1>3, <2>5, <3>1
    <3>2. CASE j # 1
      <4>1. j - 1 \in DOMAIN r /\ r[j - 1] = q[j] /\ j \in Int
        BY <1>1, <3>2
      <4>2. j - 1 < i
        BY <2>0, <2>5, <4>1, Shifts
      <4> QED BY <2>5, <4>1, <4>2
    <3> QED BY <3>1, <3>2
  <2> QED BY <2>2, <2>3, <2>4, <2>5
<1>6. AllSeen(r, k, u)
  BY <1>4, <1>5 DEF AllSeen
<1> QED BY <1>6 DEF r

\* A process that was collected was dead.
LEMMA SeenCollect ==
    ASSUME NEW q, NEW k, NEW t, AllSeen(q, k, t), TableOk(k, t), PT!Collectable(t)
    PROVE  AllSeen(q, k, PT!Collect(t))
<1>1. /\ PT!Tracked(PT!Collect(t)) = PT!Tracked(t) \ {PT!First(t)} /\ PT!First(t) \in PT!ReadyPids(t)
      /\ PT!ReadyPids(PT!Collect(t)) = PT!ReadyPids(t) \ {PT!First(t)}
      /\ k[PT!First(t)] = "dead"
  BY CollectTracks DEF TableOk
<1>2. ASSUME NEW i \in DOMAIN q PROVE Awaited(q, PT!Collect(t), i)
  <2>1. Awaited(q, t, i)
    BY DEF AllSeen
  <2> QED BY <1>1, <2>1 DEF Awaited
<1>3. \A p \in Pids : k[p] = "alive" => p \in PT!Tracked(PT!Collect(t)) \/ \E i \in DOMAIN q : Bears(q[i], p)
  BY <1>1 DEF AllSeen
<1> QED BY <1>2, <1>3 DEF AllSeen

\* With an empty table and nothing forked by the monitor on the queue, nobody is alive.
LEMMA NobodyLeft ==
    ASSUME NEW q \in Seq(Events), NEW k, NEW t, AllSeen(q, k, t), PT!Tracked(t) = {},
           \A i \in DOMAIN q : q[i].what = "fork" => q[i].actor # Self
    PROVE  \A p \in Pids : k[p] # "alive"
<1> SUFFICES ASSUME NEW p \in Pids, k[p] = "alive" PROVE FALSE
  OBVIOUS
<1> DEFINE S == {i \in DOMAIN q : q[i].what = "fork"}
<1>1. S \in SUBSET Nat
  BY Indices
<1>2. S # {}
  BY DEF AllSeen, Bears
<1>3. PICK m \in S : \A n \in S : ~(n < m)
  BY <1>1, <1>2, LeastIndex
<1>4. Awaited(q, t, m)
  BY DEF AllSeen
<1>5. PICK j \in DOMAIN q : j < m /\ Bears(q[j], q[m].actor)
  BY <1>4 DEF Awaited
<1>6. j \in S
  BY <1>5 DEF Bears
<1> QED BY <1>3, <1>5, <1>6

\* Invariant: before the service is started there is nothing; between reading events and
\* acting on them nothing the monitor forked is on the queue; and, in the first instance,
\* when no events were lost and no process was dropped, none that lives is overlooked.
LeftInv ==
    /\ starts = 0 => queue = <<>> /\ table = PT!EmptyTable /\ \A p \in Pids : kproc[p] = "unborn"
    /\ losses = 0 /\ pc = "collect" => \A i \in DOMAIN queue : queue[i].what = "fork" => queue[i].actor # Self
    /\ losses = 0 /\ strayed = "none" /\ starts = 1 /\ Watching => AllSeen(queue, kproc, table)

\* It is kept.
LEMMA LeftInvNext == TypeOK /\ EventInv /\ OrderInv /\ LeftInv /\ [Next]_vars => LeftInv'
<1> DEFINE Nothing == starts' = 0 => queue' = <<>> /\ table' = PT!EmptyTable /\ \A p \in Pids : kproc'[p] = "unborn"
           Ours == losses' = 0 /\ pc' = "collect" =>
                     \A i \in DOMAIN queue' : queue'[i].what = "fork" => queue'[i].actor # Self
           Seen == losses' = 0 /\ strayed' = "none" /\ starts' = 1 /\ Watching' => AllSeen(queue', kproc', table')
           Goal == Nothing /\ Ours /\ Seen
<1> SUFFICES ASSUME TypeOK, EventInv, OrderInv, LeftInv, [Next]_vars PROVE Goal
  BY DEF LeftInv
<1>0. /\ queue \in Seq(Events) /\ starts \in Nat /\ losses \in Nat /\ Self \notin Pids
      /\ PT!Tracked(table) \subseteq Pids /\ DOMAIN <<>> = {}
  BY MonitorAssumption, TableParts, CountsType, NoEvents DEF TypeOK, KernelType
<1>w. Watching \/ pc = "wait" => starts # 0
  BY DEF OrderInv, Watching
<1>u. ASSUME UNCHANGED <<starts, losses, strayed, queue, kproc, table>>,
             pc' = "collect" => pc = "collect", Watching' => Watching
      PROVE  Goal
  BY <1>u DEF LeftInv
<1>l. ASSUME starts # 0, starts' = starts, ~Watching' PROVE Goal
  BY <1>l DEF Watching
<1>1. CASE Restarting \/ Remaining \/ Stopping \/ Finish \/ StartFails
  BY <1>1, <1>u DEF Restarting, Remaining, Stopping, Finish, StartFails, procs, mon, history, Watching
<1>2. ASSUME NEW c \in Pids, Start(c) PROVE Goal
  <2>1. /\ starts' = starts + 1 /\ pc' = "poll" /\ table' = table /\ KFork(Self, c)
        /\ kproc' = [kproc EXCEPT ![c] = "alive"] /\ queue' = Append(queue, ForkEvent(Self, c))
    BY <1>2 DEF Start, KFork
  <2>2. starts' # 0 /\ (starts' = 1 => starts = 0)
    BY <1>0, <2>1, OneMore
  <2>3. ASSUME starts = 0 PROVE AllSeen(queue', kproc', table')
    <3>1. queue = <<>> /\ \A p \in Pids : kproc[p] = "unborn"
      BY <2>3 DEF LeftInv
    <3>2. AllSeen(queue, kproc, table)
      BY <1>0, <3>1 DEF AllSeen
    <3>3. /\ ForkEvent(Self, c) \in Events /\ ForkEvent(Self, c).actor = Self /\ Bears(ForkEvent(Self, c), c)
      BY ForkForm
    <3>4. \A p \in Pids : kproc'[p] = "alive" => kproc[p] = "alive" \/ Bears(ForkEvent(Self, c), p)
      BY <2>1, <3>3 DEF TypeOK, KernelType
    <3> QED BY <1>0, <2>1, <3>2, <3>3, <3>4, SeenAppend
  <2> QED BY <2>1, <2>2, <2>3
<1>3. ASSUME NEW cmd \in Commands, WakeAndStay(cmd) PROVE Goal
  BY <1>3, <1>u DEF WakeAndStay, WakeIdle, WakeGrace, WakeKill, monitor_control_socket_ingest, Watching
<1>4. ASSUME NEW cmd \in Commands, WakeAndLeave(cmd) \/ WaitControl(cmd) PROVE Goal
  <2>1. (Watching \/ pc = "wait") /\ starts' = starts /\ ~Watching'
    BY <1>4 DEF WakeAndLeave, WaitControl, Leave, monitor_control_socket_ingest, Watching
  <2> QED BY <1>l, <1>w, <2>1
<1>5. CASE WakeError \/ WaitError
  <2>1. (Watching \/ pc = "wait") /\ starts' = starts /\ ~Watching'
    BY <1>5 DEF WakeError, WaitError, Die, history, Watching
  <2> QED BY <1>l, <1>w, <2>1
<1>6. CASE Ingest
  <2> DEFINE ev == Head(queue)
             u == Ingested(ev, DropsSid)
             sid == ev.what = "sid" /\ ev.actor \in PT!Tracked(table)
  <2>1. /\ queue # <<>> /\ table' = u /\ queue' = Tail(queue) /\ pc = "ingest" /\ pc' = "ingest"
        /\ UNCHANGED <<starts, losses, kproc>>
        /\ strayed' = IF ~sid \/ ~DropsSid THEN strayed
                      ELSE IF pid \in PT!Tracked(table) \ PT!Tracked(u) THEN "main"
                      ELSE IF strayed = "none" THEN "some" ELSE strayed
    BY <1>6 DEF Ingest, procs
  <2>2. starts # 0
    BY <1>w, <2>1 DEF Watching
  <2>3. ASSUME losses' = 0, strayed' = "none", starts' = 1 PROVE AllSeen(queue', kproc', table')
    <3>1. strayed = "none" /\ ~(sid /\ DropsSid)
      BY <2>1, <2>3
    <3>2. AllSeen(queue, kproc, table)
      BY <2>1, <2>3, <3>1 DEF LeftInv, Watching
    <3>3. Took(table, u, ev)
      BY <2>1, EventTaken
    <3>4. ev.what = "sid" => u = table
      BY <3>1 DEF Ingested, PT!Drop
    <3> HIDE DEF u
    <3>5. AllSeen(Tail(queue), kproc, u)
      BY <1>0, <2>1, <3>2, <3>3, <3>4, SeenTail DEF EventInv
    <3> QED BY <2>1, <3>5
  <2> QED BY <2>1, <2>2, <2>3
<1>7. CASE IngestedAll
  <2>1. UNCHANGED <<starts, losses, strayed, queue, kproc, table>> /\ queue = <<>> /\ Watching
    BY <1>7 DEF IngestedAll, procs, history, Watching
  <2> QED BY <1>0, <2>1 DEF LeftInv
<1>8. CASE IngestError \/ WaitLoss
  <2>1. losses' = losses + 1 /\ starts' = starts /\ (Watching \/ pc = "wait")
    BY <1>8 DEF IngestError, WaitLoss, Watching
  <2>2. losses' # 0
    BY <1>0, <2>1, OneMore
  <2> QED BY <1>w, <2>1, <2>2
<1>9. CASE Collect
  <2>1. /\ PT!Collectable(table) /\ table' = PT!Collect(table) /\ Watching
        /\ UNCHANGED <<starts, losses, strayed, queue, kproc, pc>>
    BY <1>9 DEF Collect, history, Watching
  <2>2. AllSeen(queue, kproc, table) => AllSeen(queue, kproc, table')
    BY <2>1, SeenCollect DEF EventInv
  <2> QED BY <1>w, <2>1, <2>2 DEF LeftInv
<1>10. CASE CollectedAll
  <2>1. /\ UNCHANGED <<starts, losses, strayed, queue, kproc>> /\ Watching
        /\ (pc' = "poll" /\ table' = table) \/ pc' = "loop"
    BY <1>10 DEF CollectedAll, Leave, procs, history, Watching
  <2> QED BY <1>l, <1>u, <1>w, <2>1 DEF Watching
<1>11. CASE WaitIngest \/ WaitOver
  <2>1. pc = "wait" /\ starts' = starts /\ ~Watching'
    BY <1>11 DEF WaitIngest, WaitOver, history, Watching
  <2> QED BY <1>l, <1>w, <2>1
<1>12. ASSUME NEW p \in Pids, NEW c \in Pids, ProcFork(p, c) PROVE Goal
  <2>1. /\ kproc[p] = "alive" /\ kproc' = [kproc EXCEPT ![c] = "alive"] /\ queue' = Append(queue, ForkEvent(p, c))
        /\ UNCHANGED <<starts, losses, strayed, table, pc>>
    BY <1>0, <1>12 DEF ProcFork, KFork, CanAct, Alive, mon, history
  <2>2. starts # 0
    BY <2>1 DEF LeftInv
  <2>3. /\ ForkEvent(p, c) \in Events /\ ForkEvent(p, c).actor = p /\ p # Self /\ Bears(ForkEvent(p, c), c)
    BY <1>0, ForkForm
  <2>4. Ours
    <3>1. ASSUME NEW i \in DOMAIN queue' PROVE queue'[i] = ForkEvent(p, c) \/ (i \in DOMAIN queue /\ queue'[i] = queue[i])
      <4>1. Added(queue, ForkEvent(p, c), queue', Len(queue) + 1)
        BY <1>0, <2>1, <2>3, Appended
      <4> QED BY <3>1, <4>1 DEF Added
    <3> QED BY <2>1, <2>3, <3>1 DEF LeftInv
  <2>5. ASSUME AllSeen(queue, kproc, table) PROVE AllSeen(queue', kproc', table)
    <3>1. \A q \in Pids : kproc'[q] = "alive" => kproc[q] = "alive" \/ Bears(ForkEvent(p, c), q)
      BY <2>1, <2>3 DEF TypeOK, KernelType
    <3>2. p \in PT!Tracked(table) \/ \E j \in DOMAIN queue : Bears(queue[j], p)
      BY <2>1, <2>5 DEF AllSeen
    <3>3. p \notin PT!ReadyPids(table) /\ \A j \in DOMAIN queue : ~Ends(queue[j], p)
      BY <2>1 DEF EventInv, TableOk, EventsOk
    <3> QED BY <1>0, <2>1, <2>3, <2>5, <3>1, <3>2, <3>3, SeenAppend
  <2> QED BY <2>1, <2>2, <2>4, <2>5 DEF LeftInv, Watching
<1>13. ASSUME NEW p \in Pids, NEW ev \in Events, kproc[p] = "alive", ev.what # "fork",
              queue' = Append(queue, ev), UNCHANGED <<starts, losses, strayed, table, pc>>,
              \A q \in Pids : kproc'[q] = "alive" => kproc[q] = "alive"
       PROVE  Goal
  <2>1. starts # 0
    BY <1>13 DEF LeftInv
  <2>2. Ours
    <3>1. ASSUME NEW i \in DOMAIN queue' PROVE queue'[i] = ev \/ (i \in DOMAIN queue /\ queue'[i] = queue[i])
      <4>1. Added(queue, ev, queue', Len(queue) + 1)
        BY <1>0, <1>13, Appended
      <4> QED BY <3>1, <4>1 DEF Added
    <3> QED BY <1>13, <3>1 DEF LeftInv
  <2>3. AllSeen(queue, kproc, table) => AllSeen(queue', kproc', table)
    BY <1>0, <1>13, SeenAppend
  <2> QED BY <1>13, <2>1, <2>2, <2>3 DEF LeftInv, Watching
<1>14. ASSUME NEW p \in Pids, ProcSetsid(p) PROVE Goal
  <2>1. /\ kproc[p] = "alive" /\ kproc' = kproc /\ queue' = Append(queue, SidEvent(p))
        /\ UNCHANGED <<starts, losses, strayed, table, pc>>
    BY <1>14 DEF ProcSetsid, KSetsid, Alive, mon, history
  <2>2. SidEvent(p) \in Events /\ SidEvent(p).what # "fork"
    BY SidForm
  <2> QED BY <1>13, <2>1, <2>2
<1>15. ASSUME NEW p \in Pids, NEW w \in Statuses, ProcExit(p, w) PROVE Goal
  <2>1. /\ kproc[p] = "alive" /\ kproc' = [kproc EXCEPT ![p] = "dead"] /\ queue' = Append(queue, ExitEvent(p, w))
        /\ UNCHANGED <<starts, losses, strayed, table, pc>>
    BY <1>15 DEF ProcExit, KExit, Alive, mon, history
  <2>2. ExitEvent(p, w) \in Events /\ ExitEvent(p, w).what # "fork"
    BY ExitForm
  <2>3. \A q \in Pids : kproc'[q] = "alive" => kproc[q] = "alive"
    BY <2>1 DEF TypeOK, KernelType
  <2> QED BY <1>13, <2>1, <2>2, <2>3
<1>16. ASSUME NEW p \in Pids, WritePidfile(p) PROVE Goal
  BY <1>16, <1>u DEF WritePidfile, mon, history, Watching
<1>17. CASE Expire \/ Uptime \/ UNCHANGED vars
  BY <1>17, <1>u DEF Expire, Uptime, vars, procs, mon, history, Watching
<1> HIDE DEF Goal
<1> QED
  BY <1>1, <1>2, <1>3, <1>4, <1>5, <1>6, <1>7, <1>8, <1>9, <1>10, <1>11, <1>12, <1>14, <1>15, <1>16,
     <1>17 DEF Next, MonitorStep, ServiceStep

\* If monitor_watch() finds its table empty, every process of the service has terminated,
\* whatever they forked and however they were orphaned.
THEOREM NoneIsLeft == Spec => NoneLeftTrue
<1>1. Init => LeftInv
  <2>1. DOMAIN <<>> = {}
    BY NoEvents
  <2> QED BY <2>1 DEF Init, KernelInit, LeftInv, Watching
<1>2. TypeOK /\ LeftInv /\ [Next]_vars =>
        [pc = "collect" /\ pc' = "loop" /\ PT!Tracked(table) = {}
            /\ losses = 0 /\ strayed = "none" /\ starts = 1
            => \A p \in Pids : ~Alive(p)]_vars
  <2> SUFFICES ASSUME TypeOK, LeftInv, pc = "collect", PT!Tracked(table) = {},
                      losses = 0, strayed = "none", starts = 1
               PROVE  \A p \in Pids : ~Alive(p)
    OBVIOUS
  <2>1. AllSeen(queue, kproc, table) /\ queue \in Seq(Events)
    BY DEF LeftInv, Watching, TypeOK, KernelType
  <2>2. \A i \in DOMAIN queue : queue[i].what = "fork" => queue[i].actor # Self
    BY DEF LeftInv
  <2>3. \A p \in Pids : kproc[p] # "alive"
    BY <2>1, <2>2, NobodyLeft
  <2> QED BY <2>3 DEF Alive
<1> QED BY <1>1, <1>2, LeftInvNext, EventsSound, OrdersKnown, TypeCorrect, PTL DEF Spec, NoneLeftTrue

-----------------------------------------------------------------------------
(* The end of the watch *)

\* A child of the monitor that queue q tells of is p.
OwnFork(q, p) == \A i \in DOMAIN q : q[i].what = "fork" /\ q[i].actor = Self => q[i].child = p

\* Another event is put on the queue.
LEMMA OwnForkAppend ==
    ASSUME NEW q \in Seq(Events), NEW ev \in Events, NEW p, OwnFork(q, p),
           ev.what = "fork" /\ ev.actor = Self => ev.child = p
    PROVE  OwnFork(Append(q, ev), p)
<1> DEFINE r == Append(q, ev)
<1>1. Added(q, ev, r, Len(q) + 1)
  BY Appended
<1> HIDE DEF r
<1>2. ASSUME NEW i \in DOMAIN r, r[i].what = "fork", r[i].actor = Self PROVE r[i].child = p
  <2>1. r[i] = ev \/ (i \in DOMAIN q /\ r[i] = q[i])
    BY <1>1, <1>2 DEF Added
  <2> QED BY <1>2, <2>1 DEF OwnFork
<1>3. OwnFork(r, p)
  BY <1>2 DEF OwnFork
<1> QED BY <1>3 DEF r

\* The first event is read.
LEMMA OwnForkTail ==
    ASSUME NEW q \in Seq(Events), q # <<>>, NEW p, OwnFork(q, p)
    PROVE  /\ OwnFork(Tail(q), p)
           /\ Head(q).what = "fork" /\ Head(q).actor = Self => Head(q).child = p
<1> DEFINE r == Tail(q)
<1>1. Shifted(q, r) /\ Head(q) = q[1]
  BY Tailed
<1> HIDE DEF r
<1>2. ASSUME NEW i \in DOMAIN r, r[i].what = "fork", r[i].actor = Self PROVE r[i].child = p
  <2>1. i + 1 \in DOMAIN q /\ r[i] = q[i + 1]
    BY <1>1, <1>2 DEF Shifted
  <2> QED BY <1>2, <2>1 DEF OwnFork
<1>3. OwnFork(r, p)
  BY <1>2 DEF OwnFork
<1>4. Head(q).what = "fork" /\ Head(q).actor = Self => Head(q).child = p
  BY <1>1 DEF OwnFork, Shifted
<1> QED BY <1>3, <1>4 DEF r

\* An event that is read leaves a main process p in the table unless it is dropped, and
\* puts nobody but p into an empty one.
LEMMA TookMain ==
    ASSUME NEW t, NEW u, NEW ev \in Events, Took(t, u, ev), NEW p \in Pids,
           PT!Tracked(t) \subseteq Pids,
           ev.what = "fork" /\ ev.actor = Self => ev.child = p,
           p \in PT!Tracked(t) /\ ev.what = "sid" /\ ev.actor \in PT!Tracked(t) => p \in PT!Tracked(u)
    PROVE  /\ p \in PT!Tracked(t) => p \in PT!Tracked(u)
           /\ PT!Tracked(t) = {} => PT!Tracked(u) = {} \/ p \in PT!Tracked(u)
<1>1. CASE ev.what = "fork"
  <2>1. CASE ev.actor \in PT!Tracked(t) \cup {Self}
    <3>1. PT!Tracked(u) = PT!Tracked(t) \cup {ev.child}
      BY <1>1, <2>1 DEF Took
    <3> QED BY <1>1, <2>1, <3>1
  <2>2. CASE ev.actor \notin PT!Tracked(t) \cup {Self}
    BY <1>1, <2>2 DEF Took
  <2> QED BY <2>1, <2>2
<1>2. CASE ev.what = "exit"
  BY <1>2 DEF Took
<1>3. CASE ev.what = "sid"
  BY <1>3 DEF Took
<1> QED BY <1>1, <1>2, <1>3, EventForm

\* Invariant: the first time a service whose main process is its child is watched, nobody but
\* the main process enters an empty table, and if it is not in the table, it has ended, or
\* nothing has been tracked and collected so far: its own fork may be lost with other events.
EndInv ==
    svc.type # "forking" /\ strayed # "main" /\ starts = 1 /\ Watching =>
        /\ pid \in Pids /\ child \in {pid, NoPid}
        /\ OwnFork(queue, pid)
        /\ child = NoPid \/ wstatus # "none" => fate # "none"
        /\ pid \in PT!Tracked(table) \/ fate # "none" \/ (PT!Tracked(table) = {} /\ ~collected)

\* It is kept.
LEMMA EndInvNext == TypeOK /\ EventInv /\ FateInv /\ LeftInv /\ EndInv /\ [Next]_vars => EndInv'
<1> DEFINE Goal == /\ pid' \in Pids /\ child' \in {pid', NoPid}
                   /\ OwnFork(queue', pid')
                   /\ child' = NoPid \/ wstatus' # "none" => fate' # "none"
                   /\ pid' \in PT!Tracked(table') \/ fate' # "none" \/ (PT!Tracked(table') = {} /\ ~collected')
<1> SUFFICES ASSUME TypeOK, EventInv, FateInv, LeftInv, EndInv, [Next]_vars,
                    svc'.type # "forking", strayed' # "main", starts' = 1, Watching'
             PROVE  Goal
  BY DEF EndInv
<1>0. /\ queue \in Seq(Events) /\ kproc \in [Pids -> {"unborn", "alive", "dead"}]
      /\ PT!Tracked(table) \subseteq Pids /\ NoPid \notin Pids /\ Self \notin Pids
      /\ "none" \notin Statuses
  BY TableParts, MonitorAssumption DEF TypeOK, KernelType
<1>w. ASSUME Watching, svc' = svc, starts' = starts, strayed # "main"
      PROVE  /\ pid \in Pids /\ child \in {pid, NoPid}
             /\ OwnFork(queue, pid)
             /\ child = NoPid \/ wstatus # "none" => fate # "none"
             /\ pid \in PT!Tracked(table) \/ fate # "none" \/ (PT!Tracked(table) = {} /\ ~collected)
  BY <1>w DEF EndInv
<1>u. ASSUME Watching, UNCHANGED <<svc, starts, strayed, pid, child, queue, wstatus, fate, table, collected>>
      PROVE  Goal
  BY <1>u, <1>w
<1>1. CASE Restarting \/ Remaining \/ Stopping \/ Finish \/ StartFails
  BY <1>1 DEF Restarting, Remaining, Stopping, Finish, StartFails, Watching
<1>2. ASSUME NEW c \in Pids, Start(c) PROVE Goal
  <2>1. /\ table' = table /\ child' = c /\ pid' = c /\ wstatus' = "none" /\ starts' = starts + 1
        /\ collected' = FALSE /\ queue' = Append(queue, ForkEvent(Self, c))
    BY <1>2 DEF Start, KFork
  <2>2. queue = <<>> /\ PT!Tracked(table) = {}
    <3>1. starts = 0
      BY <2>1, CountsType, OneMore
    <3> QED BY <3>1, EmptyTracks DEF LeftInv
  <2>3. OwnFork(queue, c)
    BY <2>2, NoEvents DEF OwnFork
  <2>4. OwnFork(queue', c)
    <3>1. ForkEvent(Self, c) \in Events /\ ForkEvent(Self, c).child = c
      BY ForkForm
    <3> QED BY <1>0, <2>1, <2>3, <3>1, OwnForkAppend
  <2>5. c # NoPid
    BY <1>0
  <2> QED BY <2>1, <2>2, <2>4, <2>5
<1>3. ASSUME NEW cmd \in Commands, WakeAndStay(cmd) PROVE Goal
  BY <1>3, <1>u DEF WakeAndStay, WakeIdle, WakeGrace, WakeKill, monitor_control_socket_ingest, procs, Watching
<1>4. ASSUME NEW cmd \in Commands, WakeAndLeave(cmd) \/ WaitControl(cmd) PROVE Goal
  BY <1>4 DEF WakeAndLeave, Leave, WaitControl, Watching
<1>5. CASE WakeError \/ WaitError
  BY <1>5 DEF WakeError, WaitError, Die, Watching
<1>6. CASE Ingest
  <2> DEFINE ev == Head(queue)
             u == Ingested(ev, DropsSid)
             sid == ev.what = "sid" /\ ev.actor \in PT!Tracked(table)
  <2>1. /\ queue # <<>> /\ table' = u /\ queue' = Tail(queue) /\ Watching
        /\ UNCHANGED <<svc, starts, fate, pid, child, wstatus, collected>>
        /\ strayed' = IF ~sid \/ ~DropsSid THEN strayed
                      ELSE IF pid \in PT!Tracked(table) \ PT!Tracked(u) THEN "main"
                      ELSE IF strayed = "none" THEN "some" ELSE strayed
    BY <1>6 DEF Ingest, procs, watch, Watching
  <2>2. strayed # "main" /\ (sid /\ DropsSid => ~(pid \in PT!Tracked(table) \ PT!Tracked(u)))
    BY <2>1
  <2>3. /\ ev \in Events /\ Took(table, u, ev)
        /\ ev.what = "sid" /\ ~DropsSid => u = table
    BY <2>1, EventTaken, IngestTakes
  <2> HIDE DEF u, ev
  <2>4. /\ pid \in Pids /\ child \in {pid, NoPid} /\ OwnFork(queue, pid)
        /\ child = NoPid \/ wstatus # "none" => fate # "none"
        /\ pid \in PT!Tracked(table) \/ fate # "none" \/ (PT!Tracked(table) = {} /\ ~collected)
    BY <1>w, <2>1, <2>2
  <2>5. OwnFork(Tail(queue), pid) /\ (ev.what = "fork" /\ ev.actor = Self => ev.child = pid)
    BY <1>0, <2>1, <2>4, OwnForkTail DEF ev
  <2>6. pid \in PT!Tracked(table) /\ sid => pid \in PT!Tracked(u)
    BY <2>2, <2>3
  <2>7. /\ pid \in PT!Tracked(table) => pid \in PT!Tracked(u)
        /\ PT!Tracked(table) = {} => PT!Tracked(u) = {} \/ pid \in PT!Tracked(u)
    BY <1>0, <2>3, <2>4, <2>5, <2>6, TookMain
  <2> QED BY <2>1, <2>4, <2>5, <2>7
<1>7. CASE IngestedAll
  <2>1. /\ UNCHANGED <<svc, starts, strayed, child, queue, wstatus, fate, table, collected>>
        /\ Watching /\ (pid # NoPid => pid' = pid)
    BY <1>7 DEF IngestedAll, FindMain, procs, watch, history, Watching
  <2> QED BY <1>0, <1>w, <2>1
<1>8. CASE IngestError
  <2>1. /\ UNCHANGED <<svc, starts, strayed, child, wstatus, fate, collected>> /\ queue' = <<>>
        /\ Watching /\ table' = table /\ (pid # NoPid => pid' = pid)
    BY <1>8 DEF IngestError, Die, FindMain, procs, watch, Watching
  <2>2. OwnFork(queue', pid)
    BY <2>1, NoEvents DEF OwnFork
  <2> QED BY <1>0, <1>w, <2>1, <2>2
<1>9. CASE Collect
  <2> DEFINE p == PT!First(table)
  <2>1. /\ PT!Collectable(table) /\ table' = PT!Collect(table) /\ Watching
        /\ UNCHANGED <<svc, starts, queue, pid, fate, strayed>>
        /\ child' = IF p = child THEN NoPid ELSE child
        /\ wstatus' = IF p = pid THEN table.ready[p].wstatus ELSE wstatus
    BY <1>9 DEF Collect, history, Watching
  <2>2. /\ p \in PT!Tracked(table) /\ PT!Tracked(table') = PT!Tracked(table) \ {p}
        /\ p \in Pids /\ kproc[p] = "dead" /\ p # NoPid
    <3>1. p \in PT!ReadyPids(table) /\ PT!Tracked(table') = PT!Tracked(table) \ {p}
      BY <2>1, CollectTracks
    <3>2. p \in PT!Tracked(table) /\ kproc[p] = "dead"
      BY <3>1 DEF EventInv, TableOk
    <3> QED BY <1>0, <3>1, <3>2
  <2> HIDE DEF p
  <2>3. /\ pid \in Pids /\ child \in {pid, NoPid} /\ OwnFork(queue, pid)
        /\ child = NoPid \/ wstatus # "none" => fate # "none"
        /\ pid \in PT!Tracked(table) \/ fate # "none"
    BY <1>w, <2>1, <2>2
  <2>4. CASE p = pid
    <3>1. fate # "none"
      BY <2>1, <2>2, <2>3, <2>4 DEF FateInv
    <3>2. child' \in {pid, NoPid}
      BY <2>1, <2>3
    <3> QED BY <2>1, <2>3, <3>1, <3>2
  <2>5. CASE p # pid
    <3>1. wstatus' = wstatus /\ child' = child
      BY <2>1, <2>2, <2>3, <2>5
    <3> QED BY <2>1, <2>2, <2>3, <2>5, <3>1
  <2> QED BY <2>4, <2>5
<1>10. CASE CollectedAll
  BY <1>10, <1>u DEF CollectedAll, Leave, procs, watch, history, Watching
<1>11. CASE WaitIngest \/ WaitOver \/ WaitLoss
  BY <1>11 DEF WaitIngest, WaitOver, WaitLoss, Watching
<1>12. ASSUME NEW ev \in Events, ev.what = "fork" => ev.actor # Self, queue' = Append(queue, ev),
              UNCHANGED <<svc, starts, strayed, pid, child, wstatus, table, collected, pc>>,
              fate # "none" => fate' # "none"
       PROVE  Goal
  <2>1. Watching
    BY <1>12 DEF Watching
  <2>2. OwnFork(queue', pid)
    BY <1>0, <1>w, <1>12, <2>1, OwnForkAppend
  <2> QED BY <1>w, <1>12, <2>1, <2>2
<1>13. ASSUME NEW p \in Pids, NEW c \in Pids, ProcFork(p, c) PROVE Goal
  <2>1. /\ queue' = Append(queue, ForkEvent(p, c))
        /\ UNCHANGED <<svc, starts, strayed, pid, child, wstatus, table, collected, pc, fate>>
    BY <1>13 DEF ProcFork, KFork, mon, watch, history
  <2>2. ForkEvent(p, c) \in Events /\ ForkEvent(p, c).actor # Self
    <3>1. ForkEvent(p, c) \in Events /\ ForkEvent(p, c).actor = p /\ p # Self
      BY <1>0, ForkForm
    <3> QED BY <3>1
  <2> QED BY <1>12, <2>1, <2>2
<1>14. ASSUME NEW p \in Pids, ProcSetsid(p) PROVE Goal
  <2>1. /\ queue' = Append(queue, SidEvent(p))
        /\ UNCHANGED <<svc, starts, strayed, pid, child, wstatus, table, collected, pc, fate>>
    BY <1>14 DEF ProcSetsid, KSetsid, mon, watch, history
  <2>2. SidEvent(p) \in Events /\ SidEvent(p).what # "fork"
    BY SidForm
  <2> QED BY <1>12, <2>1, <2>2
<1>15. ASSUME NEW p \in Pids, NEW w \in Statuses, ProcExit(p, w) PROVE Goal
  <2>1. /\ queue' = Append(queue, ExitEvent(p, w))
        /\ UNCHANGED <<svc, starts, strayed, pid, child, wstatus, table, collected, pc>>
        /\ fate' = IF IsMain(p) THEN w ELSE fate
    BY <1>15 DEF ProcExit, KExit, mon, watch, history
  <2>2. ExitEvent(p, w) \in Events /\ ExitEvent(p, w).what # "fork"
    BY ExitForm
  <2>3. fate # "none" => fate' # "none"
    BY <1>0, <2>1
  <2> QED BY <1>12, <2>1, <2>2, <2>3
<1>16. ASSUME NEW p \in Pids, WritePidfile(p) PROVE Goal
  BY <1>16, <1>u DEF WritePidfile, mon, watch, history, Watching
<1>17. CASE Expire \/ Uptime \/ UNCHANGED vars
  BY <1>17, <1>u DEF Expire, Uptime, vars, procs, mon, watch, history, Watching
<1> HIDE DEF Goal
<1> QED
  BY <1>1, <1>2, <1>3, <1>4, <1>5, <1>6, <1>7, <1>8, <1>9, <1>10, <1>11, <1>13, <1>14, <1>15, <1>16,
     <1>17 DEF Next, MonitorStep, ServiceStep

\* monitor_watch() gives up collecting only when the main process has really ended, even if
\* events were lost the first time the service ran.
THEOREM WatchIsComplete == Spec => WatchedToTheEnd
<1>1. Init => LeftInv
  <2>1. DOMAIN <<>> = {}
    BY NoEvents
  <2> QED BY <2>1 DEF Init, KernelInit, LeftInv, Watching
<1>2. Init => EndInv
  BY DEF Init, EndInv, Watching
<1>3. TypeOK /\ MainInv /\ EndInv /\ [Next]_vars =>
        [pc = "collect" /\ pc' = "loop" /\ svc.type # "forking" /\ strayed # "main"
            /\ (losses = 0 \/ starts = 1)
            => fate # "none"]_vars
  <2> SUFFICES ASSUME MainInv, EndInv, Next, pc = "collect", pc' = "loop",
                      svc.type # "forking", strayed # "main", losses = 0 \/ starts = 1
               PROVE  fate # "none"
    OBVIOUS
  <2>1. CollectedAll
    BY LeavesCollected
  <2>2. Watching /\ (wstatus # "none" \/ (PT!Tracked(table) = {} /\ collected))
    BY <2>1 DEF CollectedAll, MainEnded, NoneLeft, Watching
  <2>3. CASE losses = 0
    BY <2>2, <2>3 DEF MainInv, Sound
  <2>4. CASE starts = 1
    BY <2>2, <2>4 DEF EndInv
  <2> QED BY <2>3, <2>4
<1> QED
  BY <1>1, <1>2, <1>3, LeftInvNext, EndInvNext, MainKnown, FateKnown, EventsSound, OrdersKnown, TypeCorrect, PTL
     DEF Spec, WatchedToTheEnd

=============================================================================
