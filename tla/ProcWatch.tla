----------------------------- MODULE ProcWatch ------------------------------
(***************************************************************************)
(* procwatch.c: the table of descendants, kept up to date from the kernel's *)
(* process events.  One variable per field of struct process; an entry not *)
(* in the table holds default values.  The netlink socket may overflow:    *)
(* the events on it are then lost and the stream is reopened.              *)
(***************************************************************************)
EXTENDS Kernel

CONSTANTS
    InitPid,    \* process 1
    NoPid,      \* no process
    Running     \* wstatus of a process that has not exited (-1)

VARIABLES
    processes,  \* pids in the hash table
    ppid,
    sid,
    children,   \* child lists, as sets
    wstatus,
    ready,      \* processes to be collected
    lost        \* history: events were lost since the table was last empty

tvars == <<processes, ppid, sid, children, wstatus, ready>>
vars == <<kvars, tvars, lost>>

All == Pids \cup {Self, InitPid}

ASSUME ProcWatchAssumption ==
    /\ Self \notin Pids /\ InitPid \notin Pids /\ Self # InitPid
    /\ Running \notin Statuses

Descendants == processes \ {Self, InitPid}
-----------------------------------------------------------------------------
\* processes_init(): init and self are their own parents and nobody's children.
\* The monitor's session is that of the process that daemonized it, which has
\* ended and is no process of the model: NoPid.
TableInit ==
    /\ processes = {InitPid, Self}
    /\ ppid = [p \in All |-> IF p \in {InitPid, Self} THEN p ELSE NoPid]
    /\ sid = [p \in All |-> IF p = InitPid THEN InitPid ELSE NoPid]
    /\ children = [p \in All |-> {}]
    /\ wstatus = [p \in All |-> Running]
    /\ ready = <<>>

\* procwatch_drain(): processes_fini(), then processes_init().
Drain ==
    /\ processes' = {InitPid, Self}
    /\ ppid' = [p \in All |-> IF p \in {InitPid, Self} THEN p ELSE NoPid]
    /\ sid' = [p \in All |-> IF p = InitPid THEN InitPid ELSE NoPid]
    /\ children' = [p \in All |-> {}]
    /\ wstatus' = [p \in All |-> Running]
    /\ ready' = <<>>
    /\ lost' = FALSE
    /\ UNCHANGED kvars

\* The child lists after process_unparent(pid).
Unparented(pid) ==
    IF ppid[pid] \in processes
    THEN [children EXCEPT ![ppid[pid]] = @ \ {pid}] ELSE children

\* The child lists after process_reparent_children(pid).
Reparented(pid) ==
    [children EXCEPT ![pid] = {}, ![InitPid] = @ \cup children[pid]]

\* Remove the entries in gone from the table.
Forget(gone, kids) ==
    /\ processes' = processes \ gone
    /\ ppid' = [p \in All |-> IF p \in gone THEN NoPid ELSE ppid[p]]
    /\ sid' = [p \in All |-> IF p \in gone THEN NoPid ELSE sid[p]]
    /\ children' = [p \in All |-> IF p \in gone THEN {} ELSE kids[p]]
    /\ wstatus' = [p \in All |-> IF p \in gone THEN Running ELSE wstatus[p]]

\* Mutant of process_insert: the parent's child list is not updated.
process_insert_unlisted(pid, parent) ==
    IF pid \notin processes /\ parent \in processes
    THEN /\ processes' = processes \cup {pid}
         /\ ppid' = [ppid EXCEPT ![pid] = parent]
         /\ sid' = [sid EXCEPT ![pid] = sid[parent]]
         /\ UNCHANGED <<children, wstatus, ready>>
    ELSE UNCHANGED tvars

\* process_insert(pid, parent, 0), as called for a fork.  A pid that is already
\* in the table keeps its entry (the call is an error or changes nothing).
process_insert(pid, parent) ==
    IF pid \notin processes /\ parent \in processes
    THEN /\ processes' = processes \cup {pid}
         /\ ppid' = [ppid EXCEPT ![pid] = parent]
         /\ sid' = [sid EXCEPT ![pid] = sid[parent]]
         /\ children' = [children EXCEPT ![parent] = @ \cup {pid}]
         /\ UNCHANGED <<wstatus, ready>>
    ELSE UNCHANGED tvars

\* The processes process_drop_recursive() reaches from pid by the child lists.
Reached(pid) ==
    {q \in processes :
        \A S \in SUBSET processes :
            (pid \in S /\ \A p \in S : children[p] \subseteq S) => q \in S}

\* The entries in gone leave the ready list; the others, on it once each, stay in
\* their order.
Unqueue(gone) ==
    \E n \in 0 .. Len(ready) : \E q \in [1 .. n -> Pids] :
        /\ {q[i] : i \in 1 .. n} = {ready[i] : i \in DOMAIN ready} \ gone
        /\ \A i, j \in 1 .. n : i < j =>
                \E a, b \in DOMAIN ready : a < b /\ ready[a] = q[i] /\ ready[b] = q[j]
        /\ ready' = q

\* Mutant of process_drop: the children are reparented to init instead of dropped.
process_drop_orphaning(pid) ==
    /\ processes' = processes \ {pid}
    /\ ppid' = [p \in All |-> IF p = pid THEN NoPid
                              ELSE IF p \in children[pid] THEN InitPid ELSE ppid[p]]
    /\ sid' = [sid EXCEPT ![pid] = NoPid]
    /\ children' = [p \in All |-> IF p = pid THEN {} ELSE Reparented(pid)[p] \ {pid}]
    /\ wstatus' = [wstatus EXCEPT ![pid] = Running]
    /\ Unqueue({pid})

\* The process leaves its parent's list, and the table together with its descendants.
process_drop(pid) ==
    /\ Forget(Reached(pid), Unparented(pid))
    /\ Unqueue(Reached(pid))

\* Mutant of process_exit: the wait status is not recorded.
process_exit_unrecorded(pid, w) ==
    /\ children' = Reparented(pid)
    /\ ppid' = [p \in All |-> IF p \in children[pid] THEN InitPid ELSE ppid[p]]
    /\ ready' = Append(ready, pid)
    /\ UNCHANGED <<processes, sid, wstatus>>

process_exit(pid, w) ==
    /\ wstatus' = [wstatus EXCEPT ![pid] = w]
    /\ children' = Reparented(pid)
    /\ ppid' = [p \in All |-> IF p \in children[pid] THEN InitPid ELSE ppid[p]]
    /\ ready' = Append(ready, pid)
    /\ UNCHANGED <<processes, sid>>
-----------------------------------------------------------------------------
\* procwatch_ingest(): one event off the socket.  Events of processes that are
\* not in the table are ignored.
IngestIgnored ==
    /\ queue # <<>> /\ Head(queue).actor \notin processes
    /\ UNCHANGED tvars

IngestFork ==
    /\ queue # <<>> /\ Head(queue).what = "fork"
    /\ Head(queue).actor \in processes
    /\ process_insert(Head(queue).child, Head(queue).actor)

\* The callback sees the new session and decides whether to keep the process.
IngestSid ==
    /\ queue # <<>> /\ Head(queue).what = "sid"
    /\ LET p == Head(queue).actor IN
       /\ p \in processes
       /\ \/ /\ sid' = [sid EXCEPT ![p] = p]
             /\ UNCHANGED <<processes, ppid, children, wstatus, ready>>
          \/ process_drop(p)

IngestExit ==
    /\ queue # <<>> /\ Head(queue).what = "exit"
    /\ Head(queue).actor \in processes
    /\ process_exit(Head(queue).actor, Head(queue).wstatus)

procwatch_ingest ==
    /\ IngestIgnored \/ IngestFork \/ IngestSid \/ IngestExit
    /\ queue' = Tail(queue)
    /\ UNCHANGED <<kproc, leader, lost>>

\* process_collect(), and the caller's process_destroy().
process_collect ==
    /\ ready # <<>>
    /\ Forget({Head(ready)}, Unparented(Head(ready)))
    /\ ready' = Tail(ready)
    /\ UNCHANGED <<kvars, lost>>

\* The receive fails because the socket overflowed; procwatch_reconnect()
\* closes it and opens a new one.  Nothing resynchronises the table.
procwatch_reconnect ==
    /\ queue # <<>>
    /\ queue' = <<>>
    /\ lost' = TRUE
    /\ UNCHANGED <<kproc, leader, tvars>>
-----------------------------------------------------------------------------
\* The kernel may give a dead process's number to a new one.  Numbers are handed
\* out in a cycle, so not while an event of the old process is still queued or
\* it waits to be collected; but a process whose exit was lost may still be in
\* the table.
KReuse(p) ==
    /\ kproc[p] = "dead"
    /\ \A i \in DOMAIN ready : ready[i] # p
    /\ \A i \in DOMAIN queue : p \notin Named(queue[i])
    /\ kproc' = [kproc EXCEPT ![p] = "unborn"]
    /\ UNCHANGED <<leader, queue>>

KernelStep ==
    /\ \/ \E p \in Pids \cup {Self}, c \in Pids : KFork(p, c)
       \/ \E p \in Pids : KSetsid(p) \/ KReuse(p)
       \/ \E p \in Pids, w \in Statuses : KExit(p, w)
    /\ UNCHANGED <<tvars, lost>>

Init == KernelInit /\ TableInit /\ lost = FALSE

Next == KernelStep \/ procwatch_ingest \/ process_collect \/ Drain \/ procwatch_reconnect

Spec == Init /\ [][Next]_vars
-----------------------------------------------------------------------------
TypeOK ==
    /\ KernelType
    /\ processes \subseteq All /\ {Self, InitPid} \subseteq processes
    /\ ppid \in [All -> All \cup {NoPid}]
    /\ sid \in [All -> All \cup {NoPid}]
    /\ children \in [All -> SUBSET Pids]
    /\ wstatus \in [All -> Statuses \cup {Running}]
    /\ ready \in Seq(Pids)
    /\ lost \in BOOLEAN

\* The parent pointers and the child lists describe the same forest, whatever
\* forks, exits, session changes, losses and collections came before: every
\* tracked process is on exactly the list of its recorded parent, and that
\* parent is in the table.  process_drop_recursive() and process_destroy() free
\* entries by walking the lists, so an entry on two lists, or on none, would be
\* freed twice or looked up after it was freed.
Forest ==
    /\ \A p \in processes \ {Self, InitPid} :
            ppid[p] \in processes /\ p \in children[ppid[p]]
    /\ \A p \in All : \A c \in children[p] :
            p \in processes /\ c \in processes /\ ppid[c] = p

\* An entry is on the ready list at most once, is in the table, has a wait
\* status and no children, so process_collect() hands out every process once
\* and the entries it removes orphan nobody.
ReadyOnce ==
    /\ \A i, j \in DOMAIN ready : ready[i] = ready[j] => i = j
    /\ \A i \in DOMAIN ready :
            ready[i] \in processes /\ wstatus[ready[i]] # Running /\ children[ready[i]] = {}

\* The data structures of procwatch.c are sound, whatever events came in what order,
\* and whatever was lost: the forest, the ready list, and what their fields hold.
Consistent == TypeOK /\ Forest /\ ReadyOnce

\* Unless events were lost, a process the table takes for running is alive or
\* its exit event is still to be read: the monitor never waits for, or sends a
\* signal to, a process that is gone.  Draining the table makes up for a loss.
NoGhosts ==
    ~lost => \A p \in Descendants :
        wstatus[p] = Running =>
            \/ Alive(p)
            \/ \E i \in DOMAIN queue : queue[i].what = "exit" /\ queue[i].actor = p

Ready == {ready[i] : i \in DOMAIN ready}

\* The elements before x in sequence s.
Before(s, x) == LET at == CHOOSE i \in DOMAIN s : s[i] = x IN {s[i] : i \in 1 .. (at - 1)}

\* The table seen by its user.
TableView ==
    [ppid  |-> [p \in Descendants |-> ppid[p]],
     ready |-> [p \in Ready |-> [wstatus |-> wstatus[p], after |-> Before(ready, p)]]]

PT == INSTANCE ProcTable WITH table <- TableView

\* The pointers and lists of procwatch.c implement the table of ProcTable.
ImplementsTable == PT!Spec
=============================================================================
