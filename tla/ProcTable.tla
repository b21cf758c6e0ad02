----------------------------- MODULE ProcTable ------------------------------
(***************************************************************************)
(* What the procwatch subsystem promises its user, the service monitor: a  *)
(* table of tracked descendants with their recorded parents, and a queue   *)
(* of those that have terminated and wait to be collected.  Self and init  *)
(* are always in the C table and are left out of this one.                 *)
(*                                                                         *)
(* ProcWatch implements this specification with the child lists and the    *)
(* parent pointers of procwatch.c; Monitor is built on its operators.      *)
(***************************************************************************)
CONSTANTS
    Pids,      \* processes a service may consist of
    Self,      \* the monitor
    InitPid,   \* process 1
    Statuses   \* wait statuses

VARIABLE table

\* ppid maps each tracked process to its recorded parent.  ready maps each one
\* that waits to be collected to its status and to those queued before it.
Table == [ppid  : UNION {[S -> Pids \cup {Self, InitPid}] : S \in SUBSET Pids},
          ready : UNION {[S -> [wstatus : Statuses, after : SUBSET Pids]] : S \in SUBSET Pids}]

EmptyTable == [ppid |-> [p \in {} |-> InitPid], ready |-> [p \in {} |-> {}]]

Tracked(t) == DOMAIN t.ppid

ReadyPids(t) == DOMAIN t.ready

\* process_insert(): a new process is tracked if its parent is.
Insert(t, pid, ppid) ==
    IF pid \in Tracked(t) \/ ppid \notin Tracked(t) \cup {Self} THEN t
    ELSE [ppid  |-> [p \in Tracked(t) \cup {pid} |-> IF p = pid THEN ppid ELSE t.ppid[p]],
          ready |-> t.ready]

\* Reparent the children of pid to init.
Orphan(t, pid) ==
    [p \in Tracked(t) |-> IF t.ppid[p] = pid THEN InitPid ELSE t.ppid[p]]

\* Mutant of Exit: the children go with their parent instead of to init.
ExitFamily(t, pid, wstatus) ==
    IF pid \notin Tracked(t) THEN t
    ELSE [ppid  |-> [p \in {q \in Tracked(t) : t.ppid[q] # pid} |-> t.ppid[p]],
          ready |-> [p \in ReadyPids(t) \cup {pid} |->
                        IF p = pid THEN [wstatus |-> wstatus, after |-> ReadyPids(t)]
                        ELSE t.ready[p]]]

\* process_exit(): the process joins the end of the queue.
Exit(t, pid, wstatus) ==
    IF pid \notin Tracked(t) THEN t
    ELSE [ppid  |-> Orphan(t, pid),
          ready |-> [p \in ReadyPids(t) \cup {pid} |->
                        IF p = pid THEN [wstatus |-> wstatus, after |-> ReadyPids(t)]
                        ELSE t.ready[p]]]

\* pid and its recorded descendants: the least set closed under "child of".
Subtree(t, pid) ==
    {q \in Tracked(t) :
        \A S \in SUBSET Tracked(t) :
            (pid \in S /\ \A c \in Tracked(t) : t.ppid[c] \in S => c \in S) => q \in S}

Without(t, gone) ==
    [ppid  |-> [p \in Tracked(t) \ gone |-> t.ppid[p]],
     ready |-> [p \in ReadyPids(t) \ gone |->
                   [wstatus |-> t.ready[p].wstatus, after |-> t.ready[p].after \ gone]]]

\* process_drop(): stop tracking a process and its descendants.
Drop(t, pid) == IF pid \in Tracked(t) THEN Without(t, Subtree(t, pid)) ELSE t

\* process_collect() has something to return.
Collectable(t) == \E p \in ReadyPids(t) : t.ready[p].after = {}

First(t) == CHOOSE p \in ReadyPids(t) : t.ready[p].after = {}

\* process_collect(): the first process in the queue leaves the table.
Collect(t) == Without(t, {First(t)})
-----------------------------------------------------------------------------
Init == table = EmptyTable

Next ==
    \/ \E c \in Pids, p \in Pids \cup {Self} : table' = Insert(table, c, p)
    \/ \E p \in Pids, w \in Statuses : p \notin ReadyPids(table) /\ table' = Exit(table, p, w)
    \/ \E p \in Pids : table' = Drop(table, p)
    \/ Collectable(table) /\ table' = Collect(table)
    \/ table' = EmptyTable

Spec == Init /\ [][Next]_table
=============================================================================
