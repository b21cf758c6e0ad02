------------------------------- MODULE Kernel -------------------------------
(***************************************************************************)
(* The environment of a monitor, modelled from how src/ uses it: the       *)
(* processes of the service and the process event connector, which queues  *)
(* one event per fork, setsid and exit on the monitor's netlink socket.    *)
(* Events that procwatch_ingest() ignores (acks, credential and name       *)
(* changes, core dumps, threads, other processes' events) are left out; so *)
(* is exec, whose callback only writes a debug message.                    *)
(***************************************************************************)
EXTENDS Integers, Sequences

CONSTANTS
    Pids,      \* processes a service may consist of
    Self,      \* the monitor
    Statuses,  \* wait statuses
    MaxQueue   \* bound: events the socket holds

VARIABLES
    kproc,     \* kproc[p]: "unborn", "alive" or "dead"
    leader,    \* live processes that have called setsid()
    queue      \* events on the netlink socket, oldest first

kvars == <<kproc, leader, queue>>

Alive(p) == p \in Pids /\ kproc[p] = "alive"

ForkEvent(p, c) == [what |-> "fork", actor |-> p, child |-> c]
SidEvent(p)     == [what |-> "sid",  actor |-> p]
ExitEvent(p, w) == [what |-> "exit", actor |-> p, wstatus |-> w]

Events == [what : {"fork"}, actor : Pids \cup {Self}, child : Pids]
          \cup [what : {"sid"}, actor : Pids]
          \cup [what : {"exit"}, actor : Pids, wstatus : Statuses]

\* The processes an event speaks of.
Named(ev) == IF ev.what = "fork" THEN {ev.actor, ev.child} ELSE {ev.actor}

KernelType ==
    /\ kproc \in [Pids -> {"unborn", "alive", "dead"}]
    /\ leader \subseteq Pids
    /\ queue \in Seq(Events)

KernelInit ==
    /\ kproc = [p \in Pids |-> "unborn"]
    /\ leader = {}
    /\ queue = <<>>

Room == Len(queue) < MaxQueue

\* p (a live process or the monitor) forks c.  The monitor is not reading while it
\* forks, so its own event is not held up by the bound.
KFork(p, c) ==
    /\ p = Self \/ (Alive(p) /\ Room)
    /\ kproc[c] = "unborn"
    /\ kproc' = [kproc EXCEPT ![c] = "alive"]
    /\ queue' = Append(queue, ForkEvent(p, c))
    /\ UNCHANGED leader

\* p starts a session of its own.
KSetsid(p) ==
    /\ Alive(p) /\ p \notin leader /\ Room
    /\ leader' = leader \cup {p}
    /\ queue' = Append(queue, SidEvent(p))
    /\ UNCHANGED kproc

\* p terminates with wait status w.
KExit(p, w) ==
    /\ Alive(p) /\ Room
    /\ kproc' = [kproc EXCEPT ![p] = "dead"]
    /\ leader' = leader \ {p}
    /\ queue' = Append(queue, ExitEvent(p, w))
=============================================================================
