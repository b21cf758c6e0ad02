----------------------------- MODULE ForkReport -----------------------------
(***************************************************************************)
(* fork.c: fork_function() and daemonize_function() run a function in a    *)
(* process of its own and learn from the report pipe how it fared.  The    *)
(* parent reads the child's PID and then, if the function fails, its code; *)
(* that the pipe is closed without a code means success.  daemonize_func-  *)
(* tion() puts an intermediate process between the two.                    *)
(***************************************************************************)
EXTENDS ExitCodes, Sequences

VARIABLES
    daemonize,
    parent,       \* see ParentPCs
    result,       \* what df_parent() returns: ChildPid or minus an exit code
    inter,        \* the intermediate process: "none", "alive", "dead"
    child,        \* see ChildPCs
    code,         \* what the function returned, 0 before
    ready,        \* history: the function has reported success
    pipe,         \* what has been written and not read
    writers       \* who holds the writing end

vars == <<daemonize, parent, result, inter, child, code, ready, pipe, writers>>

ChildPid == 1000          \* any positive number

ParentPCs == {"fork", "reap", "first", "second", "collect", "done"}
ChildPCs == {"none", "born", "running", "returned", "dead"}

Abs(n) == IF n < 0 THEN -n ELSE n
-----------------------------------------------------------------------------
(* df_parent() *)

\* Mutant of Fork: the parent keeps its own copy of the writing end.
ForkHolding ==
    /\ parent = "fork"
    /\ parent' = IF daemonize THEN "reap" ELSE "first"
    /\ IF daemonize
       THEN inter' = "alive" /\ writers' = {"inter", "parent"} /\ UNCHANGED child
       ELSE child' = "born" /\ writers' = {"child", "parent"} /\ UNCHANGED inter
    /\ UNCHANGED <<daemonize, result, code, ready, pipe>>

\* The pipe is made, the other process forked, the parent's copy of the end closed.
Fork ==
    /\ parent = "fork"
    /\ parent' = IF daemonize THEN "reap" ELSE "first"
    /\ IF daemonize
       THEN inter' = "alive" /\ writers' = {"inter"} /\ UNCHANGED child
       ELSE child' = "born" /\ writers' = {"child"} /\ UNCHANGED inter
    /\ UNCHANGED <<daemonize, result, code, ready, pipe>>

Return(res) == parent' = "done" /\ result' = res

\* pipe() or fork() fails.
ForkFails ==
    /\ parent = "fork"
    /\ Return(-EXIT_FAILURE)
    /\ UNCHANGED <<daemonize, inter, child, code, ready, pipe, writers>>

\* waitpid() for the intermediate process.
Reap ==
    /\ parent = "reap" /\ inter = "dead"
    /\ parent' = "first"
    /\ UNCHANGED <<daemonize, result, inter, child, code, ready, pipe, writers>>

\* The first report: the PID, or the end of the file.  A read() of the pipe does not fail:
\* its end is open, it blocks, and no signal has a handler; nor is a report read in parts.
ReadFirst ==
    /\ parent = "first"
    /\ \/ pipe # <<>> /\ pipe' = Tail(pipe) /\ parent' = "second" /\ UNCHANGED result
       \/ pipe = <<>> /\ writers = {} /\ Return(-EXIT_FAILURE) /\ UNCHANGED pipe
    /\ UNCHANGED <<daemonize, inter, child, code, ready, writers>>

\* The second report: the code, or the end of the file.
ReadSecond ==
    /\ parent = "second"
    /\ \/ /\ pipe # <<>>
          /\ pipe' = Tail(pipe) /\ parent' = "collect" /\ result' = -Abs(Head(pipe))
       \/ pipe = <<>> /\ writers = {} /\ Return(ChildPid) /\ UNCHANGED pipe
    /\ UNCHANGED <<daemonize, inter, child, code, ready, writers>>

\* Ten attempts to collect the child, which may outlive them.
Collect ==
    /\ parent = "collect"
    /\ parent' = "done"
    /\ UNCHANGED <<daemonize, result, inter, child, code, ready, pipe, writers>>
-----------------------------------------------------------------------------
(* df_inter() *)

InterForks ==
    /\ inter = "alive" /\ child = "none"
    /\ child' = "born" /\ writers' = writers \cup {"child"}
    /\ UNCHANGED <<daemonize, parent, result, inter, code, ready, pipe>>

\* It exits, having forked the child, or because something went wrong before.
InterExits ==
    /\ inter = "alive"
    /\ inter' = "dead" /\ writers' = writers \ {"inter"}
    /\ UNCHANGED <<daemonize, parent, result, child, code, ready, pipe>>
-----------------------------------------------------------------------------
(* df_child() *)

Die == child' = "dead" /\ writers' = writers \ {"child"}

WritePid ==
    /\ child = "born"
    /\ child' = "running" /\ pipe' = Append(pipe, ChildPid)
    /\ UNCHANGED <<daemonize, parent, result, inter, code, ready, writers>>

WritePidFails ==
    /\ child = "born"
    /\ Die
    /\ UNCHANGED <<daemonize, parent, result, inter, code, ready, pipe>>

\* report_ready(), or a successful execve(): the end is closed.
report_ready ==
    /\ child = "running"
    /\ ready' = TRUE /\ writers' = writers \ {"child"}
    /\ UNCHANGED <<daemonize, parent, result, inter, child, code, pipe>>

\* The function returns zero, and the child exits.
Succeed ==
    /\ child = "running"
    /\ ready' = TRUE /\ Die
    /\ UNCHANGED <<daemonize, parent, result, inter, code, pipe>>

\* Mutant of Fail: the code only becomes the exit status.
FailUnwritten(c) ==
    /\ child = "running"
    /\ child' = "returned" /\ code' = c
    /\ UNCHANGED <<daemonize, parent, result, inter, ready, pipe, writers>>

\* It returns a code, which is written: to the pipe, or to /dev/null once ready.
Fail(c) ==
    /\ child = "running"
    /\ child' = "returned" /\ code' = c
    /\ pipe' = IF "child" \in writers THEN Append(pipe, c) ELSE pipe
    /\ UNCHANGED <<daemonize, parent, result, inter, ready, writers>>

ChildExits ==
    /\ child = "returned"
    /\ Die
    /\ UNCHANGED <<daemonize, parent, result, inter, code, ready, pipe>>

\* The child is killed by a signal.
Killed ==
    /\ child \in {"born", "running"}
    /\ Die
    /\ UNCHANGED <<daemonize, parent, result, inter, code, ready, pipe>>
-----------------------------------------------------------------------------
Init ==
    /\ daemonize \in BOOLEAN
    /\ parent = "fork" /\ result = 0
    /\ inter = "none" /\ child = "none" /\ code = 0 /\ ready = FALSE
    /\ pipe = <<>> /\ writers = {}

ParentStep == Fork \/ ForkFails \/ Reap \/ ReadFirst \/ ReadSecond \/ Collect
InterStep == InterForks \/ InterExits
ChildReports == report_ready \/ Succeed \/ \E c \in Codes : Fail(c)
ChildStep == WritePid \/ WritePidFails \/ ChildReports \/ ChildExits \/ Killed

Next == ParentStep \/ InterStep \/ ChildStep

Spec == Init /\ [][Next]_vars
-----------------------------------------------------------------------------
TypeOK ==
    /\ daemonize \in BOOLEAN /\ ready \in BOOLEAN
    /\ parent \in ParentPCs /\ child \in ChildPCs /\ inter \in {"none", "alive", "dead"}
    /\ result \in {0, ChildPid} \cup {-Abs(c) : c \in Codes \cup {EXIT_FAILURE}}
    /\ code \in Codes \cup {0}
    /\ pipe \in {<<>>} \cup {<<n>> : n \in Codes \cup {ChildPid}} \cup {<<ChildPid, c>> : c \in Codes}
    /\ writers \subseteq {"parent", "inter", "child"}

\* The parent returns the child's PID only if the function has reported success, by
\* returning zero, by report_ready() or by executing a program; or if the child was
\* killed, which looks the same through the pipe.
SuccessTruth ==
    parent = "done" /\ result = ChildPid => ready \/ (child = "dead" /\ code = 0)

\* It returns a negative number only if the function failed and had not reported
\* success, with the function's code, or if no function was run to its end: in no
\* order of the steps is a code lost, made up or taken for a PID.
FailureTruth ==
    parent = "done" /\ result # ChildPid =>
        result < 0 /\ ~ready /\ (code # 0 => result = -Abs(code))

\* What the parent has not read of the report, and what it has learnt.
Unread ==
    /\ parent \in {"fork", "reap", "first"} =>
         \/ child \in {"none", "born"} /\ pipe = <<>>
         \/ child = "dead" /\ code = 0 /\ ~ready /\ pipe = <<>>
         \/ child \notin {"none", "born"} /\ (code = 0 \/ ready) /\ pipe = <<ChildPid>>
         \/ code # 0 /\ ~ready /\ pipe = <<ChildPid, code>>
    /\ parent = "second" =>
         \/ child \notin {"none", "born"} /\ (code = 0 \/ ready) /\ pipe = <<>>
         \/ code # 0 /\ ~ready /\ pipe = <<code>>
    /\ parent = "collect" => code # 0 /\ ~ready /\ pipe = <<>> /\ result = -Abs(code)
    /\ parent = "done" =>
         /\ pipe = <<>>
         /\ \/ result = ChildPid /\ (ready \/ (child = "dead" /\ code = 0))
            \/ result = -Abs(code) /\ code # 0 /\ ~ready
            \/ result = -EXIT_FAILURE /\ code = 0 /\ ~ready /\ child \in {"none", "dead"}
    /\ parent \notin {"collect", "done"} => result = 0

\* Inductive strengthening of SuccessTruth and FailureTruth: who holds the pipe, and
\* what is in it, given how far the parent and the child are.
ReportInv ==
    /\ daemonize \in BOOLEAN /\ ready \in BOOLEAN
    /\ parent \in ParentPCs /\ child \in ChildPCs /\ inter \in {"none", "alive", "dead"}
    /\ code \in Codes \cup {0} /\ writers \subseteq {"inter", "child"}
    /\ "child" \in writers <=> child \in {"born", "running", "returned"} /\ ~ready
    /\ "inter" \in writers <=> inter = "alive"
    /\ child \in {"none", "born"} => ~ready
    /\ child \in {"none", "born", "running"} => code = 0
    /\ child = "returned" => code # 0
    /\ parent = "fork" => inter = "none" /\ child = "none"
    /\ inter = "alive" => parent = "reap"
    /\ Unread
=============================================================================
