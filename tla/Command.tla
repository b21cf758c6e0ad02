------------------------------ MODULE Command -------------------------------
(***************************************************************************)
(* command.c: a command line of a unit made into a struct command, run in  *)
(* a process of its own by command_run(), and the PID file.                *)
(*                                                                         *)
(* The forked process is the child of ForkReport; its function is here     *)
(* command_exec_func(), one system call per step, or, for command_mon-     *)
(* itor(), a monitor, of which only the report matters.                    *)
(***************************************************************************)
EXTENDS ExitCodes, Sequences

VARIABLES
    self,          \* the user that runs sysvrun; 0 is the superuser
    cmd,           \* the struct command, NoCommand if there is none
    func,          \* what was forked last: "none", "exec", "monitor"
    todo,          \* system calls that command_exec_func() has yet to make
    proc,          \* credentials and surroundings of the forked process
    wstatus,       \* how the program ended, Running before
    fault,         \* history: a system call failed for no reason of the unit's
    daemonize, parent, result, inter, child, code, ready, pipe, writers

report == <<daemonize, parent, result, inter, child, code, ready, pipe, writers>>
command == <<cmd, func, todo, proc, wstatus, report>>

ExitCode == [chroot |-> EXIT_CHROOT, chdir |-> EXIT_CHDIR, setregid |-> EXIT_GROUP,
             setgroups |-> EXIT_GROUP, setreuid |-> EXIT_USER, execve |-> EXIT_EXEC]

FR == INSTANCE ForkReport

Running == -1
None == -1              \* a key that is not given
Unknown == -2           \* a user or group that does not exist
DEFAULT_UMASK == 18     \* 0022
-----------------------------------------------------------------------------
(* command_from_service() *)

\* A unit u has keys rootdir ("none", "/", "dir", "gone"), workdir ("none", "dir",
\* "gone", "~"), user, group, umask, pidfile ("none", "path", "bad").  A command line l has a number of words,
\* the flags of its first word, and a program: "there", "missing" (a path to nothing)
\* or "nowhere" (a name that is not found in PATH).
NoLine == [words |-> None, flags |-> {}, where |-> "nowhere"]
NoCommand == [built |-> FALSE]

\* command_resolve_path(): a process enters the unit's directories first.
Resolvable(u) ==
    /\ u.rootdir = "none" \/ (u.rootdir \in {"/", "dir"} /\ self = 0)
    /\ u.workdir \in {"none", "dir"}

UmaskOk(u) == u.umask = None \/ u.umask \in 0 .. 511

Buildable(u, l) ==
    /\ l.words > 0
    /\ Resolvable(u) /\ l.where # "nowhere" /\ u.pidfile # "bad"
    /\ "@" \in l.flags => l.words > 1
    /\ u.user # Unknown /\ u.group # Unknown
    /\ UmaskOk(u)

\* Zero, that of the superuser, also stands for a key that is not given.
IdOf(n) == IF n = None THEN 0 ELSE n

Built(u, l) ==
    [built |-> TRUE, rootdir |-> u.rootdir, workdir |-> u.workdir,
     uid |-> IdOf(u.user), gid |-> IdOf(u.group), flags |-> l.flags, where |-> l.where,
     umask |-> IF u.umask = None THEN DEFAULT_UMASK ELSE u.umask,
     pidfile |-> u.pidfile]

\* errno: "" after success.
command_from_service(u, l, errno) ==
    \/ /\ errno = "ENOENT" /\ l.words = None
       /\ cmd' = NoCommand /\ UNCHANGED fault
    \/ /\ errno = "" /\ l.words # None /\ Buildable(u, l)
       /\ cmd' = Built(u, l) /\ UNCHANGED fault
    \/ /\ errno = "EINVAL" /\ l.words # None
       /\ cmd' = NoCommand /\ fault' = (fault \/ Buildable(u, l))
-----------------------------------------------------------------------------
(* Forking *)

Fresh == [root |-> "/", cwd |-> "/", uid |-> self, gid |-> self, groups |-> {self},
          umask |-> None, prog |-> FALSE]

Idle ==
    /\ func = "none" /\ todo = <<>> /\ proc = Fresh /\ wstatus = Running
    /\ daemonize = FALSE /\ parent = "done" /\ result = 0 /\ inter = "none"
    /\ child = "none" /\ code = 0 /\ ready = FALSE /\ pipe = <<>> /\ writers = {}

\* Mutant of ExecSteps: the user is switched to before the groups.
ExecStepsSwapped == <<"chroot", "chdir", "setreuid", "setregid", "setgroups", "umask", "execve">>

\* The order of system calls in command_exec_func().
ExecSteps == <<"chroot", "chdir", "setregid", "setgroups", "setreuid", "umask", "execve">>

\* Mutant of Needed: a "+" command gives up its groups all the same.
NeededPlusLost(t) ==
    CASE t = "chroot"                    -> cmd.rootdir # "none"
      [] t \in {"setregid", "setgroups"} -> cmd.gid # 0
      [] t = "setreuid"                  -> cmd.uid # 0 /\ "+" \notin cmd.flags
      [] OTHER                           -> TRUE

Needed(t) ==
    CASE t = "chroot"                    -> cmd.rootdir # "none"
      [] t \in {"setregid", "setgroups"} -> cmd.gid # 0 /\ "+" \notin cmd.flags
      [] t = "setreuid"                  -> cmd.uid # 0 /\ "+" \notin cmd.flags
      [] OTHER                           -> TRUE

\* fork_function(command_exec_func) or daemonize_function(monitor_func).
Call(f) ==
    /\ func' = f
    /\ todo' = IF f = "exec" THEN ExecSteps ELSE <<>>
    /\ proc' = Fresh /\ wstatus' = Running
    /\ daemonize' = (f = "monitor") /\ parent' = "fork" /\ result' = 0
    /\ inter' = "none" /\ child' = "none" /\ code' = 0 /\ ready' = FALSE
    /\ pipe' = <<>> /\ writers' = {}
    /\ UNCHANGED cmd
-----------------------------------------------------------------------------
(* command_exec_func() *)

Executing == child = "running" /\ func = "exec" /\ ~ready

\* What the kernel refuses.  The program was looked up inside the root directory, but
\* its path has the root directory's before it, and leads nowhere once that is entered,
\* unless it is "/".
Refused(t) ==
    CASE t = "setregid"  -> proc.uid # 0 /\ proc.gid # cmd.gid
      [] t = "setgroups" -> proc.uid # 0
      [] t = "setreuid"  -> proc.uid # 0 /\ proc.uid # cmd.uid
      [] t = "chroot" -> proc.uid # 0 \/ cmd.rootdir = "gone"
      [] t = "chdir"  -> cmd.workdir \notin {"none", "dir"}
      [] t = "execve" -> cmd.where # "there" \/ proc.root = "dir"
      [] OTHER        -> FALSE

Workdir == IF cmd.workdir = "dir" THEN "dir" ELSE "/"

After(t) ==
    [root   |-> IF t = "chroot" THEN cmd.rootdir ELSE proc.root,
     cwd    |-> IF t = "chroot" THEN "/" ELSE IF t = "chdir" THEN Workdir ELSE proc.cwd,
     uid    |-> IF t = "setreuid" THEN cmd.uid ELSE proc.uid,
     gid    |-> IF t = "setregid" THEN cmd.gid ELSE proc.gid,
     groups |-> IF t = "setgroups" THEN {cmd.gid} ELSE proc.groups,
     umask  |-> IF t = "umask" THEN cmd.umask ELSE proc.umask,
     prog   |-> (t = "execve" \/ proc.prog)]

\* A system call is not needed, or succeeds; execve() closes the pipe.
ExecStep ==
    /\ Executing
    /\ IF Needed(Head(todo)) THEN ~Refused(Head(todo)) /\ proc' = After(Head(todo)) ELSE UNCHANGED proc
    /\ todo' = Tail(todo)
    /\ IF Head(todo) = "execve" THEN FR!report_ready ELSE UNCHANGED report
    /\ UNCHANGED <<self, cmd, func, wstatus, fault>>

\* It fails, and its code is returned.
ExecFails ==
    /\ Executing /\ Head(todo) # "umask" /\ Needed(Head(todo))
    /\ fault' = (fault \/ ~Refused(Head(todo)))
    /\ FR!Fail(ExitCode[Head(todo)])
    /\ UNCHANGED <<self, cmd, func, todo, proc, wstatus>>

\* The process ends: the program with a status of its own, killed with one that
\* is not zero.  For the pipe it is the same.
ProgramExits(w) ==
    /\ func = "exec" /\ ready /\ FR!Killed
    /\ wstatus' = w
    /\ UNCHANGED <<self, cmd, func, todo, proc, fault>>

ChildKilled(f) ==
    /\ FR!Killed
    /\ wstatus' = 9 /\ fault' = f
    /\ UNCHANGED <<self, cmd, func, todo, proc>>

\* df_child() exits with the code of the function, or because it cannot write.
ChildExits ==
    /\ wstatus' = IF child = "born" THEN 256 ELSE 256 * code
    /\ FR!ChildExits \/ FR!WritePidFails
    /\ UNCHANGED <<self, cmd, func, todo, proc, fault>>

\* The parent, the intermediate process, and the child's first report.
ReportStep ==
    /\ FR!ParentStep \/ FR!InterStep \/ FR!WritePid
    /\ fault' = (fault \/ (parent = "fork" /\ parent' = "done")
                       \/ (inter = "alive" /\ inter' = "dead" /\ child = "none"))
    /\ UNCHANGED <<self, cmd, func, todo, proc, wstatus>>

\* command_run(): the fork has failed, or the child has ended.
RunReturned == parent = "done" /\ (result < 0 \/ child = "dead")

\* Mutant of RunResult: the status is not looked at.
RunResultLost == IF result < 0 THEN result ELSE 0

\* A code, or the status of the child.
RunResult == IF result < 0 THEN result ELSE wstatus
-----------------------------------------------------------------------------
(* PID files *)

\* The contents of a PID file: nothing there, not a number, zero, a PID.
PidFiles == {"absent", "bad", "zero", "pid"}

\* Mutant of command_kill: a file that cannot be read is like one that is not there.
command_kill_lax(file, alive, errno) ==
    CASE cmd.pidfile = "none" \/ file \in {"absent", "zero", "bad"} -> errno = "ENOENT"
      [] file = "pid" /\ ~alive -> errno = "ESRCH"
      [] OTHER                  -> errno = "" \/ (errno = "EPERM" /\ self # 0)

\* command_getpid() and command_kill_impl(): the process that the file names may be
\* alive or not.  errno is "" if it is signalled.
command_kill(file, alive, errno) ==
    \/ (cmd.pidfile = "none" \/ file \in {"absent", "zero"}) /\ errno = "ENOENT"
    \/ cmd.pidfile # "none" /\ file = "bad" /\ errno = "EINVAL"
    \/ cmd.pidfile # "none" /\ file = "pid" /\ ~alive /\ errno = "ESRCH"
    \/ /\ cmd.pidfile # "none" /\ file = "pid" /\ alive
       /\ errno = "" \/ (errno = "EPERM" /\ self # 0)
=============================================================================
