----------------------------- MODULE Systemctl ------------------------------
(***************************************************************************)
(* The commands of systemctl (systemctl/start-stop.c, reload.c, status.c,  *)
(* enable-disable.c, show.c), given by several people at a time.  Each one *)
(* goes through the services it is given; it asks the init script for the  *)
(* status, where the command calls for that, and then has it do something. *)
(* An invocation of the script (service_invoke()) is one step.  The links  *)
(* of RcLinks are abstracted to whether there are any.                     *)
(***************************************************************************)
EXTENDS Integers, Sequences

CONSTANTS
    Users,
    Services,    \* those there is an init script for
    Missing,     \* a name there is none for
    Commands,    \* what the users may ask for
    MaxArgs      \* bound: arguments of a command

VARIABLES
    run,         \* run[s]: the service is running
    links,       \* links[s]: it has links in the rc directories
    cmd, args,   \* cmd changes as start_stop() and reload() change theirs
    i, ret, pc, enabled,
    code,        \* exit code of the process, Pending while it runs
    given,       \* history: the command that was given
    failed, worked,  \* history: an operation on a service failed, succeeded
    sawup, sawdown   \* history: services seen running, not running, since the
                     \* operation on them began

locals == <<cmd, i, ret, pc, enabled, code, failed, worked>>
vars == <<run, links, args, locals, given, sawup, sawdown>>

Pending == 99
EXIT_FAILURE == 1
NotRunning == 3

ASSUME SystemctlAssumption == Missing \notin Services /\ MaxArgs \in Nat \ {0}

Asking == {"start", "stop", "try-restart", "try-reload-or-restart", "status", "is-active"}
AnyOf == {"is-enabled", "is-active"}

Set(f, u, x) == [f EXCEPT ![u] = x]

svc(u) == args[u][i[u]]

\* The values of pc while a service is operated on; the others are find and done.
Working == {"links", "status", "act", "reload"}

\* status_main() assumes failure for is-enabled and is-active, the others success.
Init ==
    /\ run \in [Services -> BOOLEAN] /\ links \in [Services -> BOOLEAN]
    /\ given \in [Users -> Commands]
    /\ cmd = [u \in Users |-> IF given[u] = "reload-or-try-restart"
                              THEN "try-reload-or-restart" ELSE given[u]]
    /\ args \in [Users -> UNION {[1..n -> Services \cup {Missing}] : n \in 1..MaxArgs}]
    /\ i = [u \in Users |-> 1]
    /\ ret = [u \in Users |-> IF cmd[u] \in AnyOf THEN NotRunning ELSE 0]
    /\ pc = [u \in Users |-> "find"] /\ enabled = [u \in Users |-> FALSE]
    /\ code = [u \in Users |-> Pending]
    /\ failed = [u \in Users |-> FALSE] /\ worked = [u \in Users |-> FALSE]
    /\ sawup = [u \in Users |-> {}] /\ sawdown = [u \in Users |-> {}]

\* History: what the users who are at work on service s could have seen.
Witness ==
    LET at(u, s) == pc'[u] \in Working /\ s = args[u][i'[u]]
        ends(u, s) == pc[u] \in Working /\ s = svc(u)
    IN  /\ sawup' = [u \in Users |->
                sawup[u] \cup {s \in Services : run'[s] /\ (at(u, s) \/ ends(u, s))}]
        /\ sawdown' = [u \in Users |->
                sawdown[u] \cup {s \in Services : ~run'[s] /\ (at(u, s) \/ ends(u, s))}]
-----------------------------------------------------------------------------
(* The init script, modelled as systemctl takes it to be: conforming to the   *)
(* Linux Standard Base.  res < 0 stands for an invocation that failed or for  *)
(* a script that was killed.                                                  *)

Script(s, what, res) ==
    /\ UNCHANGED links
    /\ \/ res = -1 /\ run' \in IF what \in {"status", "reload", "show"} THEN {run}
                               ELSE {Set(run, s, b) : b \in BOOLEAN}
       \/ /\ what = "status" /\ res = (IF run[s] THEN 0 ELSE NotRunning)
          /\ UNCHANGED run
       \/ /\ what = "reload" /\ res \in IF run[s] THEN {0, EXIT_FAILURE} ELSE {7}
          /\ UNCHANGED run
       \/ /\ what = "show" /\ res \in {0, EXIT_FAILURE}
          /\ UNCHANGED run
       \/ /\ what \in {"start", "restart"} /\ res = 0
          /\ run' = Set(run, s, TRUE)
       \/ /\ what = "stop" /\ res = 0
          /\ run' = Set(run, s, FALSE)
       \/ /\ what \in {"start", "stop", "restart"} /\ res = EXIT_FAILURE
          /\ run' \in {run, Set(run, s, FALSE)}

Results == {-1, 0, EXIT_FAILURE, NotRunning, 7}

\* The service ends of its own accord.
Crash(s) ==
    /\ run[s]
    /\ run' = Set(run, s, FALSE)
    /\ UNCHANGED <<links, locals>>
-----------------------------------------------------------------------------
\* Mutant of Result: the last operation's result is returned.
ResultLast(u, res) ==
    /\ ret' = Set(ret, u, res)
    /\ failed' = Set(failed, u, failed[u] \/ res # 0)
    /\ worked' = Set(worked, u, worked[u] \/ res = 0)
    /\ i' = Set(i, u, i[u] + 1) /\ pc' = Set(pc, u, "find")
    /\ cmd' = Set(cmd, u, IF given[u] = "reload-or-try-restart"
                          THEN "try-reload-or-restart" ELSE given[u])
    /\ UNCHANGED <<enabled, code>>
\* start_stop(), reload(), status() or enable_disable() returns res to the loop
\* over the services.
Result(u, res) ==
    /\ ret' = Set(ret, u, IF cmd[u] \in AnyOf THEN (IF res = 0 THEN 0 ELSE ret[u])
                          ELSE IF res # 0 THEN res ELSE ret[u])
    /\ failed' = Set(failed, u, failed[u] \/ res # 0)
    /\ worked' = Set(worked, u, worked[u] \/ res = 0)
    /\ i' = Set(i, u, i[u] + 1) /\ pc' = Set(pc, u, "find")
    /\ cmd' = Set(cmd, u, IF given[u] = "reload-or-try-restart"
                          THEN "try-reload-or-restart" ELSE given[u])
    /\ UNCHANGED <<enabled, code>>

\* On with the operation, as command what.
Proceed(u, to, what) ==
    /\ pc' = Set(pc, u, to) /\ cmd' = Set(cmd, u, what)
    /\ UNCHANGED <<i, ret, code, failed, worked>>

\* What the operation on a service begins with.
Dispatch(c) ==
    CASE c \in {"enable", "disable", "is-enabled", "status"} -> "links"
      [] c \in Asking                                        -> "status"
      [] c \in {"reload", "reload-or-restart"}               -> "reload"
      [] OTHER                                               -> "act"

\* The init script is there; or it is not, and the command ends.
service_find(u) ==
    /\ pc[u] = "find" /\ i[u] <= Len(args[u])
    /\ IF svc(u) = Missing
       THEN /\ code' = Set(code, u, EXIT_FAILURE) /\ pc' = Set(pc, u, "done")
            /\ UNCHANGED <<cmd, i, ret, failed, worked>>
       ELSE Proceed(u, Dispatch(cmd[u]), cmd[u])
    /\ enabled' = Set(enabled, u, FALSE)
    /\ UNCHANGED <<run, links>>

\* The loop is over.
Return(u) ==
    /\ pc[u] = "find" /\ i[u] > Len(args[u])
    /\ code' = Set(code, u, ret[u]) /\ pc' = Set(pc, u, "done")
    /\ UNCHANGED <<run, links, cmd, i, ret, enabled, failed, worked>>

\* service_enable(), service_disable(); after an error some links may be changed.
EnableDisable(u) ==
    /\ pc[u] = "links" /\ cmd[u] \in {"enable", "disable"}
    /\ \/ /\ links' = Set(links, svc(u), cmd[u] = "enable")
          /\ Result(u, 0)
       \/ /\ links' \in {Set(links, svc(u), b) : b \in BOOLEAN}
          /\ Result(u, EXIT_FAILURE)
    /\ UNCHANGED run

\* service_is_enabled()
IsEnabled(u) ==
    /\ pc[u] = "links" /\ cmd[u] \in {"is-enabled", "status"}
    /\ \/ Result(u, EXIT_FAILURE)
       \/ cmd[u] = "is-enabled" /\ Result(u, IF links[svc(u)] THEN 0 ELSE 1)
       \/ /\ cmd[u] = "status"
          /\ enabled' = Set(enabled, u, links[svc(u)])
          /\ Proceed(u, "status", "status")
    /\ UNCHANGED <<run, links>>

\* status and is-active report whether the service is running; status says 3 or 4
\* if it is not.
ReportStatus(u) ==
    /\ pc[u] = "status" /\ cmd[u] \in {"status", "is-active"}
    /\ \E res \in Results :
        /\ Script(svc(u), "status", res)
        /\ Result(u, CASE res < 0 -> EXIT_FAILURE
                       [] res = 0 -> 0
                       [] OTHER   -> IF cmd[u] = "status" /\ ~enabled[u] THEN 4 ELSE NotRunning)

\* Mutant of StartStop: try-restart restarts a service that is not running.
StartStopTrying(u) ==
    /\ pc[u] = "status" /\ cmd[u] \in {"start", "stop", "try-restart"}
    /\ \E res \in Results :
        /\ Script(svc(u), "status", res)
        /\ CASE res < 0 -> Result(u, EXIT_FAILURE)
             [] OTHER   -> /\ UNCHANGED enabled
                           /\ Proceed(u, "act", IF cmd[u] = "try-restart" THEN "restart" ELSE cmd[u])

\* start does nothing if the service is running; stop and try-restart do nothing
\* if it is not.
StartStop(u) ==
    /\ pc[u] = "status" /\ cmd[u] \in {"start", "stop", "try-restart"}
    /\ \E res \in Results :
        /\ Script(svc(u), "status", res)
        /\ CASE res < 0 -> Result(u, EXIT_FAILURE)
             [] res >= 0 /\ (res = 0) = (cmd[u] = "start") -> Result(u, 0)
             [] OTHER   -> /\ UNCHANGED enabled
                           /\ Proceed(u, "act", IF cmd[u] = "try-restart" THEN "restart" ELSE cmd[u])

\* try-reload-or-restart becomes reload-or-restart if the service is running.
TryReload(u) ==
    /\ pc[u] = "status" /\ cmd[u] = "try-reload-or-restart"
    /\ \E res \in Results :
        /\ Script(svc(u), "status", res)
        /\ CASE res < 0 -> Result(u, EXIT_FAILURE)
             [] res > 0 -> Result(u, 0)
             [] OTHER   -> UNCHANGED enabled /\ Proceed(u, "reload", "reload-or-restart")

\* Mutant of Act: the script's exit status is not looked at.
ActDeaf(u) ==
    /\ pc[u] = "act" /\ cmd[u] # "show"
    /\ \E res \in Results :
        /\ Script(svc(u), cmd[u], res)
        /\ Result(u, IF res < 0 THEN EXIT_FAILURE ELSE 0)

\* start, stop, restart: the script's exit status is passed on.
Act(u) ==
    /\ pc[u] = "act" /\ cmd[u] # "show"
    /\ \E res \in Results :
        /\ Script(svc(u), cmd[u], res)
        /\ Result(u, IF res < 0 THEN EXIT_FAILURE ELSE res)

Show(u) ==
    /\ pc[u] = "act" /\ cmd[u] = "show"
    /\ \E res \in Results : Script(svc(u), "show", res) /\ Result(u, res)

\* reload, after which reload-or-restart may have to restart the service.
Reload(u) ==
    /\ pc[u] = "reload"
    /\ \E res \in Results :
        /\ Script(svc(u), "reload", res)
        /\ CASE res < 0 -> Result(u, EXIT_FAILURE)
             [] res > 0 /\ cmd[u] = "reload-or-restart" ->
                    UNCHANGED enabled /\ Proceed(u, "act", "restart")
             [] OTHER   -> Result(u, res)

UserStep(u) ==
    \/ service_find(u) \/ Return(u) \/ EnableDisable(u) \/ IsEnabled(u)
    \/ ReportStatus(u) \/ StartStop(u) \/ TryReload(u) \/ Act(u) \/ Show(u) \/ Reload(u)

Next ==
    /\ (\E u \in Users : UserStep(u)) \/ (\E s \in Services : Crash(s))
    /\ Witness
    /\ UNCHANGED <<args, given>>

Spec == Init /\ [][Next]_vars
-----------------------------------------------------------------------------
\* The services a user's command was given.
Given(u) == {args[u][n] : n \in DOMAIN args[u]}

\* A command that ends with success means something for every service it was
\* given, whatever others did to them meanwhile: each was seen running after
\* start, restart and reload-or-restart, and seen not running after stop; at least
\* one was seen running after is-active.
SuccessMeans ==
    \A u \in Users : code[u] = 0 =>
        /\ given[u] \in {"start", "restart", "reload-or-restart", "status"} => Given(u) \subseteq sawup[u]
        /\ given[u] = "stop" => Given(u) \subseteq sawdown[u]
        /\ given[u] = "is-active" => Given(u) \cap sawup[u] # {}

\* Over several services the exit code is zero if and only if all the operations
\* succeeded; if and only if one of them did, for is-enabled and is-active.
CodeTrue ==
    \A u \in Users : code[u] # Pending /\ Missing \notin Given(u) =>
        (code[u] = 0) <=> IF given[u] \in AnyOf THEN worked[u] ELSE ~failed[u]

\* The try- commands start a service only if it was seen running while they were at
\* work on it, so that one that was not running all the while is left alone.
TryNeverStarts ==
    [][\A u \in Users, s \in Services :
        /\ given[u] \in {"try-restart", "try-reload-or-restart", "reload-or-try-restart"}
        /\ pc'[u] # pc[u] /\ run'[s] /\ ~run[s]
        => s \in sawup[u]]_vars
=============================================================================
