------------------------------ MODULE RcLinks -------------------------------
(***************************************************************************)
(* systemctl's enable, disable and is-enabled (systemctl/service.c): the   *)
(* rc directories are scanned in turn for links to the service's init      *)
(* script, which are counted, deleted or put right.  Several commands may  *)
(* run at a time; a step is one system call with what follows from it.     *)
(***************************************************************************)
EXTENDS Naturals, FiniteSets

CONSTANTS
    Tasks,            \* systemctl processes
    Ops,              \* what they are asked to do
    FirstRl, LastRl,  \* bound: the runlevels scanned (0 and 6 in the code)
    Dirs              \* the contents a directory may have at first

VARIABLES
    exists,           \* exists[rl]: the directory is there
    dir,              \* dir[rl][n]: what is under name n
    before,           \* history: dir at the beginning
    op, step,
    rl,               \* variables of service_manip() and service_manip_rl()
    listed, seen,     \* names there at opendir(), names readdir() has returned
    name,             \* de->d_name
    sb,               \* whose file the last successful fstatat() saw
    found, bad,       \* bad: ret < 0 in service_manip_rl()
    total,            \* ret in service_manip(), unless negative
    errors            \* the runlevels service_manip_rl() failed for

scan == <<listed, seen, name, sb, found, bad>>
rcvars == <<exists, dir, before, op, step, rl, scan, total, errors>>

Runlevels == FirstRl..LastRl

\* Those service_manip_rl() gives its links, and another.
Names == {"S20", "K80", "odd"}

\* Nothing; a link to the service's script, to another, to none; no link.
Entries == {"none", "ours", "other", "dangling", "file"}

ASSUME RcAssumption ==
    /\ FirstRl \in 0..6 /\ LastRl \in FirstRl..6
    /\ Dirs \subseteq [Names -> Entries] /\ Tasks # {}

\* Startup links where services run, stop links elsewhere.
RightName(r) == IF r \in 2..5 THEN "S20" ELSE "K80"

Put(f, p, x) == [f EXCEPT ![p] = x]

RcInit ==
    /\ exists \in [Runlevels -> BOOLEAN]
    /\ dir \in [Runlevels -> Dirs] /\ before = dir
    /\ op \in [Tasks -> Ops] /\ step = [p \in Tasks |-> "open"]
    /\ rl = [p \in Tasks |-> FirstRl]
    /\ listed = [p \in Tasks |-> {}] /\ seen = [p \in Tasks |-> {}]
    /\ name = [p \in Tasks |-> "none"] /\ sb = [p \in Tasks |-> "unset"]
    /\ found = [p \in Tasks |-> FALSE] /\ bad = [p \in Tasks |-> FALSE]
    /\ total = [p \in Tasks |-> 0] /\ errors = [p \in Tasks |-> {}]

\* service_manip_rl() returns, and service_manip() goes on to the next runlevel.
ReturnRl(p, ok, res) ==
    /\ total' = Put(total, p, IF ok /\ res THEN total[p] + 1 ELSE total[p])
    /\ errors' = Put(errors, p, IF ok THEN errors[p] ELSE errors[p] \cup {rl[p]})
    /\ step' = Put(step, p, IF rl[p] = LastRl THEN "done" ELSE "open")
    /\ rl' = Put(rl, p, IF rl[p] = LastRl THEN FirstRl ELSE rl[p] + 1)
    /\ listed' = Put(listed, p, {}) /\ seen' = Put(seen, p, {})
    /\ name' = Put(name, p, "none") /\ sb' = Put(sb, p, "unset")
    /\ found' = Put(found, p, FALSE) /\ bad' = Put(bad, p, FALSE)
    /\ UNCHANGED <<exists, before, op>>

opendir(p) ==
    /\ step[p] = "open" /\ exists[rl[p]]
    /\ listed' = Put(listed, p, {n \in Names : dir[rl[p]][n] # "none"})
    /\ step' = Put(step, p, "read")
    /\ UNCHANGED <<exists, dir, before, op, rl, seen, name, sb, found, bad, total, errors>>

OpendirFails(p) ==
    /\ step[p] = "open" /\ ~exists[rl[p]]
    /\ ReturnRl(p, FALSE, FALSE)
    /\ UNCHANGED dir
-----------------------------------------------------------------------------
\* readdir() returns a name that was there at first or has been added; of names
\* that have been removed it returns some.
Returned(p, n) ==
    /\ step[p] = "read" /\ n \notin seen[p]
    /\ n \in listed[p] \/ dir[rl[p]][n] # "none"
    /\ seen' = Put(seen, p, seen[p] \cup {n})
    /\ UNCHANGED <<exists, dir, before, op, rl, listed, total, errors>>

\* d_type is not DT_LNK.
SkipFile(p, n) ==
    /\ Returned(p, n) /\ dir[rl[p]][n] = "file"
    /\ UNCHANGED <<step, name, sb, found, bad>>

\* Mutant of Judge: a link with the wrong name is found, too.
JudgeLax(p, n, who) ==
    LET right == n = RightName(rl[p])
        add   == op[p] = "enable"
        wrong == who = "ours" /\ add /\ ~right
        ours  == who = "ours" /\ ~wrong
        stole == who = "other" /\ add /\ right
    IN  /\ found' = Put(found, p, found[p] \/ who = "ours")
        /\ IF wrong \/ stole \/ (ours /\ op[p] = "disable")
           THEN step' = Put(step, p, "unlink") /\ name' = Put(name, p, n)
           ELSE UNCHANGED <<step, name>>

\* Mutant of Judge: another's link with our name is never tolerated.
JudgeThief(p, n, who) ==
    LET right == n = RightName(rl[p])
        add   == op[p] = "enable"
        wrong == who = "ours" /\ add /\ ~right
        ours  == who = "ours" /\ ~wrong
        stole == who = "other" /\ right
    IN  /\ found' = Put(found, p, found[p] \/ ours)
        /\ IF wrong \/ stole \/ (ours /\ op[p] = "disable")
           THEN step' = Put(step, p, "unlink") /\ name' = Put(name, p, n)
           ELSE UNCHANGED <<step, name>>

\* What is made of link n if it leads to the script of who: it is to be deleted if
\* it is ours and has the wrong name, ours and not wanted, or not ours and in the
\* way.
Judge(p, n, who) ==
    LET right == n = RightName(rl[p])
        add   == op[p] = "enable"
        wrong == who = "ours" /\ add /\ ~right
        ours  == who = "ours" /\ ~wrong
        stole == who = "other" /\ add /\ right
    IN  /\ found' = Put(found, p, found[p] \/ ours)
        /\ IF wrong \/ stole \/ (ours /\ op[p] = "disable")
           THEN step' = Put(step, p, "unlink") /\ name' = Put(name, p, n)
           ELSE UNCHANGED <<step, name>>

fstatat(p, n) ==
    /\ Returned(p, n) /\ dir[rl[p]][n] \in {"ours", "other"}
    /\ sb' = Put(sb, p, dir[rl[p]][n])
    /\ Judge(p, n, dir[rl[p]][n])
    /\ UNCHANGED bad

\* ENOENT, because the link is dangling or gone, is passed over: sb is what the last
\* call left there, or what happened to be on the stack.
FstatatNoent(p, n) ==
    /\ Returned(p, n) /\ dir[rl[p]][n] \in {"dangling", "none"}
    /\ \E who \in IF sb[p] = "unset" THEN {"ours", "other"} ELSE {sb[p]} : Judge(p, n, who)
    /\ UNCHANGED <<sb, bad>>

\* Any other error ends the scan.
FstatatFails(p, n) ==
    /\ step[p] = "read" /\ n \in listed[p] \ seen[p] /\ dir[rl[p]][n] # "file"
    /\ ReturnRl(p, FALSE, FALSE)
    /\ UNCHANGED dir

unlinkat(p) ==
    /\ step[p] = "unlink"
    /\ \/ dir' = [dir EXCEPT ![rl[p]][name[p]] = "none"] /\ UNCHANGED bad
       \/ bad' = Put(bad, p, TRUE) /\ UNCHANGED dir
    /\ step' = Put(step, p, "read") /\ name' = Put(name, p, "none")
    /\ UNCHANGED <<exists, before, op, rl, listed, seen, sb, found, total, errors>>

\* readdir() returns NULL: what was there at first has been returned or removed.
AtEnd(p) == step[p] = "read" /\ \A n \in listed[p] \ seen[p] : dir[rl[p]][n] = "none"

Wanted(p) == op[p] = "enable" /\ ~found[p] /\ ~bad[p]

closedir(p) ==
    /\ AtEnd(p) /\ ~Wanted(p)
    /\ ReturnRl(p, ~bad[p], found[p])
    /\ UNCHANGED dir

\* EEXIST is no error.
symlinkat(p) ==
    /\ AtEnd(p) /\ Wanted(p)
    /\ \/ /\ dir' = [dir EXCEPT ![rl[p]][RightName(rl[p])] = IF @ = "none" THEN "ours" ELSE @]
          /\ ReturnRl(p, TRUE, found[p])
       \/ ReturnRl(p, FALSE, FALSE) /\ UNCHANGED dir

RcNext ==
    \E p \in Tasks :
        \/ opendir(p) \/ OpendirFails(p) \/ unlinkat(p) \/ closedir(p) \/ symlinkat(p)
        \/ \E n \in Names :
            SkipFile(p, n) \/ fstatat(p, n) \/ FstatatNoent(p, n) \/ FstatatFails(p, n)

RcSpec == RcInit /\ [][RcNext]_rcvars
-----------------------------------------------------------------------------
AllDone(what) == \A p \in Tasks : op[p] = what /\ step[p] = "done"

Failed == UNION {errors[p] : p \in Tasks}

\* Nothing that service_manip_rl() misjudges or passes over has the name it wants.
Clear(r) == before[r][RightName(r)] \notin {"dangling", "file"}

\* Once the service is enabled, by one command or several at a time, each runlevel
\* that nobody reported an error for has exactly one link to it, with the right name,
\* whatever links there were, dangling ones of other names and what fstatat() says of
\* those included; an error in one runlevel leaves the others right.  These are all
\* seven runlevels, where systemctl.md speaks of 2 through 5 only.
EnableDone ==
    AllDone("enable") =>
        \A r \in Runlevels \ Failed : Clear(r) =>
            \A n \in Names : (dir[r][n] = "ours") <=> (n = RightName(r))

\* Once it is disabled, no runlevel has a link to it, unless an error was reported
\* for it.
DisableDone ==
    AllDone("disable") =>
        \A r \in Runlevels \ Failed : \A n \in Names : dir[r][n] # "ours"

\* Whatever the commands at work, no link to another script, and no file, is deleted
\* or replaced, except a link with the name of one that is to be created.
OthersKept ==
    \A r \in Runlevels, n \in Names :
        before[r][n] = "file"
        \/ (before[r][n] = "other" /\ (n = RightName(r) => \A p \in Tasks : op[p] # "enable"))
        => dir[r][n] = before[r][n]

\* No link dangles, so that none is taken for one of the service's.
NoneDangles == \A r \in Runlevels, n \in Names : before[r][n] # "dangling"

\* If no command changes anything meanwhile, the number of runlevels with a link to
\* the service is returned; links that stop it in runlevels 0, 1 and 6 count, too.
CountTrue ==
    AllDone("is-enabled") /\ NoneDangles =>
        \A p \in Tasks : errors[p] = {} =>
            total[p] = Cardinality({r \in Runlevels : \E n \in Names : dir[r][n] = "ours"})

\* service_manip() does what it is asked to: after enable, disable and is-enabled the
\* links, or the number returned, are right.
CommandsDone == EnableDone /\ DisableDone /\ CountTrue
=============================================================================
