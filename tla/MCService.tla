----------------------------- MODULE MCService ------------------------------
(***************************************************************************)
(* Service for TLC: units that differ from a plain one in what the verb    *)
(* looks at, and requirements in a chain, a diamond and a circle.          *)
(***************************************************************************)
EXTENDS Service

CONSTANTS a, b, c, x    \* services; x is not installed

MCCodes == {EXIT_FAILURE} \cup {ExitCode[t] : t \in DOMAIN ExitCode}

Line(n, f, w) == [words |-> n, flags |-> f, where |-> w]
Good == Line(1, {}, "there")

Plain ==
    [start |-> Good, stop |-> NoLine, reload |-> NoLine, rootdir |-> "none",
     workdir |-> "none", user |-> None, group |-> None, umask |-> None,
     pidfile |-> "none", killmode |-> "process", requires |-> <<>>, old |-> FALSE]

Only(u) == [s \in Services |-> IF s = a THEN u ELSE Plain]

Reloads ==
    {[Plain EXCEPT !.reload = Line(n, f, w)] :
        n \in {0, 1, 2}, f \in {{}, {"@"}}, w \in {"there", "missing", "nowhere"}}
    \cup {[Plain EXCEPT !.reload = Line(1, f, "there"), !.user = u, !.group = g] :
            f \in {{}, {"+"}}, u \in {None, 100, Unknown}, g \in {None, 100}}
    \cup {[Plain EXCEPT !.reload = Good, !.rootdir = r, !.workdir = w, !.user = 100, !.group = 100] :
            r \in {"none", "/", "dir", "gone"}, w \in {"none", "dir", "~"}}
    \cup {[Plain EXCEPT !.reload = Good, !.umask = m] : m \in {0, 511, 512}}
    \cup {Plain}

Stops ==
    {[Plain EXCEPT !.stop = l, !.pidfile = p] :
        l \in {NoLine, Good, Line(0, {}, "there")}, p \in {"none", "path", "bad"}}
    \cup {[Plain EXCEPT !.pidfile = p, !.old = TRUE] : p \in {"none", "path"}}
    \cup {[Plain EXCEPT !.pidfile = "path", !.killmode = "none"]}

Requiring(q, r) ==
    [s \in Services |-> [Plain EXCEPT !.requires = IF s = a THEN q ELSE IF s = b THEN r ELSE <<>>]]
Chains == {<<<<>>, <<>>>>, <<<<b>>, <<c>>>>, <<<<b, c>>, <<>>>>, <<<<x, b>>, <<>>>>, <<<<b>>, <<a>>>>}

By(s, v, units) == {[verb |-> v, unit |-> Only(u), self |-> s, busy |-> {a}] : u \in units}

Verbs ==
    By(0, "reload", Reloads) \cup By(1000, "reload", Reloads) \cup By(0, "stop", Stops)
    \cup By(1000, "stop", {[Plain EXCEPT !.pidfile = "path"]})
    \cup By(0, "status", {[Plain EXCEPT !.pidfile = p] : p \in {"none", "path", "bad"}})
    \cup By(0, "restart", {Plain, [Plain EXCEPT !.pidfile = "path"]})

Starts ==
    {[verb |-> "start", unit |-> Requiring(q[1], q[2]), self |-> 0, busy |-> {s}] :
        q \in Chains, s \in Services}

MCCases == Verbs \cup Starts
=============================================================================
