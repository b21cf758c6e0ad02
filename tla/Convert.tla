------------------------------- MODULE Convert -------------------------------
(***************************************************************************)
(* sysvrun convert and sysvrun show: a process finds and loads a service   *)
(* (service_find(), service_from_file()), renders it, and writes the text  *)
(* to its output as in Output.                                             *)
(***************************************************************************)
EXTENDS UnitRules, Output

CONSTANT Inputs     \* what the processes are run on, see below

(***************************************************************************)
(* An input is what the processes are asked to do and what is installed.   *)
(*   who     the processes                                                 *)
(*   verb    "convert" or "show", for each of them                         *)
(*   o       is there an output file (-o), for each of them                *)
(*   unit    is the unit file named (-u)?  It is files[1] then.            *)
(*   files   what is in the directories searched: the last two are those   *)
(*           of init scripts, the others have unit files                   *)
(***************************************************************************)
Absent == [st |-> "absent", text |-> <<>>]
Denied == [st |-> "denied", text |-> <<>>]      \* stat() or open() fails otherwise
File(t) == [st |-> "file", text |-> t]

VARIABLES
    input,
    svc        \* the service each process has loaded

vars == <<input, svc, outputvars>>
-----------------------------------------------------------------------------
\* The loop over directories from first to last.
Search(files, first, last) ==
    LET i == FirstOf({j \in first .. last : files[j].st # "absent"})
    IN  IF i = 0 \/ files[i].st = "denied" THEN Failed ELSE service_from_text(files[i].text)

systemd_find_service(files) == Search(files, 1, Len(files) - 2)
sysvinit_find_service(files) == Search(files, Len(files) - 1, Len(files))

OrElse(s1, s2) == IF s1.ok THEN s1 ELSE s2
service_find(files) == OrElse(systemd_find_service(files), sysvinit_find_service(files))

Loaded == IF input.unit THEN Search(input.files, 1, 1) ELSE service_find(input.files)
-----------------------------------------------------------------------------
\* main() up to sysvrun()
Load(p) ==
    /\ svc' = [svc EXCEPT ![p] = Loaded]
    /\ Loads(p, svc'[p].ok)
    /\ UNCHANGED input

\* The orders in which the keys of each section may be run through.
KeyOrders(u) ==
    {f \in [DOMAIN u -> UNION {Orders(DOMAIN u[s]) : s \in DOMAIN u}] :
        \A s \in DOMAIN u : f[s] \in Orders(DOMAIN u[s])}

\* service_convert() and service_show(): the text, in whatever order the tables give.
Render(p) ==
    /\ pc[p] = "loaded"
    /\ \E sections \in Orders(DOMAIN svc[p].u), keys \in KeyOrders(svc[p].u) :
         Renders(p, IF verb[p] = "convert" THEN service_to_byte_array(svc[p], sections, keys)
                    ELSE unit_to_byte_array(svc[p].u, sections, keys))
    /\ UNCHANGED <<input, svc>>

Write(p) == WriteStep(p) /\ UNCHANGED <<input, svc>>

Init ==
    /\ input \in Inputs
    /\ verb = input.verb /\ tofile = input.o
    /\ pc = [p \in Procs |-> IF p \in input.who THEN "load" ELSE "idle"]
    /\ OutputInit
    /\ svc = [p \in Procs |-> Failed]

Next == \E p \in Procs : Load(p) \/ Render(p) \/ Write(p)

Spec == Init /\ [][Next]_vars
-----------------------------------------------------------------------------
\* systemd_parse_unit_file() gives what the rules give: with comments dropped,
\* continued lines joined and blank lines dropped, every line is a header or a pair
\* in a section, a key has the words of all its values since it was last erased,
\* and anything else is refused.
ParseMeans ==
    \A p \in Procs : (pc[p] = "load" /\ input.unit) =>
        ParsedAsSpoken(input.files[1].text, systemd_parse_unit_file(input.files[1].text))

\* systemd_split_quoted(), where there are no escapes: the words are what blanks
\* outside quotes separate, without the quotes that open and close.
SplitMeans ==
    \A p \in Procs : pc[p] = "loaded" =>
        \A s \in DOMAIN svc[p].u : \A k \in DOMAIN svc[p].u[s] :
            "bs" \in {svc[p].u[s][k][i] : i \in DOMAIN svc[p].u[s][k]}
                \/ systemd_split_quoted(svc[p].u[s][k]) = QuotedWords(svc[p].u[s][k])

\* timespan_from_str() takes the text of a time limit for the exact sum of its parts,
\* and refuses it when it is malformed or the sum does not fit, unless one part
\* alone is too large for its type; and the text timespan_to_str() makes of the limit
\* that is set, which is logged, is read as the same limit.
SpanMeans ==
    \A p \in Procs :
        /\ pc[p] = "load" =>
             LET parsed == systemd_parse_unit_file(input.files[1].text)
                 v == IF parsed.ok THEN unit_get_value(parsed.u, <<"Service">>, <<"TimeoutStopSec">>) ELSE <<>>
             IN  v # <<>> /\ PartsFit(v[1]) => timespan_from_str(v[1]) = SpanMeant(v[1])
        /\ pc[p] = "loaded" =>
             timespan_from_str(timespan_to_str(svc[p].stop_timeout)) = svc[p].stop_timeout

\* A value that a line can hold: no blank at its start, none in a row, no backslash
\* at its end, and short enough for the parser.
Plain(v) ==
    /\ Len(v) < ValueSize - 1
    /\ v # <<>> => v[1] \notin Blank /\ Last(v) # "bs"
    /\ \A i \in 2 .. Len(v) : ~(v[i] \in Blank /\ v[i - 1] \in Blank)

\* service_convert() and service_show(): what is written, read again, is the same
\* service with the same settings, in whatever order the tables were written.
RoundTrip ==
    \A p \in Procs :
        (/\ out.by = p
         /\ \A s \in DOMAIN svc[p].u : \A k \in DOMAIN svc[p].u[s] : Plain(svc[p].u[s][k]))
            => service_from_text(out.text) = svc[p]
=============================================================================
