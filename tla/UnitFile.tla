------------------------------ MODULE UnitFile ------------------------------
(***************************************************************************)
(* Unit files and init scripts: systemd_parse_unit_file() and systemd_     *)
(* split_quoted() (systemd.c), the table of settings (unit.c), service_    *)
(* from_unit_file() and service_to_byte_array() (service.c), and sysvinit_ *)
(* parse_init_script() (sysvinit.c).                                       *)
(*                                                                         *)
(* Sizes of buffers count tokens.                                          *)
(***************************************************************************)
EXTENDS Timespan, SequencesExt

CONSTANTS
    SectionSize, KeySize, ValueSize,   \* of the buffers of the parser
    Name,                              \* of the service, one of Words
    sWords, tWords                     \* the words that begin with "s" and with "t"

Comment == {"#", "#!", ";"}
Quote == {"dq", "sq"}
\* What isprint() accepts: all but "nl", "nul", "tab" and "ctl", which stands for the rest.
Printed == Words \cup Digit \cup Comment \cup Quote \cup
           {"sp", "[", "]", "=", "-", "bs", ".service"}

issectionname == Printed \ {"[", "]"}
iskey == Words \cup Digit \cup {"-"}
isvalue == Printed \cup {"tab"}

Failed == [ok |-> FALSE]
-----------------------------------------------------------------------------
(* unit.c *)

\* A unit is a function of sections to functions of keys to values.
unit_get_value(u, s, k) == IF s \in DOMAIN u THEN IF k \in DOMAIN u[s] THEN <<u[s][k]>> ELSE <<>> ELSE <<>>

\* unit_update_value(), for a value
unit_update_value(u, s, k, v, append) ==
    LET keys == IF s \in DOMAIN u THEN u[s] ELSE <<>>
        new == IF append /\ k \in DOMAIN keys THEN keys[k] \o <<"sp">> \o v ELSE v
    IN  (s :> ((k :> new) @@ keys)) @@ u
-----------------------------------------------------------------------------
(* systemd_parse_unit_file() *)

\* Comment lines after the line that ends at r: the end of the last one.
RECURSIVE AfterComments(_, _)
AfterComments(t, r) ==
    IF r + 1 <= Len(t) /\ t[r + 1] \in Comment THEN AfterComments(t, LineEnd(t, r + 1)) ELSE r

\* Mutant of Collected: a comment line is taken for the continuation.
RECURSIVE CollectedBlindly(_, _, _)
CollectedBlindly(t, r, v) ==
    IF r > Len(t) \/ t[r] \notin isvalue THEN [end |-> r, value |-> v]
    ELSE LET joined == t[r] = "bs" /\ r < Len(t) /\ t[r + 1] = "nl"
             ch == IF joined \/ t[r] \in Blank THEN "sp" ELSE t[r]
         IN  CollectedBlindly(t, IF joined THEN r + 2 ELSE r + 1,
                     IF ch = "sp" /\ v # <<>> /\ Last(v) = "sp" THEN v ELSE Append(v, ch))

\* The value from r on, given what precedes: a backslash at the end of a line is a
\* blank, and blanks in a row are one.
RECURSIVE Collected(_, _, _)
Collected(t, r, v) ==
    IF r > Len(t) \/ t[r] \notin isvalue THEN [end |-> r, value |-> v]
    ELSE LET joined == t[r] = "bs" /\ r < Len(t) /\ t[r + 1] = "nl"
             ch == IF joined \/ t[r] \in Blank THEN "sp" ELSE t[r]
         IN  Collected(t, IF joined THEN AfterComments(t, r + 1) + 1 ELSE r + 1,
                     IF ch = "sp" /\ v # <<>> /\ Last(v) = "sp" THEN v ELSE Append(v, ch))

Untrailed(v) == IF v # <<>> /\ Last(v) = "sp" THEN Front(v) ELSE v

\* Where the header's name ends, if it is one.
HeaderEnd(t, cur) == Skip(t, cur + 1, issectionname)
IsHeader(t, cur) ==
    LET q == HeaderEnd(t, cur)
    IN  /\ q > cur + 1 /\ ~AtEnd(t, q) /\ t[q] = "]"
        /\ ~AtEnd(t, q + 1) /\ t[q + 1] = "nl"
        /\ q - cur - 1 < SectionSize - 1

\* A pair's key ends before p, its "=" is at q, its value begins at r.
PairAt(t, cur) ==
    LET p == Skip(t, cur, iskey)
        q == Skip(t, p, Blank)
        r == Skip(t, q + 1, Blank)
        c == Collected(t, r, <<>>)
    IN  [key |-> SubSeq(t, cur, p - 1), value |-> Untrailed(c.value), end |-> c.end,
         ok |-> /\ p > cur /\ ~AtEnd(t, p) /\ ~AtEnd(t, q) /\ t[q] = "="
                /\ ~AtEnd(t, r) /\ ~AtEnd(t, c.end)
                /\ p - cur < KeySize - 1 /\ Len(Untrailed(c.value)) < ValueSize - 1]

RECURSIVE LinesFrom(_, _, _, _)
LinesFrom(t, cur, section, u) ==
    IF cur > Len(t) THEN [ok |-> TRUE, u |-> u]
    ELSE IF t[cur] = "nl" THEN LinesFrom(t, cur + 1, section, u)
    ELSE IF t[cur] \in Comment THEN
        IF AtEnd(t, LineEnd(t, cur)) THEN Failed ELSE LinesFrom(t, LineEnd(t, cur) + 1, section, u)
    ELSE IF t[cur] = "[" THEN
        IF ~IsHeader(t, cur) THEN Failed
        ELSE LinesFrom(t, HeaderEnd(t, cur) + 2, SubSeq(t, cur + 1, HeaderEnd(t, cur) - 1), u)
    ELSE LET pair == PairAt(t, cur)
         IN  IF ~pair.ok \/ section = <<>> THEN Failed
             ELSE LinesFrom(t, pair.end + 1, section,
                    unit_update_value(u, section, pair.key, pair.value, pair.value # <<>>))

systemd_parse_unit_file(t) == LinesFrom(t, 1, <<>>, <<>>)
-----------------------------------------------------------------------------
(* systemd_split_quoted() *)

\* escape[]: \s and \t are blanks; blanks are no escapes and stand for themselves; "esc"
\* is any other character a word begins with, or what it escapes to.
escape(c) ==
    IF c \in Quote \cup Blank \cup {"bs"} THEN c
    ELSE IF c \in sWords THEN "sp" ELSE IF c \in tWords THEN "tab" ELSE "esc"

\* Mutant of WordFrom: any quote closes another.
RECURSIVE WordFromAny(_, _, _, _)
WordFromAny(v, p, q, w) ==
    IF p > Len(v) THEN [next |-> p, word |-> w]
    ELSE IF v[p] \in Quote THEN WordFromAny(v, p + 1, IF q = "" THEN v[p] ELSE "", w)
    ELSE IF v[p] \in Blank /\ q = "" THEN [next |-> p + 1, word |-> w]
    ELSE WordFromAny(v, p + 1, q, Append(w, v[p]))

\* One word, from p on, in quotes q, with w before it.  The escaped character is not
\* stepped over: it is seen again.
RECURSIVE WordFrom(_, _, _, _)
WordFrom(v, p, q, w) ==
    IF p > Len(v) THEN [next |-> p, word |-> w]
    ELSE IF v[p] \in Quote /\ q = "" THEN WordFrom(v, p + 1, v[p], w)
    ELSE IF v[p] \in Quote /\ q = v[p] THEN WordFrom(v, p + 1, "", w)
    ELSE IF v[p] = "bs" /\ p = Len(v) THEN [next |-> p + 1, word |-> w]
    ELSE LET ch == IF v[p] = "bs" THEN escape(v[p + 1]) ELSE v[p]
         IN  IF ch \in Blank /\ q = "" THEN [next |-> p + 1, word |-> w]
             ELSE WordFrom(v, p + 1, q, Append(w, ch))

\* The quotes are closed when a word is followed by another.
RECURSIVE WordsFrom(_, _)
WordsFrom(v, p) ==
    LET b == Skip(v, p, Blank)
        w == WordFrom(v, b, "", <<>>)
    IN  IF b > Len(v) THEN <<>> ELSE <<w.word>> \o WordsFrom(v, w.next)

systemd_split_quoted(v) == WordsFrom(v, 1)
-----------------------------------------------------------------------------
(* service_from_unit_file() *)

CONSTANTS TypeNames, KillModes, RestartPolicies   \* the first of each is the default

TS_MSEC == UnitValue("ms")
DEFAULT_STOP_TIMEOUT_US == 90 * TS_SEC
DEFAULT_RESTART_DELAY_US == 100 * TS_MSEC
DEFAULT_START_LIMIT_INTERVAL_US == 10 * TS_SEC
DEFAULT_START_LIMIT_BURST == 5

\* The services a list of units names; units of other kinds are left out.
deservicified(list) ==
    LET isService(w) == w # <<>> /\ Last(w) = ".service"
        named == SelectSeq(list, isService)
    IN  [i \in DOMAIN named |-> Front(named[i])]

\* A setting of the service, a sequence that is empty if it is not there.  What is
\* read from it is a set, empty if the value is not valid.
Setting(u, k) == unit_get_value(u, <<"Service">>, <<k>>)

Choice(u, k, names) ==
    LET v == Setting(u, k)
    IN  IF v = <<>> THEN {names[1]} ELSE {n \in {names[i] : i \in DOMAIN names} : v[1] = <<n>>}

ReadSpan(u, k, default) ==
    LET v == Setting(u, k)
    IN  IF v = <<>> THEN {default} ELSE {timespan_from_str(v[1])} \ {TS_INVALID}

\* strtoul() skips blanks and takes a sign; a minus at the start is refused.
BurstIn(v) ==
    LET p == Skip(v, 1, Blank)
        neg == p <= Len(v) /\ v[p] = "-"
        d == IF p <= Len(v) /\ v[p] \in {"-", "+"} THEN p + 1 ELSE p
        num == NumberIn(v, d, Len(v) + 1)
    IN  IF v = <<>> \/ v[1] = "-" \/ d > Len(v) \/ Skip(v, d, Digit) <= Len(v) THEN {}
        ELSE IF num >= Word THEN {} ELSE {IF neg THEN (Word - num) % Word ELSE num}

ReadBurst(u, k, default) ==
    LET v == Setting(u, k) IN IF v = <<>> THEN {default} ELSE BurstIn(v[1])

strbool(v) == v \in {<<"1">>, <<"yes">>, <<"true">>, <<"on">>}

\* A list, parsed if the key is there.
Listed(u, k) ==
    LET v == unit_get_value(u, <<"Unit">>, <<k>>)
    IN  IF v = <<>> THEN <<>> ELSE deservicified(systemd_split_quoted(v[1]))

\* After without what Requires names.
Should(required, after) ==
    LET only(w) == \A i \in DOMAIN required : w # required[i] IN SelectSeq(after, only)

\* The settings of a unit, given the services it requires.
Settings(u, required) ==
    LET type == Choice(u, "Type", TypeNames)
        kill == Choice(u, "KillMode", KillModes)
        timeout == ReadSpan(u, "TimeoutStopSec", DEFAULT_STOP_TIMEOUT_US)
        policy == Choice(u, "Restart", RestartPolicies)
        delay == IF policy = {RestartPolicies[1]} THEN {0}
                 ELSE ReadSpan(u, "RestartSec", DEFAULT_RESTART_DELAY_US)
        interval == ReadSpan(u, "StartLimitInterval", DEFAULT_START_LIMIT_INTERVAL_US)
        burst == ReadBurst(u, "StartLimitBurst", DEFAULT_START_LIMIT_BURST)
        remain == Setting(u, "RemainAfterExit")
        The(S) == CHOOSE x \in S : TRUE
    IN  IF {} \in {type, kill, timeout, policy, delay, interval, burst} THEN Failed
        ELSE [ok |-> TRUE, u |-> u, required |-> required,
              should |-> Should(required, Listed(u, "After")),
              type |-> The(type), kill_mode |-> The(kill), stop_timeout |-> The(timeout),
              restart_policy |-> The(policy), delay |-> The(delay),
              remain_after_exit |-> remain # <<>> /\ strbool(remain[1]),
              start_limit_interval |-> The(interval), start_limit_burst |-> The(burst)]

service_extracted(parsed) ==
    IF parsed.ok THEN Settings(parsed.u, Listed(parsed.u, "Requires")) ELSE Failed

service_from_unit_file(t) == service_extracted(systemd_parse_unit_file(t))
-----------------------------------------------------------------------------
(* Init scripts, sysvinit.h and sysvinit.c; a line that is a constant is one token. *)

LSB_PROVIDES == "# Provides:"
LSB_BEGIN_INIT_INFO == "### BEGIN INIT INFO"
LSB_END_INIT_INFO == "### END INIT INFO"
BEGIN_EMBED == ":<<SYSVKIT"
END_EMBED == "SYSVKIT"

\* The name must be the first word after Provides.
sysvinit_parse_init_script(t) ==
    LET begin == line_equals(t, 1, <<LSB_BEGIN_INIT_INFO>>)
        provides == line_prefix(t, AfterLine(t, begin), <<LSB_PROVIDES>>)
        p == Skip(t, provides + 1, Blank)
        named == /\ StartsWith(t, p, <<Name>>)
                 /\ p + 1 = LineEnd(t, provides) \/ t[p + 1] \in Blank
        end == line_equals(t, AfterLine(t, provides), <<LSB_END_INIT_INFO>>)
        embed == line_equals(t, AfterLine(t, end), <<BEGIN_EMBED>>)
        last == line_equals(t, AfterLine(t, embed), <<END_EMBED>>)
    IN  IF begin = 0 THEN Failed
        ELSE IF provides = 0 THEN Failed
        ELSE IF ~named THEN Failed
        ELSE IF end = 0 THEN Failed
        ELSE IF embed = 0 THEN Failed
        ELSE IF last = 0 THEN Failed
        ELSE service_from_unit_file(text_narrow(t, AfterLine(t, embed), last))

\* service_from_file(), once the text is read.  A text of "#!" and one token more is too
\* short for a script, or is refused as either.
service_from_text(t) ==
    IF Len(t) > 2 /\ t[1] = "#!" THEN sysvinit_parse_init_script(t) ELSE service_from_unit_file(t)

\* The orders in which hash_table_get_any() and hash_table_get_other() may run
\* through a table.
Orders(S) == SetToSeqs(S)

\* unit_to_byte_array(), in the given orders.
PairText(u, s, k) == k \o <<"=">> \o u[s][k] \o <<"nl">>
SectionText(u, s, keys) ==
    <<"[">> \o s \o <<"]", "nl">> \o FlattenSeq([i \in DOMAIN keys |-> PairText(u, s, keys[i])])
unit_to_byte_array(u, sections, keys) ==
    FlattenSeq([i \in DOMAIN sections |-> SectionText(u, sections[i], keys[sections[i]])])

\* A comment of the LSB block that lists services, if there are any.
LsbList(label, list) ==
    IF list = <<>> THEN <<>>
    ELSE <<label>> \o FlattenSeq([i \in DOMAIN list |-> <<"sp">> \o list[i]]) \o <<"nl">>

service_to_byte_array(svc, sections, keys) ==
    LET description == unit_get_value(svc.u, <<"Unit">>, <<"Description">>)
    IN  <<"#!", "nl", "nl", LSB_BEGIN_INIT_INFO, "nl", LSB_PROVIDES, "sp", Name, "nl">>
          \o LsbList("# Required-Start:", svc.required)
          \o LsbList("# Should-Start:", svc.should)
          \o <<"# Default-Start:", "nl">>
          \o (IF description = <<>> THEN <<>>
               ELSE <<"# Short-Description", "sp">> \o description[1] \o <<"nl">>)
          \o <<LSB_END_INIT_INFO, "nl", "nl", "exec", "nl", "nl", BEGIN_EMBED, "nl">>
          \o unit_to_byte_array(svc.u, sections, keys)
          \o <<END_EMBED, "nl">>
=============================================================================
