------------------------------ MODULE MCConvert ------------------------------
(***************************************************************************)
(* Convert on unit files put together from lines that meet the parser's    *)
(* cases, on texts of one time limit, and on directories to search.        *)
(***************************************************************************)
EXTENDS Convert

MCSpanUnits == <<[name |-> "us", value |-> 1], [name |-> "msec", value |-> 4], [name |-> "ms", value |-> 4],
                 [name |-> "s", value |-> 12], [name |-> "m", value |-> 30]>>
MCWords == {"Unit", "Service", "Requires", "After", "Description", "Type", "Restart", "RestartSec", "TimeoutStopSec",
            "KillMode", "StartLimitBurst", "RemainAfterExit", "simple", "oneshot", "process", "no", "always", "yes",
            "true", "infinity", "foo", "a", "b", "x", "us", "ms", "msec", "s", "m", "SYSVKIT", ":<<SYSVKIT"}
MCTypes == <<"simple", "oneshot">>
MCKillModes == <<"control-group", "process">>
MCPolicies == <<"no", "always">>

NL == <<"nl">>
UnitHead == <<"[", "Unit", "]", "nl">>
ServiceHead == <<"[", "Service", "]", "nl">>

\* Lines of the first section.
Lines1 == {
    <<>>,
    <<"Requires", "=", "a", ".service", "sp", "b", ".service", "nl", "After", "=", "b", ".service", "sp", "x", ".service", "nl">>,
    <<"Requires", "=", "dq", "a", "sq", "tab", "b", ".service", "dq", "nl">>,
    <<"After", "=", "a", "bs", "nl", "#", "x", "nl", "nl">>,
    <<"After", "=", "a", ".service", "bs", "nl", "SYSVKIT", "nl", "After", "=", "nl">>,
    <<"#", "x", "bs", "nl", "Description", "tab", "=", "sp", "a", "sp", "tab", "b", "sp", "nl">>,
    <<"Requires", "=", "a", "bs", "simple", ".service", "bs", "true", "nl",
      "After", "=", "sq", "bs", "simple", "bs", "sq", ".service", "nl">>,
    <<"Description", "=", "a", "sq", "b", "sp", "x", "nl", ";", "nl">>,
    <<"Description", "=", "bs", "nl", "a", "nl">>,
    <<"Requires", "=", "a", "nul", "nl">>,
    <<"a", "nl">>}

\* Lines of the second, two of them.
Lines2 == {
    <<>>,
    <<"Type", "=", "oneshot", "nl">>,
    <<"Type", "=", "sp", "nl">>,
    <<"Type", "=", "oneshot", "ctl", "nl">>,
    <<"a", "=", "1", "2", "bs", "nl", ";", "nl", "#", "bs", "nl", "3", "nl">>,
    <<"a", "=", "nl">>,
    <<"a", "=", "a", "sp", "a", "sp", "a", "sp", "a", "nl">>,
    <<"a", "=", "a", "sp", "a", "bs", "nl">>,
    <<"a", "=", "x", "=", "[", "x", "]", "bs", "nl">>,
    <<"Restart", "=", "always", "nl", "RestartSec", "=", "1", "sp", "s", "nl">>,
    <<"StartLimitBurst", "=", "-", "1", "nl">>,
    <<"StartLimitBurst", "=", "1", "2", "nl", "RemainAfterExit", "=", "yes", "nl">>,
    <<"[", "a", "b", "]", "nl", "a", "=", "SYSVKIT", "nl">>,
    <<"[", "]", "nl">>,
    <<"[", "a", "sp", "]", "x", "nl">>,
    <<"[", "a", "b", "a", "b", "]", "nl">>}

UnitTexts == {UnitHead \o l1 \o NL \o ServiceHead \o l2 \o l3 : l1 \in Lines1, l2 \in Lines2, l3 \in Lines2}
            \cup {<<>>, UnitHead, <<"Type", "=", "simple", "nl">>, <<"[", "Unit">>, <<"#", "a">>, <<"#!", "nl">>}

\* UnitTexts of a time limit: up to two parts, with and without blanks.
Numbers == {<<"0">>, <<"1">>, <<"7">>, <<"9", "9">>, <<"1", "3", "6">>, <<"3", "9", "9">>, <<"4", "0", "9", "3">>,
            <<"4", "0", "9", "5">>, <<"4", "0", "9", "6">>}
Parts == {n \o <<u>> : n \in Numbers, u \in {"us", "s", "m"}}
Spans == {p \o q : p \in Parts, q \in Parts \cup {<<>>, <<"x">>, <<"s">>, <<"sp", "1", "sp", "msec">>, <<"1", "sp">>}}
            \cup Numbers \cup {<<"infinity">>, <<"infinity", "sp">>, <<"s">>, <<>>, <<"1", "sp", "1", "s">>}

SpanText1(v) == UnitHead \o ServiceHead \o <<"TimeoutStopSec", "=">> \o v \o NL

One(v, o, t) == [who |-> {"p"}, verb |-> [p \in Procs |-> v], o |-> [p \in Procs |-> o],
                  unit |-> TRUE, files |-> <<File(t)>>]

Good == UnitHead \o <<"After", "=", "a", ".service", "nl">> \o ServiceHead \o <<"Type", "=", "oneshot", "nl", "a", "=", "b", "nl">>
Bad == <<"a", "nl">>
Script(name) ==
    <<"#!", "nl", "### BEGIN INIT INFO", "nl", "# Provides:", "sp", "sp", name, "sp", "x", "nl", "### END INIT INFO", "nl",
      ":<<SYSVKIT", "nl">> \o ServiceHead \o <<"Type", "=", "simple", "nl", "SYSVKIT", "nl">>

\* Two processes with one output, and directories to search.
Two == {[who |-> Procs, verb |-> v, o |-> [p \in Procs |-> TRUE], unit |-> FALSE, files |-> f] :
            v \in [Procs -> {"convert", "show"}],
            f \in {<<Absent, File(Good), Absent, Absent>>}}
Found == {[who |-> {"p"}, verb |-> [p \in Procs |-> "convert"], o |-> [p \in Procs |-> TRUE], unit |-> FALSE, files |-> f] :
            f \in {<<a, b, c, d>> : a \in {Absent, Denied, File(Bad), File(Good)}, b \in {Absent, File(Good), File(Script("foo"))},
                   c \in {Absent, Denied, File(Script("foo")), File(Script("a")), File(Good)},
                   d \in {Absent, File(Script("foo"))}}}

MCSymbols == STRING

MCInputs ==
    {One("convert", TRUE, t) : t \in UnitTexts} \cup {One("show", FALSE, SpanText1(v)) : v \in Spans}
        \cup {One("show", TRUE, Good), One("show", FALSE, Good)} \cup Two \cup Found
=============================================================================
