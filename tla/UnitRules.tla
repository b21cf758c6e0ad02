------------------------------ MODULE UnitRules ------------------------------
(***************************************************************************)
(* What unit files, quoted words and time spans mean: the rules in the     *)
(* comments of systemd.c and timespan.c, said of whole texts, against      *)
(* which the loops of UnitFile and Timespan are checked.                   *)
(***************************************************************************)
EXTENDS UnitFile

Ascending(S) ==
    [n \in 1 .. Cardinality(S) |-> CHOOSE x \in S : Cardinality({y \in S : y < x}) = n - 1]

\* The longest stretches of tokens that are In.
Runs(t, In(_)) ==
    LET begins == Ascending({i \in DOMAIN t : In(t[i]) /\ (i = 1 \/ ~In(t[i - 1]))})
        ends == Ascending({i \in DOMAIN t : In(t[i]) /\ (i = Len(t) \/ ~In(t[i + 1]))})
    IN  [n \in DOMAIN begins |-> SubSeq(t, begins[n], ends[n])]

WordsOf(v) == Runs(v, LAMBDA c : c \notin Blank)
-----------------------------------------------------------------------------
(* Unit files *)

\* "If a line begins with '#' or ';', it is considered a comment and discarded."
UncommentedLines(t) ==
    LET ends == Ascending({i \in DOMAIN t : t[i] = "nl"})
        line(n) == SubSeq(t, IF n = 1 THEN 1 ELSE ends[n - 1] + 1, ends[n] - 1)
    IN  SelectSeq([n \in DOMAIN ends |-> line(n)], LAMBDA l : l = <<>> \/ l[1] \notin Comment)

Continued(l) == l # <<>> /\ Last(l) = "bs"

\* "If a line ends with '\', the backslash is replaced by a single space and the next
\* non-comment line is appended to it."
RECURSIVE JoinedLines(_)
JoinedLines(ls) ==
    IF ls = <<>> THEN <<>>
    ELSE IF Continued(ls[1]) /\ Len(ls) > 1
         THEN JoinedLines(<<Front(ls[1]) \o <<"sp">> \o ls[2]>> \o SubSeq(ls, 3, Len(ls)))
         ELSE <<ls[1]>> \o JoinedLines(Tail(ls))

\* "Blank lines are discarded."
MeantLines(t) == SelectSeq(JoinedLines(UncommentedLines(t)), LAMBDA l : l # <<>>)

\* "A section header consists of a section name surrounded by '[' and ']'."
HeaderLine(l) ==
    Len(l) > 2 /\ l[1] = "[" /\ Last(l) = "]" /\ \A i \in 2 .. Len(l) - 1 : l[i] \in issectionname

\* "A key-value pair consists of a key and a value separated by a '=' character."
Equals(l) == FirstOf({i \in DOMAIN l : l[i] = "="})
PairLine(l) ==
    /\ Equals(l) > 1 /\ l[1] \in iskey
    /\ LET keys == WordsOf(SubSeq(l, 1, Equals(l) - 1))
       IN  Len(keys) = 1 /\ \A i \in DOMAIN keys[1] : keys[1][i] \in iskey
Key(l) == WordsOf(SubSeq(l, 1, Equals(l) - 1))[1]
Values(l) == WordsOf(SubSeq(l, Equals(l) + 1, Len(l)))

\* The section the nth line is in, <<>> if none.
Section(ls, n) ==
    LET heads == {i \in 1 .. n : HeaderLine(ls[i])}
        last == CHOOSE i \in heads : \A j \in heads : j <= i
    IN  IF heads = {} THEN <<>> ELSE SubSeq(ls[last], 2, Len(ls[last]) - 1)

\* "Multiple values for the same key are permitted." "An empty value for an existing
\* key erases the previous value."
Meaning(ls, s, k) ==
    LET at == {n \in DOMAIN ls : PairLine(ls[n]) /\ Section(ls, n) = s /\ Key(ls[n]) = k}
        live == Ascending({n \in at : \A e \in at : Values(ls[e]) = <<>> => n > e})
    IN  FlattenSeq([i \in DOMAIN live |-> Values(ls[live[i]])])

Valid(ls) ==
    \A n \in DOMAIN ls : HeaderLine(ls[n]) \/ (PairLine(ls[n]) /\ Section(ls, n) # <<>>)

\* The words of a value, one blank before each, fit in the buffers.
Fits(ls) ==
    \A n \in DOMAIN ls :
        IF HeaderLine(ls[n]) THEN Len(ls[n]) - 2 < SectionSize - 1
        ELSE /\ Len(Key(ls[n])) < KeySize - 1
             /\ Len(FlattenSeq(Values(ls[n]))) + Len(Values(ls[n])) < ValueSize - 1

\* Texts the rules speak of: whole lines of characters a value may have, continued
\* in values only.
Spoken(t) ==
    LET ls == UncommentedLines(t)
    IN  /\ t # <<>> /\ Last(t) = "nl" /\ \A i \in DOMAIN t : t[i] \in isvalue \cup {"nl"}
        /\ \A n \in DOMAIN ls : Continued(ls[n]) =>
             n < Len(ls) /\ (PairLine(ls[n]) \/ (n > 1 /\ Continued(ls[n - 1])))

ParsedAsSpoken(t, parsed) ==
    LET ls == MeantLines(t)
        keys == {<<Section(ls, n), Key(ls[n])>> : n \in {m \in DOMAIN ls : PairLine(ls[m])}}
    IN  Spoken(t) =>
          /\ parsed.ok => Valid(ls)
          /\ Valid(ls) /\ Fits(ls) => parsed.ok
          /\ parsed.ok =>
               /\ UNION {{<<s, k>> : k \in DOMAIN parsed.u[s]} : s \in DOMAIN parsed.u} = keys
               /\ \A sk \in keys : WordsOf(parsed.u[sk[1]][sk[2]]) = Meaning(ls, sk[1], sk[2])
-----------------------------------------------------------------------------
(* Quoted words *)

QuotedWords(v) ==
    LET open[i \in 1 .. Len(v) + 1] ==                  \* the quote open before i
            IF i = 1 THEN ""
            ELSE IF v[i - 1] \in Quote /\ open[i - 1] \in {"", v[i - 1]}
                 THEN IF open[i - 1] = "" THEN v[i - 1] ELSE ""
            ELSE open[i - 1]
        kind(i) == IF v[i] \in Blank /\ open[i] = "" THEN "between"
                   ELSE IF v[i] \in Quote /\ open[i] \in {"", v[i]} THEN "quoting" ELSE v[i]
        runs == Runs([i \in DOMAIN v |-> kind(i)], LAMBDA c : c # "between")
    IN  [n \in DOMAIN runs |-> SelectSeq(runs[n], LAMBDA c : c # "quoting")]
-----------------------------------------------------------------------------
(* Time spans *)

\* A part: the digits before a unit, and the unit.
UnitsIn(v) == {i \in DOMAIN v : v[i] \in UnitNames}
InkBefore(v, i) ==
    LET S == {j \in 1 .. i - 1 : v[j] \notin Blank} IN IF S = {} THEN 0 ELSE CHOOSE j \in S : \A k \in S : k <= j
Magnitude(v, i) ==
    LET e == InkBefore(v, i)
        b == CHOOSE j \in 1 .. e : (\A k \in j .. e : v[k] \in Digit) /\ (j = 1 \/ v[j - 1] \notin Digit)
    IN  NumberIn(v, b, e + 1)

\* Digits and units in turn, no blank between digits, a blank or a digit after a unit.
WellFormed(v) ==
    /\ UnitsIn(v) # {}
    /\ \A i \in DOMAIN v :
         /\ v[i] \in Blank \cup Digit \cup UnitNames
         /\ v[i] \in UnitNames =>
              InkBefore(v, i) # 0 /\ v[InkBefore(v, i)] \in Digit
         /\ v[i] \in Digit =>
              /\ \E j \in i + 1 .. Len(v) : v[j] \in UnitNames
              /\ LET b == InkBefore(v, i) IN b # 0 /\ v[b] \in Digit => b = i - 1

Unitless(v) == Len(WordsOf(v)) = 1 /\ \A i \in DOMAIN v : v[i] \in Blank \cup Digit
Seconds(v) == NumberIn(WordsOf(v)[1], 1, Len(WordsOf(v)[1]) + 1)

\* No part alone, or number of seconds, exceeds the type.
PartsFit(v) ==
    IF Unitless(v) THEN Seconds(v) * TS_SEC < Word
    ELSE WellFormed(v) => \A i \in UnitsIn(v) : Magnitude(v, i) * UnitValue(v[i]) < Word

SpanMeant(v) ==
    LET total == FoldSet(LAMBDA i, sum : sum + Magnitude(v, i) * UnitValue(v[i]), 0, UnitsIn(v))
    IN  IF v = <<"infinity">> THEN TS_INFINITY
        ELSE IF Unitless(v) THEN Seconds(v) * TS_SEC
        ELSE IF ~WellFormed(v) THEN TS_INVALID
        ELSE IF total >= TS_INVALID THEN TS_INVALID ELSE total
=============================================================================
