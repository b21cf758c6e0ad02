------------------------------ MODULE Timespan ------------------------------
(***************************************************************************)
(* timespan.c: time spans and their text.  The word is as wide, and there  *)
(* are as many units, as the constants say.                                *)
(***************************************************************************)
EXTENDS Text

CONSTANTS
    Word,        \* usec_t and uintmax_t are taken modulo Word
    SpanUnits,   \* timespan_units[]: a sequence of [name, value], ascending
    TS_SEC       \* what a number without a unit counts

TS_INFINITY == Word - 2
TS_INVALID == Word - 1

Value == [d \in Digit |->
            CASE d = "0" -> 0 [] d = "1" -> 1 [] d = "2" -> 2 [] d = "3" -> 3 [] d = "4" -> 4
              [] d = "5" -> 5 [] d = "6" -> 6 [] d = "7" -> 7 [] d = "8" -> 8 [] d = "9" -> 9]

\* The number written from i up to j.
RECURSIVE NumberIn(_, _, _)
NumberIn(t, i, j) == IF j = i THEN 0 ELSE 10 * NumberIn(t, i, j - 1) + Value[t[j - 1]]

\* t without the blanks around it.
Trim(t) ==
    LET p == Skip(t, 1, Blank)
        ink == {i \in 1 .. Len(t) : t[i] \notin Blank}
    IN  IF ink = {} THEN <<>>
        ELSE SubSeq(t, p, CHOOSE i \in ink : \A k \in ink : k <= i)

UnitNames == {SpanUnits[i].name : i \in 1 .. Len(SpanUnits)}
UnitValue(n) == (CHOOSE u \in {SpanUnits[i] : i \in 1 .. Len(SpanUnits)} : u.name = n).value

\* Mutant of Added: the sum is not checked.
AddedUnchecked(ts, num) == (ts + num) % Word

\* ERANGE if the sum is too large.
Added(ts, num) == IF TS_INVALID - ts <= num THEN TS_INVALID ELSE ts + num

\* The loop over magnitudes and units, from p on; num is wide enough for strtoumax()
\* and wraps when it is multiplied.
RECURSIVE SpansFrom(_, _, _)
SpansFrom(t, p, ts) ==
    IF p > Len(t) THEN ts
    ELSE LET q == Skip(t, p, Digit)
             u == Skip(t, q, Blank)
             num == NumberIn(t, p, q)
         IN  IF q = p \/ num >= Word \/ u > Len(t) THEN TS_INVALID
             ELSE IF t[u] \notin UnitNames \/ Skip(t, u, Words) # u + 1 THEN TS_INVALID
             ELSE LET sum == Added(ts, (num * UnitValue(t[u])) % Word)
                  IN  IF sum = TS_INVALID THEN TS_INVALID
                      ELSE SpansFrom(t, Skip(t, u + 1, Blank), sum)

timespan_from_str(str) ==
    LET t == Trim(str)
        q == Skip(t, 1, Digit)
    IN  IF t = <<>> THEN TS_INVALID
        ELSE IF SubSeq(str, Skip(str, 1, Blank), Len(str)) = <<"infinity">> THEN TS_INFINITY
        ELSE IF q <= Len(t) THEN SpansFrom(t, 1, 0)
        ELSE IF NumberIn(t, 1, q) >= Word THEN TS_INVALID
        ELSE (NumberIn(t, 1, q) * TS_SEC) % Word

Digits == [n \in 0 .. 9 |-> CHOOSE d \in Digit : Value[d] = n]
RECURSIVE Decimal(_)
Decimal(n) == (IF n < 10 THEN <<>> ELSE Decimal(n \div 10)) \o <<Digits[n % 10]>>

\* The last unit that is not too large.
Largest(ts) ==
    SpanUnits[CHOOSE i \in 1 .. Len(SpanUnits) :
                /\ SpanUnits[i].value <= ts
                /\ \A j \in i + 1 .. Len(SpanUnits) : SpanUnits[j].value > ts]

RECURSIVE SpanText(_)
SpanText(ts) ==
    IF ts = 0 THEN <<>>
    ELSE LET u == Largest(ts)
         IN  Decimal(ts \div u.value) \o <<u.name>> \o SpanText(ts % u.value)

timespan_to_str(ts) ==
    CASE ts = 0           -> <<"0">>
      [] ts = TS_INFINITY -> <<"infinity">>
      [] OTHER            -> SpanText(ts)
=============================================================================
