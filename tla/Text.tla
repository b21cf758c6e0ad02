-------------------------------- MODULE Text --------------------------------
(***************************************************************************)
(* text.c: a text is a sequence of tokens, each a character or a word      *)
(* whose spelling plays no part; "nl" ends a line and "nul" the text.      *)
(***************************************************************************)
EXTENDS Integers, Sequences

CONSTANT Words     \* tokens that stand for words

Digit == {"0", "1", "2", "3", "4", "5", "6", "7", "8", "9"}
Blank == {"sp", "tab"}

\* The first position from i on that does not hold a token in C.
Skip(t, i, C) ==
    IF i > Len(t) THEN i
    ELSE CHOOSE j \in i .. Len(t) + 1 :
            /\ j <= Len(t) => t[j] \notin C
            /\ \A k \in i .. j - 1 : t[k] \in C

AtEnd(t, i) == i > Len(t) \/ t[i] = "nul"

\* The end of the line that i is in.
LineEnd(t, i) ==
    CHOOSE j \in i .. Len(t) + 1 :
        /\ AtEnd(t, j) \/ t[j] = "nl"
        /\ \A k \in i .. j - 1 : t[k] \notin {"nl", "nul"}

\* Where the line after the one i is in begins; past the end if that is the last.
AfterLine(t, i) == IF AtEnd(t, LineEnd(t, i)) THEN Len(t) + 1 ELSE LineEnd(t, i) + 1

\* Where the loops over lines look, from i on: a NUL ends a line, and the text only
\* where a line would begin.
LineStarts(t, i) ==
    LET begins(j) == j = i \/ t[j - 1] \in {"nl", "nul"}
    IN  {j \in i .. Len(t) : begins(j) /\ \A k \in i .. j : begins(k) => t[k] # "nul"}

StartsWith(t, i, s) == i + Len(s) - 1 <= Len(t) /\ SubSeq(t, i, i + Len(s) - 1) = s

FirstOf(S) == IF S = {} THEN 0 ELSE CHOOSE i \in S : \A j \in S : i <= j

\* text_first_line_prefix() and text_next_line_prefix(), from where the next line
\* begins: where the line is found, or 0.
line_prefix(t, i, s) == FirstOf({j \in LineStarts(t, i) : StartsWith(t, j, s)})

\* text_first_line_equals() and text_next_line_equals()
line_equals(t, i, s) ==
    FirstOf({j \in LineStarts(t, i) : StartsWith(t, j, s) /\ LineEnd(t, j) = j + Len(s)})

\* Mutant of text_narrow: one short.
text_narrow_short(t, beg, end) == SubSeq(t, beg, end - 2)

\* text_narrow()
text_narrow(t, beg, end) == SubSeq(t, beg, end - 1)
=============================================================================
