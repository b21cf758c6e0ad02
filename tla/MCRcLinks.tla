------------------------------ MODULE MCRcLinks -----------------------------
(***************************************************************************)
(* Instances of RcLinks for TLC, with one runlevel of each kind.           *)
(***************************************************************************)
EXTENDS RcLinks, TLC

Dir(start, stop, odd) == [n \in Names |-> CASE n = "S20" -> start [] n = "K80" -> stop [] OTHER -> odd]

\* No links; links with the wrong name; another's with our name; too many links; a
\* dangling link; files.
SomeDirs == {
    Dir("none", "none", "none"), Dir("ours", "none", "ours"), Dir("other", "ours", "none"),
    Dir("ours", "ours", "other"), Dir("ours", "other", "dangling"), Dir("file", "none", "file")}

TaskSymmetry == Permutations(Tasks)
=============================================================================
