------------------------------- MODULE Output --------------------------------
(***************************************************************************)
(* byte_array_to_file() and its callers service_convert() and service_     *)
(* show() (service.c): processes that each have a text and put it in the   *)
(* same output file, by way of a temporary file of their own.  Any call    *)
(* may fail, and a process may be killed anywhere.  What the texts are is  *)
(* left to Convert.                                                        *)
(***************************************************************************)
EXTENDS Integers, Sequences

CONSTANTS
    Procs,     \* the processes
    Symbols    \* what texts are made of

VARIABLES
    verb,      \* of each process: "convert" or "show"
    tofile,    \* is there an output file (-o)?
    pc,        \* where it is, see PCs
    buf,       \* the text it has rendered
    tmp,       \* its temporary file, if there is one
    out,       \* the output file: once a temporary file, and whose
    renamed,   \* history: the processes that renamed theirs
    exit       \* exit statuses, -1 before

Texts == Seq(Symbols)

PCs == {"idle", "load", "loaded", "print", "mkstemp", "write", "chmod", "rename", "success", "fail",
        "done", "crashed"}      \* "idle": not started

asked == <<verb, tofile>>
disk == <<tmp, out, renamed>>
outputvars == <<asked, pc, buf, disk, exit>>

NoFile == [text |-> <<>>, mode |-> "none", by |-> "none"]
Old == [text |-> <<"old">>, mode |-> "0755", by |-> "none"]

FileOf(p, text, mode) == [text |-> text, mode |-> mode, by |-> p]

Mode(v) == IF v = "convert" THEN "0755" ELSE "0644"

Goto(p, l) == pc' = [pc EXCEPT ![p] = l]
Exit(p, code) == exit' = [exit EXCEPT ![p] = code] /\ Goto(p, "done")
-----------------------------------------------------------------------------
\* main(): the service is loaded, or not.
Loads(p, ok) ==
    /\ pc[p] = "load"
    /\ IF ok THEN Goto(p, "loaded") /\ UNCHANGED exit ELSE Exit(p, 1)
    /\ UNCHANGED <<asked, buf, disk>>

\* service_convert(), service_show(): the text is rendered.
Renders(p, text) ==
    /\ pc[p] = "loaded"
    /\ buf' = [buf EXCEPT ![p] = text]
    /\ Goto(p, IF tofile[p] THEN "mkstemp" ELSE "print")
    /\ UNCHANGED <<asked, disk, exit>>

\* printf() writes the text or not; what exit() fails to flush is not noticed.
PrintText(p) ==
    /\ pc[p] = "print"
    /\ \E code \in {0, 1} : Exit(p, code)
    /\ UNCHANGED <<asked, buf, disk>>

Mkstemp(p) ==
    /\ pc[p] = "mkstemp"
    /\ \/ /\ tmp' = [tmp EXCEPT ![p] = FileOf(p, <<>>, "0600")]
          /\ Goto(p, "write") /\ UNCHANGED exit
       \/ Exit(p, 1) /\ UNCHANGED tmp
    /\ UNCHANGED <<asked, buf, out, renamed>>

\* How much write() may write: nothing, as when it fails, a part, or all.
Written(text) == {0, Len(text) \div 2, Len(text)}

\* Mutant of WriteText: a short write is taken for a whole one.
WriteTextShort(p) ==
    /\ pc[p] = "write"
    /\ \E n \in Written(buf[p]) : tmp' = [tmp EXCEPT ![p] = FileOf(p, SubSeq(buf[p], 1, n), "0600")]
    /\ Goto(p, "chmod")
    /\ UNCHANGED <<asked, buf, out, renamed, exit>>

WriteText(p) ==
    /\ pc[p] = "write"
    /\ \E n \in Written(buf[p]) :
         /\ tmp' = [tmp EXCEPT ![p] = FileOf(p, SubSeq(buf[p], 1, n), "0600")]
         /\ Goto(p, IF n = Len(buf[p]) THEN "chmod" ELSE "fail")
    /\ UNCHANGED <<asked, buf, out, renamed, exit>>

Fchmod(p) ==
    /\ pc[p] = "chmod"
    /\ \/ tmp' = [tmp EXCEPT ![p] = FileOf(p, tmp[p].text, Mode(verb[p]))] /\ Goto(p, "rename")
       \/ Goto(p, "fail") /\ UNCHANGED tmp
    /\ UNCHANGED <<asked, buf, out, renamed, exit>>

\* Mutant of Rename: the result is not looked at.
RenameUnchecked(p) ==
    /\ pc[p] = "rename"
    /\ \/ /\ out' = tmp[p] /\ tmp' = [tmp EXCEPT ![p] = NoFile]
          /\ renamed' = renamed \cup {p}
       \/ UNCHANGED disk
    /\ Goto(p, "success")
    /\ UNCHANGED <<asked, buf, exit>>

Rename(p) ==
    /\ pc[p] = "rename"
    /\ \/ /\ out' = tmp[p] /\ tmp' = [tmp EXCEPT ![p] = NoFile]
          /\ renamed' = renamed \cup {p}
          /\ Goto(p, "success")
       \/ Goto(p, "fail") /\ UNCHANGED disk
    /\ UNCHANGED <<asked, buf, exit>>

\* All of the text is in the output file.
Succeed(p) ==
    /\ pc[p] = "success"
    /\ Exit(p, 0)
    /\ UNCHANGED <<asked, buf, disk>>

\* Label fail: the temporary file is unlinked.
Cleanup(p) ==
    /\ pc[p] = "fail"
    /\ tmp' = [tmp EXCEPT ![p] = NoFile]
    /\ Exit(p, 1)
    /\ UNCHANGED <<asked, buf, out, renamed>>

\* The process is killed.
Crash(p) ==
    /\ pc[p] \notin {"idle", "done", "crashed"}
    /\ Goto(p, "crashed")
    /\ UNCHANGED <<asked, buf, disk, exit>>

WriteStep(p) ==
    \/ PrintText(p) \/ Mkstemp(p) \/ WriteText(p) \/ Fchmod(p) \/ Rename(p)
    \/ Succeed(p) \/ Cleanup(p) \/ Crash(p)
-----------------------------------------------------------------------------
OutputInit ==
    /\ verb \in [Procs -> {"convert", "show"}] /\ tofile \in [Procs -> BOOLEAN]
    /\ pc \in [Procs -> {"idle", "load"}]
    /\ buf = [p \in Procs |-> <<>>]
    /\ tmp = [p \in Procs |-> NoFile] /\ out = Old /\ renamed = {}
    /\ exit = [p \in Procs |-> -1]

OutputNext ==
    \E p \in Procs :
        \/ \E ok \in BOOLEAN : Loads(p, ok)
        \/ buf'[p] \in Texts /\ Renders(p, buf'[p])
        \/ WriteStep(p)

OutputSpec == OutputInit /\ [][OutputNext]_outputvars
-----------------------------------------------------------------------------
\* Every variable has a value of its kind.
OutputType ==
    /\ verb \in [Procs -> {"convert", "show"}] /\ tofile \in [Procs -> BOOLEAN]
    /\ pc \in [Procs -> PCs] /\ renamed \subseteq Procs
    /\ buf \in [Procs -> Texts] /\ exit \in [Procs -> {-1, 0, 1}]
    /\ DOMAIN tmp = Procs
    /\ out.mode \in {"0644", "0755"}

\* byte_array_to_file(): the output is the old file or the whole text of one of the
\* processes with the mode meant for it, whatever fails and whoever is killed.  (The
\* manual, sysvrun.md:25-26, has an existing file truncated, and deleted upon an error.)
OutputWhole ==
    \/ out = Old
    \/ \E p \in Procs : out = FileOf(p, buf[p], Mode(verb[p]))

\* Exit status 0 of a process with an output file: its text was put there; 1: it
\* was not.
ConvertTruth ==
    \A p \in Procs : tofile[p] /\ pc[p] = "done" => (exit[p] = 0 <=> p \in renamed)

\* A process that ends by itself leaves no temporary file behind.
NoLitter == \A p \in Procs : pc[p] = "done" => tmp[p] = NoFile

\* What each process has done by the time it is where it is.
Progress(p) ==
    /\ pc[p] \in {"idle", "load", "loaded", "print", "mkstemp", "success", "done"} => tmp[p] = NoFile
    /\ pc[p] = "write" => tmp[p] = FileOf(p, <<>>, "0600")
    /\ pc[p] = "chmod" => tmp[p] = FileOf(p, buf[p], "0600")
    /\ pc[p] = "rename" => tmp[p] = FileOf(p, buf[p], Mode(verb[p]))
    /\ p \in renamed => pc[p] \in {"success", "done", "crashed"}
    /\ pc[p] = "success" => p \in renamed
    /\ tofile[p] /\ pc[p] = "done" => (exit[p] = 0 <=> p \in renamed)
    /\ tofile[p] => pc[p] # "print"

\* Inductive strengthening of OutputWhole, ConvertTruth and NoLitter: the output is
\* the text of a process that has renamed its file and does not change its text.
OutputInv ==
    /\ OutputType
    /\ \A p \in Procs : Progress(p)
    /\ \/ out = Old
       \/ \E p \in renamed : out = FileOf(p, buf[p], Mode(verb[p]))
=============================================================================
