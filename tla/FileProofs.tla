----------------------------- MODULE FileProofs ------------------------------
(***************************************************************************)
(* What the programs leave in the file system when several of them work at *)
(* once, any call fails or a process is killed.  byte_array_to_file(), for *)
(* any number of processes and any texts: what the output file may be and  *)
(* what an exit status means.  service_enable(), service_disable() and     *)
(* service_is_enabled(), for any number of processes, runlevels and first  *)
(* contents of the rc directories: what becomes of the links.              *)
(***************************************************************************)
EXTENDS Output, RcLinks, TLAPS

(* The output file.                                                           *)

\* The inductive invariant holds before anything is written.
LEMMA OutputInvInit == OutputInit => OutputInv
<1> SUFFICES ASSUME OutputInit PROVE OutputInv
  OBVIOUS
<1>1. OutputType
  BY DEF OutputInit, OutputType, PCs, Texts, Old
<1>2. \A p \in Procs : Progress(p)
  BY Zenon DEF OutputInit, Progress
<1> QED
  BY <1>1, <1>2 DEF OutputInit, OutputInv

\* What one process does leaves the others where they are.
LEMMA OutputStepInv ==
    ASSUME OutputInv, NEW p \in Procs,
           \/ \E ok \in BOOLEAN : Loads(p, ok)
           \/ buf'[p] \in Texts /\ Renders(p, buf'[p])
           \/ WriteStep(p)
    PROVE  OutputInv'
<1> USE DEF OutputInv, OutputType, Progress, PCs, Goto, Exit, asked, disk, Mode, FileOf
<1>1. CASE \E ok \in BOOLEAN : Loads(p, ok)
  BY <1>1 DEF Loads
<1>2. CASE buf'[p] \in Texts /\ Renders(p, buf'[p])
  BY <1>2 DEF Renders
<1>3. CASE PrintText(p)
  BY <1>3 DEF PrintText
<1>4. CASE Mkstemp(p)
  BY <1>4, SMTT(30) DEF Mkstemp
<1>5. CASE WriteText(p)
  <2>1. PICK n \in Written(buf[p]) :
            /\ tmp' = [tmp EXCEPT ![p] = FileOf(p, SubSeq(buf[p], 1, n), "0600")]
            /\ Goto(p, IF n = Len(buf[p]) THEN "chmod" ELSE "fail")
    BY <1>5, Zenon DEF WriteText
  <2>2. SubSeq(buf[p], 1, Len(buf[p])) = buf[p]
    BY DEF Texts
  <2>3. CASE n = Len(buf[p])
    <3>1. tmp' = [tmp EXCEPT ![p] = FileOf(p, buf[p], "0600")] /\ Goto(p, "chmod")
      BY <2>1, <2>2, <2>3, Zenon
    <3> QED
      BY <1>5, <3>1, SMTT(30) DEF WriteText
  <2>4. CASE n # Len(buf[p])
    <3>1. Goto(p, "fail")
      BY <2>1, <2>4
    <3>2. DOMAIN tmp' = Procs /\ \A q \in Procs : q # p => tmp'[q] = tmp[q]
      BY <2>1
    <3> QED
      BY <1>5, <3>1, <3>2 DEF WriteText
  <2> QED
    BY <2>3, <2>4
<1>6. CASE Fchmod(p)
  BY <1>6 DEF Fchmod
<1>7. CASE Rename(p)
  BY <1>7 DEF Rename
<1>8. CASE Succeed(p)
  BY <1>8 DEF Succeed
<1>9. CASE Cleanup(p)
  BY <1>9, SMTT(30) DEF Cleanup
<1>10. CASE Crash(p)
  BY <1>10, SMTT(30) DEF Crash
<1> QED
  BY <1>1, <1>2, <1>3, <1>4, <1>5, <1>6, <1>7, <1>8, <1>9, <1>10, Zenon DEF WriteStep

\* The invariant holds throughout.
THEOREM OutputInvariance == OutputSpec => []OutputInv
<1>1. OutputInv /\ [OutputNext]_outputvars => OutputInv'
  <2> SUFFICES ASSUME OutputInv, [OutputNext]_outputvars PROVE OutputInv'
    OBVIOUS
  <2>1. CASE OutputNext
    BY <2>1, OutputStepInv DEF OutputNext
  <2>2. CASE UNCHANGED outputvars
    BY <2>2, SMTT(30) DEF outputvars, asked, disk, OutputInv, OutputType, Progress
  <2> QED
    BY <2>1, <2>2
<1> QED
  BY <1>1, OutputInvInit, PTL DEF OutputSpec

\* byte_array_to_file(): whatever fails and whoever is killed, the output file is the
\* old one or the whole text of one process with its mode.
THEOREM OutputIsWhole == OutputSpec => []OutputWhole
<1>1. OutputInv => OutputWhole
  BY DEF OutputInv, OutputType, OutputWhole
<1> QED
  BY <1>1, OutputInvariance, PTL

\* The exit status of sysvrun convert and show with -o is true.
THEOREM OutputTruth == OutputSpec => []ConvertTruth
<1>1. OutputInv => ConvertTruth
  BY DEF OutputInv, Progress, ConvertTruth
<1> QED
  BY <1>1, OutputInvariance, PTL

\* A process that ends by itself leaves no temporary file.
THEOREM OutputTidy == OutputSpec => []NoLitter
<1>1. OutputInv => NoLitter
  BY DEF OutputInv, Progress, NoLitter
<1> QED
  BY <1>1, OutputInvariance, PTL
-----------------------------------------------------------------------------
(* The rc directories.                                                        *)

(* Most leaves are first-order facts about one command's counters and one   *)
(* directory, which Zenon decides; a leaf that needs the other prover says so. *)
USE ZenonT(30)

\* The places of a process in service_manip_rl().
Steps == {"open", "read", "unlink", "done"}

\* The types of the variables of a process.
ProcType(p) ==
    /\ op[p] \in Ops /\ step[p] \in Steps /\ rl[p] \in Runlevels
    /\ listed[p] \subseteq Names /\ seen[p] \subseteq Names
    /\ found[p] \in BOOLEAN /\ bad[p] \in BOOLEAN /\ total[p] \in Nat /\ errors[p] \subseteq Runlevels
    /\ step[p] \in {"open", "done"} => listed[p] = {} /\ seen[p] = {} /\ ~found[p] /\ ~bad[p]
    /\ step[p] = "unlink" => name[p] \in seen[p]

\* The variables are functions on the processes.
Domains ==
    /\ DOMAIN step = Tasks /\ DOMAIN rl = Tasks /\ DOMAIN listed = Tasks /\ DOMAIN seen = Tasks
    /\ DOMAIN name = Tasks /\ DOMAIN found = Tasks /\ DOMAIN bad = Tasks
    /\ DOMAIN total = Tasks /\ DOMAIN errors = Tasks

RcType ==
    /\ dir \in [Runlevels -> [Names -> Entries]] /\ before \in [Runlevels -> [Names -> Entries]]
    /\ sb \in [Tasks -> {"unset", "ours", "other"}]
    /\ Domains
    /\ \A p \in Tasks : ProcType(p)
-----------------------------------------------------------------------------
(* What a step does, process by process.                                      *)

\* Nothing of a process changes.
Same(q) ==
    /\ step'[q] = step[q] /\ rl'[q] = rl[q] /\ listed'[q] = listed[q] /\ seen'[q] = seen[q]
    /\ name'[q] = name[q] /\ found'[q] = found[q] /\ bad'[q] = bad[q]
    /\ total'[q] = total[q] /\ errors'[q] = errors[q]

\* Nothing of the others changes.
Alike(p) ==
    /\ UNCHANGED <<before, op>> /\ Domains' /\ sb' \in [Tasks -> {"unset", "ours", "other"}]
    /\ \A q \in Tasks \ {p} : Same(q)

\* It begins to scan a directory.
Opened(p) ==
    /\ step[p] = "open" /\ step'[p] = "read" /\ UNCHANGED dir
    /\ rl'[p] = rl[p] /\ total'[p] = total[p] /\ errors'[p] = errors[p]
    /\ listed'[p] = {n \in Names : dir[rl[p]][n] # "none"} /\ seen'[p] = seen[p]
    /\ found'[p] = found[p] /\ bad'[p] = bad[p]

\* The link is to be deleted; it is the one that was looked for.
Doomed(p, n, who) ==
    \/ who = "ours" /\ op[p] = "disable"
    \/ who = "ours" /\ op[p] = "enable" /\ n # RightName(rl[p])
    \/ who = "other" /\ op[p] = "enable" /\ n = RightName(rl[p])

Hit(p, n, who) == who = "ours" /\ (op[p] = "enable" => n = RightName(rl[p]))

\* It looks at name n, and takes it for a link to the script of who, if it is one.
Looked(p, n, who) ==
    /\ step[p] = "read" /\ n \notin seen[p] /\ UNCHANGED dir
    /\ n \in listed[p] \/ dir[rl[p]][n] # "none"
    /\ who \in {"ours", "other", "file"} /\ (dir[rl[p]][n] \in {"ours", "other", "file"} => who = dir[rl[p]][n])
    /\ rl'[p] = rl[p] /\ total'[p] = total[p] /\ errors'[p] = errors[p]
    /\ listed'[p] = listed[p] /\ seen'[p] = seen[p] \cup {n} /\ bad'[p] = bad[p]
    /\ found'[p] = (found[p] \/ Hit(p, n, who))
    /\ \/ Doomed(p, n, who) /\ step'[p] = "unlink" /\ name'[p] = n
       \/ ~Doomed(p, n, who) /\ step'[p] = "read"

\* It deletes a link, or fails to.
Unlinked(p) ==
    /\ step[p] = "unlink" /\ step'[p] = "read"
    /\ rl'[p] = rl[p] /\ total'[p] = total[p] /\ errors'[p] = errors[p]
    /\ listed'[p] = listed[p] /\ seen'[p] = seen[p] /\ found'[p] = found[p]
    /\ \/ dir' = [dir EXCEPT ![rl[p]][name[p]] = "none"] /\ bad'[p] = bad[p]
       \/ bad'[p] = TRUE /\ UNCHANGED dir

\* It is through with a runlevel.
Left(p) ==
    /\ step[p] \in {"open", "read"}
    /\ IF rl[p] = LastRl THEN step'[p] = "done" /\ rl'[p] = FirstRl
       ELSE step'[p] = "open" /\ rl'[p] = rl[p] + 1
    /\ listed'[p] = {} /\ seen'[p] = {} /\ found'[p] = FALSE /\ bad'[p] = FALSE
    /\ \/ errors'[p] = errors[p] \cup {rl[p]} /\ total'[p] = total[p] /\ UNCHANGED dir
       \/ /\ AtEnd(p) /\ ~bad[p] /\ (op[p] = "enable" => found[p]) /\ UNCHANGED dir
          /\ errors'[p] = errors[p] /\ total'[p] = IF found[p] THEN total[p] + 1 ELSE total[p]
       \/ /\ AtEnd(p) /\ Wanted(p) /\ errors'[p] = errors[p] /\ total'[p] = total[p]
          /\ dir' = [dir EXCEPT ![rl[p]][RightName(rl[p])] = IF @ = "none" THEN "ours" ELSE @]

\* service_manip_rl() returns, and service_manip() goes on to the next runlevel.
LEMMA ReturnDoes ==
    ASSUME RcType, NEW p \in Tasks, NEW ok, NEW res, ReturnRl(p, ok, res)
    PROVE  /\ Alike(p)
           /\ IF rl[p] = LastRl THEN step'[p] = "done" /\ rl'[p] = FirstRl
              ELSE step'[p] = "open" /\ rl'[p] = rl[p] + 1
           /\ listed'[p] = {} /\ seen'[p] = {} /\ found'[p] = FALSE /\ bad'[p] = FALSE
           /\ errors'[p] = IF ok THEN errors[p] ELSE errors[p] \cup {rl[p]}
           /\ total'[p] = IF ok /\ res THEN total[p] + 1 ELSE total[p]
<1> Domains /\ sb \in [Tasks -> {"unset", "ours", "other"}]
  BY DEF RcType
<1>1. Alike(p)
  BY DEF ReturnRl, Put, Domains, Alike, Same
<1> QED
  BY <1>1 DEF ReturnRl, Put, Domains

\* What is done with a link once it is known whose it is.
LEMMA JudgeDoes ==
    ASSUME RcType, NEW p \in Tasks, NEW n \in Names, NEW who \in {"ours", "other"},
           Returned(p, n), Judge(p, n, who), UNCHANGED bad,
           dir[rl[p]][n] \in {"ours", "other", "file"} => who = dir[rl[p]][n],
           UNCHANGED sb \/ \E x \in {"ours", "other"} : sb' = [sb EXCEPT ![p] = x]
    PROVE  Alike(p) /\ Looked(p, n, who)
<1> Domains /\ sb \in [Tasks -> {"unset", "ours", "other"}]
  BY DEF RcType
<1>1. /\ found' = [found EXCEPT ![p] = found[p] \/ Hit(p, n, who)]
      /\ \/ Doomed(p, n, who) /\ step' = [step EXCEPT ![p] = "unlink"] /\ name' = [name EXCEPT ![p] = n]
         \/ ~Doomed(p, n, who) /\ UNCHANGED <<step, name>>
  BY DEF Judge, Put, Doomed, Hit
<1>2. step[p] = "read" /\ n \notin seen[p] /\ (n \in listed[p] \/ dir[rl[p]][n] # "none")
      /\ seen' = [seen EXCEPT ![p] = seen[p] \cup {n}]
      /\ UNCHANGED <<exists, dir, before, op, rl, listed, total, errors>>
  BY DEF Returned, Put
<1>3. Alike(p)
  BY <1>1, <1>2, SMTT(30) DEF Domains, Alike, Same
<1>4. /\ found'[p] = (found[p] \/ Hit(p, n, who)) /\ seen'[p] = seen[p] \cup {n}
      /\ \/ Doomed(p, n, who) /\ step'[p] = "unlink" /\ name'[p] = n
         \/ ~Doomed(p, n, who) /\ step'[p] = "read"
  BY <1>1, <1>2 DEF Domains
<1> QED
  BY <1>2, <1>3, <1>4 DEF Looked

\* Every step is one process opening a directory, looking at a name, deleting a
\* link or leaving the directory.
LEMMA StepKinds ==
    ASSUME RcType, RcNext
    PROVE  \E p \in Tasks : Alike(p) /\ (Opened(p) \/ Unlinked(p) \/ Left(p)
                                         \/ \E n \in Names, who \in {"ours", "other", "file"} : Looked(p, n, who))
<1> Domains /\ sb \in [Tasks -> {"unset", "ours", "other"}]
  BY DEF RcType
<1>1. ASSUME NEW p \in Tasks, opendir(p)
      PROVE  Alike(p) /\ Opened(p)
  <2>1. Alike(p)
    BY <1>1 DEF opendir, Put, Alike, Same, Domains
  <2> QED
    BY <1>1, <2>1 DEF opendir, Put, Domains, Opened
<1>2. ASSUME NEW p \in Tasks, OpendirFails(p)
      PROVE  Alike(p) /\ Left(p)
  BY <1>2, ReturnDoes DEF OpendirFails, Left
<1>3. ASSUME NEW p \in Tasks, unlinkat(p)
      PROVE  Alike(p) /\ Unlinked(p)
  <2>1. Alike(p)
    BY <1>3 DEF unlinkat, Put, Alike, Same, Domains
  <2> QED
    BY <1>3, <2>1 DEF unlinkat, Put, Domains, Unlinked
<1>4. ASSUME NEW p \in Tasks, closedir(p)
      PROVE  Alike(p) /\ Left(p)
  <2>1. ReturnRl(p, ~bad[p], found[p]) /\ AtEnd(p) /\ ~Wanted(p) /\ UNCHANGED dir /\ step[p] = "read"
    BY <1>4 DEF closedir, AtEnd
  <2>2. CASE bad[p]
    BY <2>1, <2>2, ReturnDoes DEF Left
  <2>3. CASE ~bad[p]
    <3>1. /\ Alike(p)
          /\ IF rl[p] = LastRl THEN step'[p] = "done" /\ rl'[p] = FirstRl
             ELSE step'[p] = "open" /\ rl'[p] = rl[p] + 1
          /\ listed'[p] = {} /\ seen'[p] = {} /\ found'[p] = FALSE /\ bad'[p] = FALSE
          /\ errors'[p] = errors[p] /\ total'[p] = IF found[p] THEN total[p] + 1 ELSE total[p]
      BY <2>1, <2>3 DEF ReturnRl, Put, Domains, Alike, Same
    <3> QED
      BY <2>1, <2>3, <3>1 DEF Left, Wanted
  <2> QED
    BY <2>2, <2>3
<1>5. ASSUME NEW p \in Tasks, symlinkat(p)
      PROVE  Alike(p) /\ Left(p)
  <2>1. AtEnd(p) /\ Wanted(p) /\ step[p] = "read" /\ ~found[p]
    BY <1>5 DEF symlinkat, AtEnd, Wanted
  <2>2. CASE ReturnRl(p, FALSE, FALSE) /\ UNCHANGED dir
    BY <2>1, <2>2, ReturnDoes DEF Left
  <2>3. CASE /\ dir' = [dir EXCEPT ![rl[p]][RightName(rl[p])] = IF @ = "none" THEN "ours" ELSE @]
             /\ ReturnRl(p, TRUE, found[p])
    <3>1. /\ Alike(p)
          /\ IF rl[p] = LastRl THEN step'[p] = "done" /\ rl'[p] = FirstRl
             ELSE step'[p] = "open" /\ rl'[p] = rl[p] + 1
          /\ listed'[p] = {} /\ seen'[p] = {} /\ found'[p] = FALSE /\ bad'[p] = FALSE
          /\ errors'[p] = errors[p] /\ total'[p] = total[p]
      BY <2>1, <2>3 DEF ReturnRl, Put, Domains, Alike, Same
    <3> QED
      BY <2>1, <2>3, <3>1 DEF Left
  <2> QED
    BY <1>5, <2>2, <2>3 DEF symlinkat
<1>6. ASSUME NEW p \in Tasks, NEW n \in Names, SkipFile(p, n)
      PROVE  Alike(p) /\ Looked(p, n, "file")
  <2>1. Alike(p)
    BY <1>6 DEF SkipFile, Returned, Put, Alike, Same, Domains
  <2>2. ~Doomed(p, n, "file") /\ ~Hit(p, n, "file")
    BY DEF Doomed, Hit
  <2>3. found[p] \in BOOLEAN
    BY DEF RcType, ProcType
  <2> QED
    BY <1>6, <2>1, <2>2, <2>3 DEF SkipFile, Returned, Put, Domains, Looked
<1>7. ASSUME NEW p \in Tasks, NEW n \in Names, fstatat(p, n)
      PROVE  \E who \in {"ours", "other"} : Alike(p) /\ Looked(p, n, who)
  BY <1>7, JudgeDoes DEF fstatat, Put
<1>8. ASSUME NEW p \in Tasks, NEW n \in Names, FstatatNoent(p, n)
      PROVE  \E who \in {"ours", "other"} : Alike(p) /\ Looked(p, n, who)
  <2>1. PICK who \in IF sb[p] = "unset" THEN {"ours", "other"} ELSE {sb[p]} : Judge(p, n, who)
    BY <1>8 DEF FstatatNoent
  <2>2. who \in {"ours", "other"}
    BY <2>1
  <2>3. Returned(p, n) /\ dir[rl[p]][n] \in {"dangling", "none"} /\ UNCHANGED <<sb, bad>>
    BY <1>8 DEF FstatatNoent
  <2> QED
    BY <2>1, <2>2, <2>3, JudgeDoes
<1>9. ASSUME NEW p \in Tasks, NEW n \in Names, FstatatFails(p, n)
      PROVE  Alike(p) /\ Left(p)
  BY <1>9, ReturnDoes DEF FstatatFails, Left
<1> QED
  BY <1>1, <1>2, <1>3, <1>4, <1>5, <1>6, <1>7, <1>8, <1>9, SMT DEF RcNext
-----------------------------------------------------------------------------
(* The inductive invariant.                                                   *)

Passed(p, r) == step[p] = "done" \/ r < rl[p]
Scanning(p, r) == step[p] \in {"read", "unlink"} /\ rl[p] = r
Everyone(what) == \A p \in Tasks : op[p] = what

\* What nobody may delete is as it was, and nobody is about to delete it.
Protected(r, n) ==
    \/ before[r][n] = "file"
    \/ before[r][n] = "other" /\ (n = RightName(r) => \A p \in Tasks : op[p] # "enable")

Keeping ==
    /\ \A r \in Runlevels, n \in Names : Protected(r, n) => dir[r][n] = before[r][n]
    /\ \A p \in Tasks : step[p] = "unlink" => ~Protected(rl[p], name[p])

\* A name that nobody at work wants to lead to the service.
Unwanted(r, n) == Everyone("disable") \/ (Everyone("enable") /\ n # RightName(r))

\* Such links are gone where a process has been; where it is, each one is still to
\* be read, is about to be deleted, or could not be.
Purged(p, r, n) ==
    /\ Passed(p, r) /\ r \notin errors[p] => dir[r][n] # "ours"
    /\ Scanning(p, r) /\ dir[r][n] = "ours" =>
        n \in listed[p] /\ (n \notin seen[p] \/ bad[p] \/ (step[p] = "unlink" /\ name[p] = n))

Purging == \A p \in Tasks, r \in Runlevels, n \in Names : Unwanted(r, n) => Purged(p, r, n)

\* The process will create the link or report an error.
Responsible(p, r) == Scanning(p, r) /\ RightName(r) \in seen[p] /\ ~found[p]

\* The link with the right name: where a process has been or has seen one, there is
\* one, or somebody is responsible.  Another's link is not passed over, and only a
\* responsible process deletes one.
Replaced(r) ==
    LET right == RightName(r)
    IN  /\ dir[r][right] \in {"none", "ours", "other"}
        /\ \A q \in Tasks : Passed(q, r) \/ (Scanning(q, r) /\ right \in listed[q] \cup seen[q]) =>
            dir[r][right] # "none" \/ r \in Failed \/ \E p \in Tasks : Responsible(p, r)
        /\ \A q \in Tasks : Passed(q, r) /\ r \notin errors[q] => dir[r][right] # "other"
        /\ \A q \in Tasks : Scanning(q, r) =>
            /\ dir[r][right] = "other" =>
                /\ right \in listed[q]
                /\ right \notin seen[q] \/ bad[q] \/ (step[q] = "unlink" /\ name[q] = right)
            /\ found[q] => right \in seen[q]
            /\ step[q] = "unlink" /\ name[q] = right => ~found[q]

Replacing == Everyone("enable") => \A r \in Runlevels : Clear(r) => Replaced(r)

\* While everyone only looks, nothing changes, and what has been found is what is there.
EnabledAt(r) == \E n \in Names : dir[r][n] = "ours"
Tallied(p) == {r \in Runlevels : Passed(p, r) /\ r \notin errors[p] /\ EnabledAt(r)}

Looking(p) ==
    /\ step[p] # "unlink" /\ ~bad[p]
    /\ step[p] = "read" => /\ listed[p] = {n \in Names : dir[rl[p]][n] # "none"}
                           /\ found[p] <=> \E n \in seen[p] : dir[rl[p]][n] = "ours"
    /\ total[p] = Cardinality(Tallied(p)) /\ \A r \in errors[p] : Passed(p, r)

Counting ==
    Everyone("is-enabled") /\ NoneDangles =>
        dir = before /\ \A p \in Tasks : Looking(p)

LinksInv == RcType /\ Keeping /\ Purging /\ Replacing /\ Counting
-----------------------------------------------------------------------------
\* A step of a process of one of the four kinds.
Moves(p) ==
    /\ Alike(p)
    /\ \/ Opened(p) \/ Unlinked(p) \/ Left(p)
       \/ \E n \in Names, who \in {"ours", "other", "file"} : Looked(p, n, who)

\* The runlevels.
LEMMA Levels ==
    /\ FirstRl \in Int /\ LastRl \in Int /\ FirstRl \in Runlevels /\ LastRl \in Runlevels
    /\ \A r \in Runlevels : r \in Int /\ FirstRl <= r /\ r <= LastRl /\ (r # LastRl => r + 1 \in Runlevels)
    /\ \A r \in Runlevels : RightName(r) \in Names
  BY RcAssumption, SMT DEF Runlevels, RightName, Names

\* An entry stays, is deleted, or is created with the right name by an enable.
LEMMA DirSteps ==
    ASSUME RcType, NEW p \in Tasks, Moves(p)
    PROVE  /\ dir' \in [Runlevels -> [Names -> Entries]]
           /\ \A r \in Runlevels, n \in Names :
                \/ dir'[r][n] = dir[r][n]
                \/ dir'[r][n] = "none" /\ Unlinked(p) /\ r = rl[p] /\ n = name[p]
                \/ /\ dir[r][n] = "none" /\ dir'[r][n] = "ours" /\ op[p] = "enable"
                   /\ Left(p) /\ r = rl[p] /\ n = RightName(r)
<1> dir \in [Runlevels -> [Names -> Entries]] /\ ProcType(p)
  BY DEF RcType
<1> {"none", "ours"} \subseteq Entries
  BY DEF Entries
<1>1. CASE UNCHANGED dir
  BY <1>1
<1>2. CASE Unlinked(p) /\ dir' = [dir EXCEPT ![rl[p]][name[p]] = "none"]
  <2>1. rl[p] \in Runlevels /\ name[p] \in Names
    BY <1>2 DEF Unlinked, ProcType
  <2> QED
    BY <1>2, <2>1
<1>3. CASE /\ Left(p) /\ op[p] = "enable"
           /\ dir' = [dir EXCEPT ![rl[p]][RightName(rl[p])] = IF @ = "none" THEN "ours" ELSE @]
  <2>1. rl[p] \in Runlevels /\ RightName(rl[p]) \in Names
    BY Levels DEF ProcType
  <2> QED
    BY <1>3, <2>1
<1> QED
  BY <1>1, <1>2, <1>3 DEF Moves, Opened, Looked, Unlinked, Left, Wanted

\* Where a process has been.
LEMMA PassedSteps ==
    ASSUME RcType, NEW p \in Tasks, Moves(p), NEW q \in Tasks, NEW r \in Runlevels
    PROVE  /\ Passed(q, r)' <=> Passed(q, r) \/ (q = p /\ Left(p) /\ r = rl[p])
           /\ step[q] # "done" => ~Passed(q, rl[q])
<1> ProcType(p) /\ ProcType(q)
  BY DEF RcType
<1>1. step[q] # "done" => ~Passed(q, rl[q])
  <2>1. rl[q] \in Int
    BY Levels DEF ProcType
  <2> QED
    BY <2>1, SMT DEF Passed
<1>2. CASE q # p
  <2>1. Same(q)
    BY <1>2 DEF Moves, Alike
  <2> QED
    BY <1>1, <1>2, <2>1 DEF Same, Passed
<1>3. CASE q = p /\ Left(p)
  BY <1>1, <1>3, Levels, SMTT(30) DEF Left, Passed, ProcType
<1>4. CASE q = p /\ ~Left(p)
  <2>1. rl'[p] = rl[p] /\ step[p] # "done" /\ step'[p] # "done"
    BY <1>4 DEF Moves, Opened, Unlinked, Looked
  <2> QED
    BY <1>1, <1>4, <2>1 DEF Passed
<1> QED
  BY <1>2, <1>3, <1>4

\* The types are kept.
LEMMA TypeKept ==
    ASSUME RcType, NEW p \in Tasks, Moves(p)
    PROVE  RcType'
<1> ProcType(p)
  BY DEF RcType
<1>1. ProcType(p)'
  <2>1. CASE Opened(p)
    BY <2>1 DEF Moves, Alike, Opened, ProcType, Steps
  <2>2. CASE Unlinked(p)
    BY <2>2 DEF Moves, Alike, Unlinked, ProcType, Steps
  <2>3. CASE Left(p)
    <3>1. rl'[p] \in Runlevels /\ step'[p] \in {"open", "done"} /\ op'[p] \in Ops
      BY <2>3, Levels DEF Left, ProcType, Moves, Alike
    <3>2. total'[p] \in Nat /\ errors'[p] \subseteq Runlevels
      BY <2>3, SMTT(30) DEF Left, ProcType
    <3>3. listed'[p] = {} /\ seen'[p] = {} /\ found'[p] = FALSE /\ bad'[p] = FALSE
      BY <2>3 DEF Left
    <3> QED
      BY <3>1, <3>2, <3>3 DEF ProcType, Steps
  <2>4. ASSUME NEW n \in Names, NEW who \in {"ours", "other", "file"}, Looked(p, n, who)
        PROVE  ProcType(p)'
    BY <2>4 DEF Moves, Alike, Looked, ProcType, Steps
  <2> QED
    BY <2>1, <2>2, <2>3, <2>4 DEF Moves
<1>2. ASSUME NEW q \in Tasks \ {p}
      PROVE  ProcType(q)'
  BY DEF RcType, Moves, Alike, Same, ProcType
<1>3. dir' \in [Runlevels -> [Names -> Entries]]
  BY DirSteps
<1> QED
  BY <1>1, <1>2, <1>3 DEF RcType, Moves, Alike

\* What nobody may delete stays.
LEMMA KeepingKept ==
    ASSUME RcType, Keeping, NEW p \in Tasks, Moves(p)
    PROVE  Keeping'
<1> ProcType(p)
  BY DEF RcType
<1>1. \A r, n : Protected(r, n)' <=> Protected(r, n)
  BY DEF Protected, Moves, Alike
<1>2. ASSUME NEW r \in Runlevels, NEW n \in Names, Protected(r, n)
      PROVE  dir'[r][n] = before'[r][n]
  <2>1. dir[r][n] = before[r][n] /\ before' = before
    BY <1>2 DEF Keeping, Moves, Alike
  <2>2. dir[r][n] # "none"
    BY <1>2, <2>1 DEF Protected
  <2>3. ~(Unlinked(p) /\ r = rl[p] /\ n = name[p])
    BY <1>2 DEF Keeping, Unlinked
  <2> QED
    BY <2>1, <2>2, <2>3, DirSteps, SMTT(30)
<1>3. ASSUME NEW q \in Tasks, step'[q] = "unlink"
      PROVE  ~Protected(rl'[q], name'[q])
  <2>1. CASE q # p
    BY <1>3, <2>1 DEF Keeping, Moves, Alike, Same
  <2>2. CASE q = p
    <3>1. PICK n \in Names, who \in {"ours", "other", "file"} : Looked(p, n, who)
      BY <1>3, <2>2 DEF Moves, Opened, Unlinked, Left
    <3>2. Doomed(p, n, who) /\ rl'[p] = rl[p] /\ name'[p] = n
      BY <1>3, <2>2, <3>1 DEF Looked
    <3>3. ASSUME Protected(rl[p], n)
          PROVE  FALSE
      <4>1. dir[rl[p]][n] = before[rl[p]][n]
        BY <3>3 DEF Keeping, ProcType
      <4>2. who = before[rl[p]][n]
        BY <3>1, <3>3, <4>1 DEF Looked, Protected
      <4> QED
        BY <3>2, <3>3, <4>2 DEF Doomed, Protected
    <3> QED
      BY <2>2, <3>2, <3>3
  <2> QED
    BY <2>1, <2>2
<1> QED
  BY <1>1, <1>2, <1>3 DEF Keeping

\* Unwanted links stay gone.
LEMMA PurgingKept ==
    ASSUME RcType, Purging, NEW p \in Tasks, Moves(p)
    PROVE  Purging'
<1>0. \A r, n : Unwanted(r, n)' => Unwanted(r, n)
  BY DEF Unwanted, Everyone, Moves, Alike
<1> SUFFICES ASSUME NEW q \in Tasks, NEW r \in Runlevels, NEW n \in Names, Unwanted(r, n), dir'[r][n] = "ours"
             PROVE  /\ ~Passed(q, r)' \/ r \in errors'[q]
                    /\ Scanning(q, r)' => /\ n \in listed'[q]
                                          /\ n \notin seen'[q] \/ bad'[q] \/ (step'[q] = "unlink" /\ name'[q] = n)
  BY <1>0 DEF Purging, Purged
<1> ProcType(p) /\ ProcType(q)
  BY DEF RcType
<1>1. dir[r][n] = "ours"
  BY DirSteps, SMTT(30) DEF Unwanted, Everyone
<1>2. ~Passed(q, r) \/ r \in errors[q]
  BY <1>1 DEF Purging, Purged
<1>3. Scanning(q, r) => n \in listed[q] /\ (n \notin seen[q] \/ bad[q] \/ (step[q] = "unlink" /\ name[q] = n))
  BY <1>1 DEF Purging, Purged
<1>4. CASE q # p
  <2>1. Same(q) /\ (Passed(q, r)' <=> Passed(q, r))
    BY <1>4, PassedSteps DEF Moves, Alike
  <2> QED
    BY <1>2, <1>3, <2>1 DEF Same, Scanning
<1>5. CASE q = p /\ Left(p)
  <2>1. ~Scanning(q, r)'
    BY <1>5 DEF Left, Scanning
  <2>2. CASE r # rl[p]
    <3>1. Passed(q, r)' <=> Passed(q, r)
      BY <1>5, <2>2, PassedSteps
    <3>2. errors[p] \subseteq errors'[p]
      BY <1>5 DEF Left
    <3> QED
      BY <1>2, <1>5, <2>1, <3>1, <3>2
  <2>3. CASE r = rl[p]
    <3>1. CASE errors'[p] = errors[p] \cup {rl[p]}
      BY <1>5, <2>1, <2>3, <3>1
    <3>2. CASE AtEnd(p) /\ ~bad[p]
      BY <1>1, <1>3, <1>5, <2>3, <3>2 DEF AtEnd, Scanning
    <3> QED
      BY <1>5, <3>1, <3>2 DEF Left, Wanted
  <2> QED
    BY <2>2, <2>3
<1>6. CASE q = p /\ Opened(p)
  <2>1. seen'[q] = {} /\ (Scanning(q, r)' => n \in listed'[q])
    BY <1>1, <1>6 DEF Opened, Scanning, ProcType
  <2> QED
    <3>1. (Passed(q, r)' <=> Passed(q, r)) /\ errors'[q] = errors[q]
      BY <1>6, PassedSteps DEF Opened, Left
    <3> QED
      BY <1>2, <2>1, <3>1
<1>7. CASE q = p /\ Unlinked(p)
  <2>1. Passed(q, r)' <=> Passed(q, r)
    BY <1>7, PassedSteps DEF Unlinked, Left
  <2>2. Scanning(q, r)' => Scanning(q, r) /\ r = rl[p]
    BY <1>7 DEF Unlinked, Scanning
  <2>3. CASE bad'[p] = TRUE
    BY <1>2, <1>3, <1>7, <2>1, <2>2, <2>3 DEF Unlinked
  <2>4. CASE dir' = [dir EXCEPT ![rl[p]][name[p]] = "none"] /\ bad'[p] = bad[p]
    <3>1. r = rl[p] => name[p] # n
      BY <2>4 DEF RcType
    <3> QED
      BY <1>2, <1>3, <1>7, <2>1, <2>2, <2>4, <3>1 DEF Unlinked
  <2> QED
    BY <1>7, <2>3, <2>4 DEF Unlinked
<1>8. ASSUME q = p, NEW m \in Names, NEW who \in {"ours", "other", "file"}, Looked(p, m, who)
      PROVE  /\ ~Passed(q, r)' \/ r \in errors'[q]
             /\ Scanning(q, r)' => /\ n \in listed'[q]
                                   /\ n \notin seen'[q] \/ bad'[q] \/ (step'[q] = "unlink" /\ name'[q] = n)
  <2>1. ~Passed(q, r)' \/ r \in errors'[q]
    <3>1. ~Left(p) /\ errors'[q] = errors[q]
      BY <1>8 DEF Looked, Left
    <3>2. Passed(q, r)' <=> Passed(q, r)
      BY <3>1, PassedSteps
    <3> QED
      BY <1>2, <3>1, <3>2
  <2>2. Scanning(q, r)' => Scanning(q, r) /\ step[q] = "read"
    BY <1>8 DEF Looked, Scanning
  <2>3. m = n /\ r = rl[p] => Doomed(p, n, who)
    BY <1>1, <1>8 DEF Looked, Unwanted, Everyone, Doomed
  <2> QED
    BY <1>3, <1>8, <2>1, <2>2, <2>3 DEF Looked, Scanning
<1> QED
  BY <1>4, <1>5, <1>6, <1>7, <1>8 DEF Moves

\* An error is not forgotten.
LEMMA ErrorsGrow ==
    ASSUME RcType, NEW p \in Tasks, Moves(p)
    PROVE  Failed \subseteq Failed' /\ \A q \in Tasks : errors[q] \subseteq errors'[q]
<1>1. ASSUME NEW q \in Tasks
      PROVE  errors[q] \subseteq errors'[q]
  BY DEF Moves, Alike, Same, Opened, Unlinked, Looked, Left
<1> QED
  BY <1>1 DEF Failed

\* A link with the right name stays accounted for.
LEMMA ReplacedKept ==
    ASSUME RcType, Everyone("enable"), NEW r \in Runlevels, Replaced(r), NEW p \in Tasks, Moves(p)
    PROVE  Replaced(r)'
<1> DEFINE right == RightName(r)
           Around(q) == Passed(q, r) \/ (Scanning(q, r) /\ right \in listed[q] \cup seen[q])
<1> ProcType(p) /\ right \in Names /\ op[p] = "enable"
  BY Levels DEF RcType, Everyone
<1> HIDE DEF right
<1>1. /\ dir[r][right] \in {"none", "ours", "other"}
      /\ \A q \in Tasks : Passed(q, r) /\ r \notin errors[q] => dir[r][right] # "other"
  BY DEF Replaced, right
<1>a. ASSUME NEW q \in Tasks, Around(q)
      PROVE  dir[r][right] # "none" \/ r \in Failed \/ \E x \in Tasks : Responsible(x, r)
  BY <1>a DEF Replaced, right
<1>s. ASSUME NEW q \in Tasks, Scanning(q, r)
      PROVE  /\ dir[r][right] = "other" =>
                /\ right \in listed[q]
                /\ right \notin seen[q] \/ bad[q] \/ (step[q] = "unlink" /\ name[q] = right)
             /\ found[q] => right \in seen[q]
             /\ step[q] = "unlink" /\ name[q] = right => ~found[q]
  BY <1>s DEF Replaced, right
<1>2. dir'[r][right] \in {"none", "ours", "other"} /\ (dir'[r][right] = "other" => dir[r][right] = "other")
  BY <1>1, DirSteps, SMTT(30)
<1>3. ASSUME NEW x \in Tasks, Responsible(x, r), dir'[r][right] = "none", r \notin Failed'
      PROVE  Responsible(x, r)'
  <2>1. Scanning(x, r) /\ right \in seen[x] /\ ~found[x]
    BY <1>3 DEF Responsible, right
  <2>2. CASE x # p
    BY <2>1, <2>2 DEF Moves, Alike, Same, Responsible, Scanning, right
  <2>3. CASE x = p /\ Unlinked(p)
    BY <2>1, <2>3 DEF Unlinked, Responsible, Scanning, right
  <2>4. ASSUME x = p, NEW m \in Names, NEW who \in {"ours", "other", "file"}, Looked(p, m, who)
        PROVE  Responsible(x, r)'
    <3>1. rl[p] = r /\ m # right /\ ~Hit(p, m, who)
      BY <2>1, <2>4 DEF Looked, Hit, Scanning, right
    <3>2. Scanning(p, r)' /\ right \in seen'[p]
      BY <2>1, <2>4, <3>1 DEF Looked, Scanning
    <3>3. ~found'[p]
      BY <2>1, <2>4, <3>1 DEF Looked
    <3> QED
      BY <2>4, <3>2, <3>3 DEF Responsible, right
  <2>5. CASE x = p /\ Left(p)
    <3>1. rl[p] = r
      BY <2>1, <2>5 DEF Scanning
    <3>2. r \notin errors'[p]
      BY <1>3 DEF Failed
    <3>3. dir' = [dir EXCEPT ![rl[p]][RightName(rl[p])] = IF @ = "none" THEN "ours" ELSE @]
      BY <2>1, <2>5, <3>1, <3>2 DEF Left
    <3>4. dir'[r][right] # "none"
      BY <3>1, <3>3 DEF right, RcType
    <3> QED
      BY <1>3, <3>4
  <2>6. ~(x = p /\ Opened(p))
    BY <2>1 DEF Opened, Scanning
  <2> QED
    BY <2>2, <2>3, <2>4, <2>5, <2>6 DEF Moves
<1>4. ASSUME NEW q \in Tasks, Around(q)', dir'[r][right] = "none", r \notin Failed', dir[r][right] = "none"
      PROVE  Around(q)
  <2>1. Passed(q, r)' <=> Passed(q, r) \/ (q = p /\ Left(p) /\ r = rl[p])
    BY PassedSteps
  <2>2. CASE q # p
    BY <1>4, <2>1, <2>2 DEF Moves, Alike, Same, Scanning
  <2>3. CASE q = p /\ Opened(p)
    <3>1. right \notin listed'[p] \cup seen'[p] \/ ~Scanning(p, r)'
      BY <1>4, <2>3 DEF Opened, Scanning, ProcType
    <3> QED
      BY <1>4, <2>1, <2>3, <3>1 DEF Opened, Left
  <2>4. CASE q = p /\ Unlinked(p)
    BY <1>4, <2>1, <2>4 DEF Unlinked, Left, Scanning
  <2>5. ASSUME q = p, NEW m \in Names, NEW who \in {"ours", "other", "file"}, Looked(p, m, who)
        PROVE  Around(q)
    BY <1>4, <2>1, <2>5 DEF Looked, Left, Scanning
  <2>6. CASE q = p /\ Left(p) /\ r # rl[p]
    BY <1>4, <2>1, <2>6 DEF Left, Scanning
  <2>7. CASE q = p /\ Left(p) /\ r = rl[p]
    <3>1. r \notin errors'[p]
      BY <1>4 DEF Failed
    <3>2. dir' # [dir EXCEPT ![rl[p]][RightName(rl[p])] = IF @ = "none" THEN "ours" ELSE @]
      BY <1>4, <2>7, SMTT(30) DEF right, RcType
    <3>3. step[p] = "read" /\ found[p]
      BY <2>7, <3>1, <3>2 DEF Left, AtEnd
    <3> QED
      BY <1>1, <1>s, <2>7, <3>3 DEF Scanning
  <2> QED
    BY <2>2, <2>3, <2>4, <2>5, <2>6, <2>7 DEF Moves
<1>5. ASSUME NEW q \in Tasks, Around(q)', dir'[r][right] = "none", r \notin Failed'
      PROVE  \E x \in Tasks : Responsible(x, r)'
  <2>1. CASE dir[r][right] = "none"
    <3>1. r \notin Failed
      BY <1>5, ErrorsGrow
    <3>2. PICK x \in Tasks : Responsible(x, r)
      BY <1>a, <1>4, <1>5, <2>1, <3>1
    <3> QED
      BY <1>3, <1>5, <3>2
  <2>2. CASE dir[r][right] # "none"
    <3>1. Unlinked(p) /\ r = rl[p] /\ right = name[p]
      BY <1>5, <2>2, DirSteps, SMTT(30)
    <3>2. Scanning(p, r) /\ right \in seen[p] /\ ~found[p]
      BY <1>1, <1>s, <3>1 DEF Unlinked, Scanning, ProcType
    <3> QED
      BY <3>1, <3>2 DEF Unlinked, Scanning, Responsible, right
  <2> QED
    BY <2>1, <2>2
<1>6. ASSUME NEW q \in Tasks, Passed(q, r)', r \notin errors'[q], dir[r][right] = "other"
      PROVE  FALSE
  <2>1. ~Passed(q, r)
    BY <1>1, <1>s, <1>6, ErrorsGrow
  <2>2. q = p /\ Left(p) /\ r = rl[p]
    BY <1>6, <2>1, PassedSteps
  <2>3. AtEnd(p) /\ ~bad[p]
    BY <1>6, <2>2 DEF Left, Wanted
  <2>4. step[p] = "read" /\ Scanning(p, r)
    BY <2>2, <2>3 DEF AtEnd, Scanning
  <2> QED
    BY <1>1, <1>s, <1>6, <2>2, <2>3, <2>4 DEF AtEnd
<1>7. ASSUME NEW q \in Tasks, Scanning(q, r)'
      PROVE  /\ dir'[r][right] = "other" =>
                /\ right \in listed'[q]
                /\ right \notin seen'[q] \/ bad'[q] \/ (step'[q] = "unlink" /\ name'[q] = right)
             /\ found'[q] => right \in seen'[q]
             /\ step'[q] = "unlink" /\ name'[q] = right => ~found'[q]
  <2>1. CASE q # p
    <3>1. Same(q)
      BY <2>1 DEF Moves, Alike
    <3> QED
      BY <1>1, <1>s, <1>2, <1>7, <3>1 DEF Same, Scanning
  <2>2. CASE q = p /\ Opened(p)
    BY <1>2, <1>7, <2>2 DEF Opened, Scanning, ProcType
  <2>3. CASE q = p /\ Unlinked(p)
    <3>1. Scanning(p, r) /\ r = rl[p]
      BY <1>7, <2>3 DEF Unlinked, Scanning
    <3> /\ step'[p] = "read" /\ listed'[p] = listed[p] /\ seen'[p] = seen[p] /\ found'[p] = found[p]
      BY <2>3 DEF Unlinked
    <3>2. CASE bad'[p] = TRUE
      BY <1>s, <1>2, <2>3, <3>1, <3>2
    <3>3. CASE dir' = [dir EXCEPT ![rl[p]][name[p]] = "none"] /\ bad'[p] = bad[p]
      <4>1. dir'[r][right] = "other" => name[p] # right
        BY <3>1, <3>3 DEF RcType
      <4> QED
        BY <1>s, <1>2, <2>3, <3>1, <3>3, <4>1
    <3> QED
      BY <2>3, <3>2, <3>3 DEF Unlinked
  <2>4. ASSUME q = p, NEW m \in Names, NEW who \in {"ours", "other", "file"}, Looked(p, m, who)
        PROVE  /\ dir'[r][right] = "other" =>
                    /\ right \in listed'[q]
                    /\ right \notin seen'[q] \/ bad'[q] \/ (step'[q] = "unlink" /\ name'[q] = right)
               /\ found'[q] => right \in seen'[q]
               /\ step'[q] = "unlink" /\ name'[q] = right => ~found'[q]
    <3>1. Scanning(p, r) /\ r = rl[p] /\ step[p] = "read" /\ right = RightName(rl[p])
      BY <1>7, <2>4 DEF Looked, Scanning, right
    <3>2. CASE m = right
      <4>1. ~found[p] /\ right \in seen'[p]
        BY <1>1, <1>s, <2>4, <3>1, <3>2 DEF Looked
      <4>2. Doomed(p, m, who) => ~Hit(p, m, who)
        BY <3>1, <3>2 DEF Doomed, Hit
      <4>3. dir[r][right] = "other" => right \in listed'[p] /\ Doomed(p, m, who)
        BY <1>1, <1>s, <2>4, <3>1, <3>2 DEF Looked, Doomed
      <4> QED
        BY <1>2, <2>4, <3>2, <4>1, <4>2, <4>3 DEF Looked
    <3>3. CASE m # right
      <4>1. ~Hit(p, m, who)
        BY <3>1, <3>3 DEF Hit
      <4> QED
        BY <1>1, <1>s, <1>2, <2>4, <3>1, <3>3, <4>1 DEF Looked
    <3> QED
      BY <3>2, <3>3
  <2>5. ~(q = p /\ Left(p))
    BY <1>7 DEF Left, Scanning
  <2> QED
    BY <2>1, <2>2, <2>3, <2>4, <2>5 DEF Moves
<1> QED
  <2>1. right' = right
    BY DEF right
  <2> QED
    BY <1>2, <1>5, <1>6, <1>7 DEF Replaced, right

INSTANCE FiniteSetTheorems

\* The runlevels that have been counted are finitely many.
LEMMA TalliedFinite ==
    ASSUME NEW p
    PROVE  IsFiniteSet(Tallied(p))
<1>1. IsFiniteSet(Runlevels)
  BY FS_Interval, Levels DEF Runlevels
<1>2. Tallied(p) \subseteq Runlevels
  BY DEF Tallied
<1> QED
  BY <1>1, <1>2, FS_Subset

\* While everyone only looks, the count stays right.
LEMMA CountingKept ==
    ASSUME RcType, Counting, NEW p \in Tasks, Moves(p)
    PROVE  Counting'
<1> SUFFICES ASSUME Everyone("is-enabled"), NoneDangles
             PROVE  (dir = before)' /\ \A q \in Tasks : Looking(q)'
  BY DEF Counting, Everyone, NoneDangles, Moves, Alike
<1> ProcType(p) /\ op[p] = "is-enabled" /\ dir = before /\ Looking(p)
  BY DEF RcType, Everyone, Counting
<1>1. ~Unlinked(p) /\ ~Wanted(p)
  BY DEF Unlinked, Looking, Wanted
<1>2. dir' = dir /\ before' = before
  BY <1>1 DEF Moves, Alike, Opened, Unlinked, Looked, Left
<1>3. \A r \in Runlevels : EnabledAt(r)' <=> EnabledAt(r)
  BY <1>2 DEF EnabledAt
<1>4. ASSUME NEW q \in Tasks, q # p \/ ~Left(p)
      PROVE  errors'[q] = errors[q] /\ total'[q] = total[q]
             /\ Tallied(q)' = Tallied(q) /\ \A r \in Runlevels : Passed(q, r)' <=> Passed(q, r)
  <2>1. errors'[q] = errors[q] /\ total'[q] = total[q]
    BY <1>4 DEF Moves, Alike, Same, Opened, Unlinked, Looked
  <2>2. \A r \in Runlevels : Passed(q, r)' <=> Passed(q, r)
    BY <1>4, PassedSteps
  <2>3. \A r \in Runlevels : r \in Tallied(q)' <=> r \in Tallied(q)
    BY <1>3, <2>1, <2>2 DEF Tallied
  <2>4. Tallied(q)' \subseteq Runlevels /\ Tallied(q) \subseteq Runlevels
    BY DEF Tallied
  <2> QED
    BY <2>1, <2>2, <2>3, <2>4
<1>5. ASSUME NEW q \in Tasks, q # p
      PROVE  Looking(q)'
  <2>1. Same(q) /\ Looking(q) /\ errors[q] \subseteq Runlevels
    BY <1>5 DEF Moves, Alike, Counting, RcType, ProcType
  <2>2. total'[q] = Cardinality(Tallied(q)')
    BY <1>4, <1>5, <2>1 DEF Looking
  <2>3. \A r \in errors'[q] : Passed(q, r)'
    BY <1>4, <1>5, <2>1 DEF Looking
  <2>4. step'[q] = "read" => listed'[q] = {n \in Names : dir'[rl'[q]][n] # "none"}
    <3>1. step[q] = "read" => listed[q] = {n \in Names : dir[rl[q]][n] # "none"}
      BY <2>1 DEF Looking
    <3>2. step'[q] = step[q] /\ listed'[q] = listed[q] /\ rl'[q] = rl[q]
      BY <2>1 DEF Same
    <3> QED
      BY <1>2, <3>1, <3>2
  <2>5. step'[q] = "read" => (found'[q] <=> \E n \in seen'[q] : dir'[rl'[q]][n] = "ours")
    BY <1>2, <2>1 DEF Looking, Same
  <2>6. step'[q] # "unlink" /\ ~bad'[q]
    BY <2>1 DEF Looking, Same
  <2> QED
    BY <2>2, <2>3, <2>4, <2>5, <2>6 DEF Looking
<1>6. CASE Opened(p)
  <2>1. ~Left(p) /\ errors[p] \subseteq Runlevels
    BY <1>6 DEF Opened, Left, ProcType
  <2>2. seen'[p] = {} /\ ~found'[p] /\ ~bad'[p]
    BY <1>6 DEF Opened, ProcType
  <2>3. total'[p] = Cardinality(Tallied(p)') /\ \A r \in errors'[p] : Passed(p, r)'
    BY <1>4, <2>1 DEF Looking
  <2>4. step'[p] = "read" /\ listed'[p] = {m \in Names : dir'[rl'[p]][m] # "none"}
    BY <1>2, <1>6 DEF Opened
  <2>5. Looking(p)'
    BY <2>2, <2>3, <2>4 DEF Looking
  <2> QED
    BY <1>2, <1>5, <2>5
<1>7. ASSUME NEW n \in Names, NEW who \in {"ours", "other", "file"}, Looked(p, n, who)
      PROVE  Looking(p)'
  <2>1. ~Left(p) /\ errors[p] \subseteq Runlevels
    BY <1>7 DEF Looked, Left, ProcType
  <2>2. step[p] = "read" /\ dir[rl[p]][n] # "none"
    BY <1>7 DEF Looked, Looking
  <2>3. who = dir[rl[p]][n]
    <3>1. dir[rl[p]][n] \in Entries \ {"dangling"}
      BY DEF RcType, ProcType, NoneDangles
    <3> QED
      BY <1>7, <2>2, <3>1 DEF Looked, Entries
  <2>4. step'[p] = "read" /\ found'[p] = (found[p] \/ who = "ours") /\ rl'[p] = rl[p]
    BY <1>7 DEF Looked, Doomed, Hit
  <2>5. found'[p] <=> \E m \in seen'[p] : dir'[rl'[p]][m] = "ours"
    <3>1. found[p] <=> \E m \in seen[p] : dir[rl[p]][m] = "ours"
      BY <2>2 DEF Looking
    <3>2. seen'[p] = seen[p] \cup {n}
      BY <1>7 DEF Looked
    <3> QED
      BY <1>2, <2>3, <2>4, <3>1, <3>2
  <2>6. total'[p] = Cardinality(Tallied(p)') /\ \A r \in errors'[p] : Passed(p, r)'
    BY <1>4, <2>1 DEF Looking
  <2>7. listed'[p] = {m \in Names : dir'[rl'[p]][m] # "none"} /\ ~bad'[p]
    BY <1>2, <1>7, <2>2, <2>4 DEF Looked, Looking
  <2> QED
    BY <2>4, <2>5, <2>6, <2>7 DEF Looking
<1>8. CASE Left(p)
  <2>1. \A r \in Runlevels : Passed(p, r)' <=> Passed(p, r) \/ r = rl[p]
    BY <1>8, PassedSteps
  <2>2. rl[p] \in Runlevels /\ ~Passed(p, rl[p]) /\ rl[p] \notin errors[p] /\ errors[p] \subseteq Runlevels
    <3>1. rl[p] \in Runlevels /\ errors[p] \subseteq Runlevels /\ step[p] # "done"
      BY <1>8 DEF Left, ProcType
    <3>2. ~Passed(p, rl[p])
      BY <3>1, PassedSteps
    <3> QED
      BY <3>1, <3>2 DEF Looking
  <2>3. rl[p] \notin Tallied(p)
    BY <2>2 DEF Tallied
  <2>4. step'[p] \notin {"read", "unlink"} /\ ~bad'[p]
    BY <1>8 DEF Left
  <2>5. CASE errors'[p] = errors[p] \cup {rl[p]} /\ total'[p] = total[p]
    <3>1. Tallied(p)' = Tallied(p)
      BY <1>3, <2>1, <2>2, <2>5 DEF Tallied
    <3>2. \A r \in errors'[p] : Passed(p, r)'
      BY <2>1, <2>2, <2>5 DEF Looking
    <3> QED
      BY <1>2, <1>5, <2>4, <2>5, <3>1, <3>2 DEF Looking
  <2>6. CASE AtEnd(p) /\ errors'[p] = errors[p] /\ total'[p] = IF found[p] THEN total[p] + 1 ELSE total[p]
    <3>1. found[p] <=> EnabledAt(rl[p])
      BY <2>6 DEF AtEnd, Looking, EnabledAt, ProcType
    <3>2. Tallied(p)' = IF found[p] THEN Tallied(p) \cup {rl[p]} ELSE Tallied(p)
      <4>1. ASSUME NEW r \in Runlevels
            PROVE  r \in Tallied(p)' <=> r \in Tallied(p) \/ (found[p] /\ r = rl[p])
        BY <1>3, <2>1, <2>2, <2>6, <3>1 DEF Tallied
      <4>2. Tallied(p)' \subseteq Runlevels /\ Tallied(p) \subseteq Runlevels
        BY DEF Tallied
      <4> QED
        BY <2>2, <4>1, <4>2
    <3>3. Cardinality(Tallied(p) \cup {rl[p]}) = Cardinality(Tallied(p)) + 1
      BY <2>3, TalliedFinite, FS_AddElement
    <3>4. total'[p] = Cardinality(Tallied(p)')
      BY <2>6, <3>2, <3>3 DEF Looking
    <3>5. \A r \in errors'[p] : Passed(p, r)'
      BY <2>1, <2>2, <2>6 DEF Looking
    <3> QED
      BY <1>2, <1>5, <2>4, <3>4, <3>5 DEF Looking
  <2> QED
    BY <1>1, <1>8, <2>5, <2>6 DEF Left
<1> QED
  BY <1>1, <1>2, <1>5, <1>6, <1>7, <1>8 DEF Moves

\* The invariant holds at first.
LEMMA LinksInit == RcInit => LinksInv
<1> SUFFICES ASSUME RcInit PROVE LinksInv
  OBVIOUS
<1> DEFINE Fresh(p) == /\ op[p] \in Ops /\ step[p] = "open" /\ rl[p] = FirstRl /\ listed[p] = {}
                       /\ seen[p] = {} /\ found[p] = FALSE /\ bad[p] = FALSE /\ total[p] = 0
                       /\ errors[p] = {}
<1>1. \A p \in Tasks : Fresh(p)
  BY DEF RcInit
<1>2. dir \in [Runlevels -> [Names -> Entries]] /\ before = dir
  BY RcAssumption DEF RcInit
<1>3. RcType
  <2>1. Domains /\ sb \in [Tasks -> {"unset", "ours", "other"}]
    BY DEF RcInit, Domains
  <2>2. \A p \in Tasks : ProcType(p)
    <3> SUFFICES ASSUME NEW p \in Tasks PROVE ProcType(p)
      OBVIOUS
    <3>1. Fresh(p) /\ FirstRl \in Runlevels
      BY <1>1, Levels
    <3>2. op[p] \in Ops /\ step[p] \in Steps /\ rl[p] \in Runlevels /\ total[p] \in Nat
          /\ step[p] = "open"
      BY <3>1, SMT DEF Steps
    <3>3. listed[p] = {} /\ seen[p] = {} /\ errors[p] = {} /\ found[p] = FALSE /\ bad[p] = FALSE
      BY <3>1
    <3> QED
      BY <3>2, <3>3 DEF ProcType
  <2> QED
    BY <1>2, <2>1, <2>2 DEF RcType
<1>4. \A p \in Tasks, r \in Runlevels : ~Passed(p, r) /\ ~Scanning(p, r)
  <2> SUFFICES ASSUME NEW p \in Tasks, NEW r \in Runlevels PROVE ~Passed(p, r) /\ ~Scanning(p, r)
    OBVIOUS
  <2>1. step[p] = "open" /\ rl[p] = FirstRl
    BY <1>1
  <2>2. ~(r < FirstRl)
    <3>1. r \in Int /\ FirstRl \in Int /\ FirstRl <= r
      BY Levels
    <3> QED
      BY <3>1, SMT
  <2> QED
    BY <2>1, <2>2 DEF Passed, Scanning
<1>5. Keeping
  BY <1>1, <1>2 DEF Keeping
<1>6. Purging
  BY <1>4 DEF Purging, Purged
<1>7. Replacing
  <2> SUFFICES ASSUME NEW r \in Runlevels, Clear(r) PROVE Replaced(r)
    BY DEF Replacing
  <2>1. dir[r][RightName(r)] \in {"none", "ours", "other"}
    BY <1>2, Levels DEF Clear, Entries
  <2> QED
    BY <1>4, <2>1 DEF Replaced
<1>8. Counting
  <2> SUFFICES ASSUME NEW p \in Tasks PROVE Looking(p)
    BY <1>2 DEF Counting
  <2>1. Tallied(p) = {}
    BY <1>4 DEF Tallied
  <2> QED
    BY <1>1, <2>1, FS_EmptySet DEF Looking
<1> QED
  BY <1>3, <1>5, <1>6, <1>7, <1>8 DEF LinksInv

\* Every step keeps it.
LEMMA LinksStep == LinksInv /\ [RcNext]_rcvars => LinksInv'
<1> SUFFICES ASSUME LinksInv, [RcNext]_rcvars PROVE LinksInv'
  OBVIOUS
<1> RcType /\ Keeping /\ Purging /\ Replacing /\ Counting
  BY DEF LinksInv
<1>1. CASE RcNext
  <2>1. PICK p \in Tasks : Moves(p)
    BY <1>1, StepKinds DEF Moves
  <2>2. Replacing'
    <3> SUFFICES ASSUME Everyone("enable"), NEW r \in Runlevels, Clear(r) PROVE Replaced(r)'
      BY <2>1 DEF Replacing, Everyone, Clear, Moves, Alike
    <3> QED
      BY <2>1, ReplacedKept DEF Replacing
  <2> QED
    <3>1. RcType' /\ Keeping'
      BY <2>1, TypeKept, KeepingKept
    <3>2. Purging' /\ Counting'
      BY <2>1, PurgingKept, CountingKept
    <3> QED
      BY <2>2, <3>1, <3>2 DEF LinksInv
<1>2. CASE UNCHANGED rcvars
  <2>1. RcType' /\ Keeping'
    <3>1. ASSUME NEW p \in Tasks
          PROVE  ProcType(p)'
      <4>1. ProcType(p)
        BY DEF RcType
      <4> QED
        BY <1>2, <4>1 DEF rcvars, scan, ProcType
    <3>2. RcType'
      BY <1>2, <3>1 DEF rcvars, scan, RcType, Domains
    <3>3. \A r, n : Protected(r, n)' <=> Protected(r, n)
      BY <1>2 DEF rcvars, Protected
    <3>4. Keeping'
      BY <1>2, <3>3 DEF rcvars, scan, Keeping
    <3> QED
      BY <3>2, <3>4
  <2>2. Purging'
    <3> SUFFICES ASSUME NEW p \in Tasks, NEW r \in Runlevels, NEW n \in Names, Unwanted(r, n)
                 PROVE  Purged(p, r, n)'
      BY <1>2 DEF rcvars, Purging, Unwanted, Everyone
    <3>1. Purged(p, r, n)
      BY DEF Purging
    <3> QED
      BY <1>2, <3>1 DEF rcvars, scan, Purged, Passed, Scanning
  <2>3. Replacing'
    <3> SUFFICES ASSUME Everyone("enable"), NEW r \in Runlevels, Clear(r) PROVE Replaced(r)'
      BY <1>2 DEF rcvars, Replacing, Everyone, Clear
    <3>1. Replaced(r)
      BY DEF Replacing
    <3>2. Failed' = Failed
      BY <1>2 DEF rcvars, Failed
    <3>3. \A q \in Tasks : /\ Passed(q, r)' <=> Passed(q, r)
                           /\ Scanning(q, r)' <=> Scanning(q, r)
                           /\ Responsible(q, r)' <=> Responsible(q, r)
      BY <1>2 DEF rcvars, scan, Passed, Scanning, Responsible
    <3> QED
      BY <1>2, <3>1, <3>2, <3>3 DEF rcvars, scan, Replaced
  <2>4. Counting'
    <3> SUFFICES ASSUME Everyone("is-enabled"), NoneDangles
                 PROVE  (dir = before)' /\ \A q \in Tasks : Looking(q)'
      BY <1>2 DEF rcvars, Counting, Everyone, NoneDangles
    <3>1. dir = before /\ \A q \in Tasks : Looking(q)
      BY DEF Counting
    <3>2. \A q \in Tasks : Tallied(q)' = Tallied(q)
      BY <1>2 DEF rcvars, Tallied, Passed, EnabledAt
    <3> QED
      BY <1>2, <3>1, <3>2 DEF rcvars, scan, Looking, Passed
  <2> QED
    BY <2>1, <2>2, <2>3, <2>4 DEF LinksInv
<1> QED
  BY <1>1, <1>2

\* Whatever commands are at work on the rc directories, each one accounts for the
\* runlevels it has been through.
THEOREM LinksCorrect == RcSpec => []LinksInv
  BY LinksInit, LinksStep, PTL DEF RcSpec

\* No link to another script, and no file, is lost, except to a link of the name that
\* service_manip_rl() is to create.
THEOREM OthersProved == RcSpec => []OthersKept
<1>1. LinksInv => OthersKept
  BY DEF LinksInv, Keeping, Protected, OthersKept
<1> QED
  BY <1>1, LinksCorrect, PTL

\* After any number of enable commands at a time each runlevel without an error has
\* the right link and no other; after disable commands it has none; and is-enabled
\* counts those that have one.
THEOREM CommandsProved == RcSpec => []CommandsDone
<1>1. LinksInv => EnableDone
  <2> SUFFICES ASSUME LinksInv, AllDone("enable"), NEW r \in Runlevels \ Failed, Clear(r), NEW n \in Names
               PROVE  (dir[r][n] = "ours") <=> (n = RightName(r))
    BY DEF EnableDone
  <2>1. Everyone("enable") /\ \A p \in Tasks : Passed(p, r) /\ ~Scanning(p, r) /\ r \notin errors[p]
    BY DEF AllDone, Everyone, Passed, Scanning, Failed
  <2>2. PICK p \in Tasks : TRUE
    BY RcAssumption
  <2>3. n # RightName(r) => dir[r][n] # "ours"
    BY <2>1, <2>2 DEF LinksInv, Purging, Purged, Unwanted
  <2>4. Replaced(r)
    BY <2>1 DEF LinksInv, Replacing
  <2>5. \A q \in Tasks : ~Responsible(q, r)
    BY <2>1 DEF Responsible
  <2>6. dir[r][RightName(r)] = "ours"
    BY <2>1, <2>2, <2>4, <2>5 DEF Replaced
  <2> QED
    BY <2>3, <2>6
<1>2. LinksInv => DisableDone
  <2> SUFFICES ASSUME LinksInv, AllDone("disable"), NEW r \in Runlevels \ Failed, NEW n \in Names
               PROVE  dir[r][n] # "ours"
    BY DEF DisableDone
  <2>1. Everyone("disable") /\ \A p \in Tasks : Passed(p, r) /\ r \notin errors[p]
    BY DEF AllDone, Everyone, Passed, Failed
  <2>2. PICK p \in Tasks : TRUE
    BY RcAssumption
  <2> QED
    BY <2>1, <2>2 DEF LinksInv, Purging, Purged, Unwanted
<1>3. LinksInv => CountTrue
  <2> SUFFICES ASSUME LinksInv, AllDone("is-enabled"), NoneDangles,
                      NEW p \in Tasks, errors[p] = {}
               PROVE  total[p] = Cardinality({r \in Runlevels : \E n \in Names : dir[r][n] = "ours"})
    BY DEF CountTrue
  <2>1. Everyone("is-enabled") /\ \A r \in Runlevels : Passed(p, r)
    BY DEF AllDone, Everyone, Passed
  <2>2. Looking(p)
    BY <2>1 DEF LinksInv, Counting
  <2>3. Tallied(p) = {r \in Runlevels : \E n \in Names : dir[r][n] = "ours"}
    BY <2>1 DEF Tallied, EnabledAt
  <2> QED
    BY <2>2, <2>3 DEF Looking
<1> QED
  BY <1>1, <1>2, <1>3, LinksCorrect, PTL DEF CommandsDone
=============================================================================
