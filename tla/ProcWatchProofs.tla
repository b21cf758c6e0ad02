-------------------------- MODULE ProcWatchProofs ---------------------------
(***************************************************************************)
(* procwatch.c, for any number of processes and any length of the socket's *)
(* queue: its data structures are sound, the table knows no ghosts, and    *)
(* the pointers and lists implement the table of ProcTable.                *)
(***************************************************************************)
EXTENDS ProcWatch, TLAPS

(* Zenon is the prover of the leaves that do not name another.               *)
USE ZenonT(30)

\* An exit event is the last that speaks of its process, which is dead.
ExitsLast ==
    \A i \in DOMAIN queue : queue[i].what = "exit" =>
        /\ kproc[queue[i].actor] = "dead"
        /\ \A j \in DOMAIN queue : j > i => queue[i].actor \notin Named(queue[j])

\* No event speaks of a process that is to be born.
UnbornUnnamed ==
    \A p \in Pids : kproc[p] = "unborn" => \A i \in DOMAIN queue : p \notin Named(queue[i])

\* A process whose fork is still to be read is alive, or its exit is to be read later.
ForksLive ==
    \A i \in DOMAIN queue : queue[i].what = "fork" =>
        \/ kproc[queue[i].child] = "alive"
        \/ \E j \in DOMAIN queue : j > i /\ queue[j].what = "exit" /\ queue[j].actor = queue[i].child

\* No event speaks of a process that waits to be collected; it is dead.
ReadyDead ==
    \A k \in DOMAIN ready :
        kproc[ready[k]] = "dead" /\ \A i \in DOMAIN queue : ready[k] \notin Named(queue[i])

KernelInv == KernelType /\ ExitsLast /\ UnbornUnnamed /\ ForksLive

\* The fields of the table.
TableType ==
    /\ processes \subseteq All /\ {Self, InitPid} \subseteq processes
    /\ ppid \in [All -> All \cup {NoPid}]
    /\ sid \in [All -> All \cup {NoPid}]
    /\ children \in [All -> SUBSET Pids]
    /\ wstatus \in [All -> Statuses \cup {Running}]
    /\ ready \in Seq(Pids)

TableInv == TableType /\ Forest /\ ReadyOnce

\* The inductive invariant.
ProcWatchInv == KernelInv /\ TableInv /\ ReadyDead /\ NoGhosts /\ lost \in BOOLEAN
-----------------------------------------------------------------------------
(* The queue of events.                                                      *)

\* What Append() does.
LEMMA Appended ==
    ASSUME NEW S, NEW s \in Seq(S), NEW e \in S
    PROVE  /\ Append(s, e) \in Seq(S) /\ Len(s) \in Nat /\ Len(s) + 1 \in DOMAIN Append(s, e)
           /\ Append(s, e)[Len(s) + 1] = e
           /\ \A i \in DOMAIN Append(s, e) :
                i \in Nat /\ (i = Len(s) + 1 \/ (i \in DOMAIN s /\ i <= Len(s) /\ Append(s, e)[i] = s[i]))
           /\ \A i \in DOMAIN s : i \in Nat /\ i <= Len(s) /\ i \in DOMAIN Append(s, e) /\ Append(s, e)[i] = s[i]
  BY SMT

\* What Tail() does.
LEMMA Tailed ==
    ASSUME NEW S, NEW s \in Seq(S), s # <<>>
    PROVE  /\ Tail(s) \in Seq(S) /\ 1 \in DOMAIN s /\ Head(s) = s[1] /\ Head(s) \in S
           /\ \A i \in DOMAIN Tail(s) : i \in Nat /\ i > 0 /\ i + 1 \in DOMAIN s /\ Tail(s)[i] = s[i + 1]
           /\ \A i \in DOMAIN s : i \in Nat /\ i >= 1 /\ (i # 1 => i - 1 \in DOMAIN Tail(s) /\ Tail(s)[i - 1] = s[i])
  BY SMT

\* The events.
LEMMA EventKinds ==
    /\ \A p \in Pids \cup {Self}, c \in Pids :
            /\ ForkEvent(p, c) \in Events /\ Named(ForkEvent(p, c)) = {p, c}
            /\ ForkEvent(p, c).what = "fork" /\ ForkEvent(p, c).child = c
    /\ \A p \in Pids : SidEvent(p) \in Events /\ Named(SidEvent(p)) = {p} /\ SidEvent(p).what = "sid"
    /\ \A p \in Pids, w \in Statuses :
            /\ ExitEvent(p, w) \in Events /\ Named(ExitEvent(p, w)) = {p}
            /\ ExitEvent(p, w).what = "exit" /\ ExitEvent(p, w).actor = p
    /\ \A ev \in Events :
            /\ ev.what \in {"fork", "sid", "exit"} /\ ev.actor \in Pids \cup {Self}
            /\ ev.what # "fork" => ev.actor \in Pids
            /\ ev.what = "fork" => ev.child \in Pids /\ Named(ev) = {ev.actor, ev.child}
            /\ ev.what = "exit" => ev.wstatus \in Statuses
            /\ ev.actor \in Named(ev)
  BY DEF ForkEvent, SidEvent, ExitEvent, Events, Named

\* An event is queued: it speaks of no dead process, and of an unborn one only when
\* it is born.
LEMMA Queued ==
    ASSUME ProcWatchInv, NEW e \in Events, queue' = Append(queue, e),
           kproc' \in [Pids -> {"unborn", "alive", "dead"}], leader' \subseteq Pids, UNCHANGED <<tvars, lost>>,
           \A q \in Pids : /\ kproc[q] = "dead" => kproc'[q] = "dead" /\ q \notin Named(e)
                           /\ kproc'[q] = "unborn" => kproc[q] = "unborn" /\ q \notin Named(e)
                           /\ kproc[q] = "alive" => kproc'[q] = "alive" \/ (e.what = "exit" /\ e.actor = q),
           e.what = "fork" => kproc'[e.child] = "alive",
           e.what = "exit" => kproc'[e.actor] = "dead"
    PROVE  ProcWatchInv'
<1>1. /\ queue' \in Seq(Events) /\ Len(queue) \in Nat /\ Len(queue) + 1 \in DOMAIN queue'
      /\ queue'[Len(queue) + 1] = e
      /\ \A i \in DOMAIN queue' :
            i \in Nat /\ (i = Len(queue) + 1 \/ (i \in DOMAIN queue /\ i <= Len(queue) /\ queue'[i] = queue[i]))
      /\ \A i \in DOMAIN queue : i \in Nat /\ i <= Len(queue) /\ i \in DOMAIN queue' /\ queue'[i] = queue[i]
  BY Appended, SMT DEF ProcWatchInv, KernelInv, KernelType
<1>2. KernelType'
  BY <1>1 DEF KernelType
<1>3. \A i \in DOMAIN queue : queue[i] \in Events
  BY SMT DEF ProcWatchInv, KernelInv, KernelType
<1>4. ExitsLast'
  <2> SUFFICES ASSUME NEW i \in DOMAIN queue', queue'[i].what = "exit"
               PROVE  /\ kproc'[queue'[i].actor] = "dead"
                      /\ \A j \in DOMAIN queue' : j > i => queue'[i].actor \notin Named(queue'[j])
    BY DEF ExitsLast
  <2>1. CASE i = Len(queue) + 1
    BY <1>1, <2>1, SMT
  <2>2. CASE i \in DOMAIN queue /\ queue'[i] = queue[i]
    <3>1. queue[i].actor \in Pids /\ kproc[queue[i].actor] = "dead"
      BY <1>3, <2>2, EventKinds, SMT DEF ProcWatchInv, KernelInv, ExitsLast
    <3>2. queue[i].actor \notin Named(e) /\ kproc'[queue[i].actor] = "dead"
      BY <3>1
    <3>3. ASSUME NEW j \in DOMAIN queue', j > i
          PROVE  queue'[i].actor \notin Named(queue'[j])
      BY <1>1, <2>2, <3>2, <3>3, SMT DEF ProcWatchInv, KernelInv, ExitsLast
    <3> QED
      BY <2>2, <3>2, <3>3
  <2> QED
    BY <1>1, <2>1, <2>2
<1>5. UnbornUnnamed'
  BY <1>1, SMT DEF ProcWatchInv, KernelInv, UnbornUnnamed
<1>6. \A q \in Pids, n \in Nat : n <= Len(queue) /\ kproc[q] = "alive" =>
        \/ kproc'[q] = "alive"
        \/ \E j \in DOMAIN queue' : j > n /\ queue'[j].what = "exit" /\ queue'[j].actor = q
  BY <1>1, SMT
<1>7. ForksLive'
  <2> SUFFICES ASSUME NEW i \in DOMAIN queue', queue'[i].what = "fork"
               PROVE  \/ kproc'[queue'[i].child] = "alive"
                      \/ \E j \in DOMAIN queue' : j > i /\ queue'[j].what = "exit" /\ queue'[j].actor = queue'[i].child
    BY DEF ForksLive
  <2>1. CASE i = Len(queue) + 1
    BY <1>1, <2>1
  <2>2. CASE i \in DOMAIN queue /\ queue'[i] = queue[i]
    <3>1. queue[i].child \in Pids
      BY <1>3, <2>2, EventKinds
    <3>2. CASE kproc[queue[i].child] = "alive"
      BY <1>1, <1>6, <2>2, <3>1, <3>2, SMTT(30)
    <3>3. CASE \E j \in DOMAIN queue : j > i /\ queue[j].what = "exit" /\ queue[j].actor = queue[i].child
      BY <1>1, <2>2, <3>3, SMT
    <3> QED
      BY <2>2, <3>2, <3>3, SMT DEF ProcWatchInv, KernelInv, ForksLive
  <2> QED
    BY <1>1, <2>1, <2>2
<1>8. ReadyDead'
  <2>1. \A k \in DOMAIN ready : ready[k] \in Pids
    BY SMT DEF ProcWatchInv, TableInv, TableType
  <2> QED
    BY <1>1, <2>1, SMT DEF ProcWatchInv, ReadyDead, tvars
<1>9. NoGhosts'
  <2> SUFFICES ASSUME ~lost, NEW p \in Descendants, wstatus[p] = Running
               PROVE  Alive(p)' \/ \E i \in DOMAIN queue' : queue'[i].what = "exit" /\ queue'[i].actor = p
    BY DEF NoGhosts, Descendants, tvars
  <2>1. p \in Pids
    BY DEF Descendants, ProcWatchInv, TableInv, TableType, All
  <2>2. CASE kproc[p] = "alive"
    BY <1>1, <1>6, <2>1, <2>2, SMT DEF Alive
  <2>3. CASE \E i \in DOMAIN queue : queue[i].what = "exit" /\ queue[i].actor = p
    BY <1>1, <2>3, SMT
  <2> QED
    BY <2>1, <2>2, <2>3 DEF ProcWatchInv, NoGhosts, Alive
<1>10. TableInv'
  BY SMTT(30) DEF ProcWatchInv, TableInv, TableType, Forest, ReadyOnce, tvars
<1> QED
  BY <1>2, <1>4, <1>5, <1>7, <1>8, <1>9, <1>10 DEF ProcWatchInv, KernelInv

\* The steps of the kernel.
LEMMA KernelSteps ==
    ASSUME ProcWatchInv, KernelStep
    PROVE  ProcWatchInv'
<1> KernelType /\ UNCHANGED <<tvars, lost>>
  BY DEF ProcWatchInv, KernelInv, KernelStep
<1>1. ASSUME NEW p \in Pids \cup {Self}, NEW c \in Pids, KFork(p, c)
      PROVE  ProcWatchInv'
  <2> DEFINE e == ForkEvent(p, c)
  <2>1. e \in Events /\ Named(e) = {p, c} /\ e.what = "fork" /\ e.child = c
    BY EventKinds, SMT
  <2>2. /\ queue' = Append(queue, e) /\ kproc[c] = "unborn" /\ kproc' = [kproc EXCEPT ![c] = "alive"]
        /\ (p = Self \/ (p \in Pids /\ kproc[p] = "alive")) /\ UNCHANGED leader
    BY <1>1 DEF KFork, Alive
  <2> HIDE DEF e
  <2>3. kproc' \in [Pids -> {"unborn", "alive", "dead"}] /\ leader' \subseteq Pids
    BY <2>2 DEF KernelType
  <2>4. \A q \in Pids : /\ kproc[q] = "dead" => kproc'[q] = "dead" /\ q \notin Named(e)
                        /\ kproc'[q] = "unborn" => kproc[q] = "unborn" /\ q \notin Named(e)
                        /\ kproc[q] = "alive" => kproc'[q] = "alive"
    BY <2>1, <2>2, ProcWatchAssumption DEF KernelType
  <2>5. kproc'[e.child] = "alive"
    BY <2>1, <2>2 DEF KernelType
  <2> QED
    BY <2>1, <2>2, <2>3, <2>4, <2>5, Queued
<1>2. ASSUME NEW p \in Pids, KSetsid(p)
      PROVE  ProcWatchInv'
  <2> DEFINE e == SidEvent(p)
  <2>1. e \in Events /\ Named(e) = {p} /\ e.what = "sid"
    BY EventKinds
  <2>2. queue' = Append(queue, e) /\ kproc[p] = "alive" /\ kproc' = kproc /\ leader' = leader \cup {p}
    BY <1>2 DEF KSetsid, Alive
  <2> HIDE DEF e
  <2>3. kproc' \in [Pids -> {"unborn", "alive", "dead"}] /\ leader' \subseteq Pids
    BY <2>2 DEF KernelType
  <2>4. \A q \in Pids : /\ kproc[q] = "dead" => kproc'[q] = "dead" /\ q \notin Named(e)
                        /\ kproc'[q] = "unborn" => kproc[q] = "unborn" /\ q \notin Named(e)
                        /\ kproc[q] = "alive" => kproc'[q] = "alive"
    BY <2>1, <2>2
  <2> QED
    BY <2>1, <2>2, <2>3, <2>4, Queued
<1>3. ASSUME NEW p \in Pids, NEW w \in Statuses, KExit(p, w)
      PROVE  ProcWatchInv'
  <2> DEFINE e == ExitEvent(p, w)
  <2>1. e \in Events /\ Named(e) = {p} /\ e.what = "exit" /\ e.actor = p
    BY EventKinds
  <2>2. /\ queue' = Append(queue, e) /\ kproc[p] = "alive" /\ kproc' = [kproc EXCEPT ![p] = "dead"]
        /\ leader' = leader \ {p}
    BY <1>3 DEF KExit, Alive
  <2> HIDE DEF e
  <2>3. kproc' \in [Pids -> {"unborn", "alive", "dead"}] /\ leader' \subseteq Pids
    BY <2>2 DEF KernelType
  <2>4. \A q \in Pids : /\ kproc[q] = "dead" => kproc'[q] = "dead" /\ q \notin Named(e)
                        /\ kproc'[q] = "unborn" => kproc[q] = "unborn" /\ q \notin Named(e)
                        /\ kproc[q] = "alive" => kproc'[q] = "alive" \/ e.actor = q
    BY <2>1, <2>2 DEF KernelType
  <2>5. kproc'[e.actor] = "dead"
    BY <2>1, <2>2 DEF KernelType
  <2> QED
    BY <2>1, <2>2, <2>3, <2>4, <2>5, Queued
<1>4. ASSUME NEW p \in Pids, KReuse(p)
      PROVE  ProcWatchInv'
  <2>1. /\ kproc[p] = "dead" /\ UNCHANGED <<leader, queue>> /\ kproc' = [kproc EXCEPT ![p] = "unborn"]
        /\ \A i \in DOMAIN ready : ready[i] # p
        /\ \A i \in DOMAIN queue : p \notin Named(queue[i])
    BY <1>4 DEF KReuse
  <2>2. kproc'[p] = "unborn" /\ \A q \in Pids \ {p} : kproc'[q] = kproc[q]
    BY <2>1 DEF KernelType
  <2>3. KernelType'
    BY <2>1 DEF KernelType
  <2>4. \A i \in DOMAIN queue : /\ queue[i].actor # p /\ (queue[i].what = "exit" => queue[i].actor \in Pids)
                                /\ queue[i].what = "fork" => queue[i].child \in Pids \ {p}
    <3> SUFFICES ASSUME NEW i \in DOMAIN queue
                 PROVE  /\ queue[i].actor # p /\ (queue[i].what = "exit" => queue[i].actor \in Pids)
                        /\ queue[i].what = "fork" => queue[i].child \in Pids \ {p}
      OBVIOUS
    <3>1. queue[i] \in Events
      BY SMT DEF KernelType
    <3> QED
      BY <2>1, <3>1, EventKinds, SMT
  <2>5. ExitsLast'
    BY <2>1, <2>2, <2>4 DEF ProcWatchInv, KernelInv, ExitsLast
  <2>6. UnbornUnnamed'
    BY <2>1, <2>2 DEF ProcWatchInv, KernelInv, UnbornUnnamed
  <2>7. ForksLive'
    BY <2>1, <2>2, <2>4, SMT DEF ProcWatchInv, KernelInv, ForksLive
  <2>8. ReadyDead'
    <3>1. \A k \in DOMAIN ready : ready[k] \in Pids
      BY SMT DEF ProcWatchInv, TableInv, TableType
    <3> QED
      BY <2>1, <2>2, <3>1 DEF ProcWatchInv, ReadyDead, tvars
  <2>9. NoGhosts'
    <3>1. Descendants \subseteq Pids
      BY DEF Descendants, ProcWatchInv, TableInv, TableType, All
    <3> QED
      BY <2>1, <2>2, <2>4, <3>1 DEF ProcWatchInv, NoGhosts, Descendants, tvars, Alive
  <2>10. TableInv'
    BY DEF ProcWatchInv, TableInv, TableType, Forest, ReadyOnce, tvars
  <2> QED
    BY <2>3, <2>5, <2>6, <2>7, <2>8, <2>9, <2>10 DEF ProcWatchInv, KernelInv
<1> QED
  BY <1>1, <1>2, <1>3, <1>4 DEF KernelStep
-----------------------------------------------------------------------------
(* The table.                                                                *)

\* Who is a child of whom.
LEMMA Family ==
    ASSUME TableInv
    PROVE  /\ InitPid \in processes /\ Self \in processes /\ InitPid \in All /\ Self \in All /\ Pids \subseteq All
           /\ \A p \in All \ Pids : p \in {Self, InitPid}
           /\ \A p \in All : children[p] \subseteq processes \cap Pids
           /\ \A p \in All \ processes : children[p] = {}
           /\ \A p \in All : \A c \in children[p] : ppid[c] = p
           /\ \A p \in Descendants : p \in Pids /\ ppid[p] \in processes /\ p \in children[ppid[p]]
           /\ \A k \in DOMAIN ready : ready[k] \in Pids /\ ready[k] \in processes
<1>1. TableType /\ Forest /\ ReadyOnce
  BY DEF TableInv
<1>2. \A p \in All : children[p] \subseteq Pids
  BY <1>1 DEF TableType
<1>3. \A k \in DOMAIN ready : ready[k] \in Pids
  BY <1>1, SMT DEF TableType
<1> QED
  BY <1>1, <1>2, <1>3, ProcWatchAssumption DEF TableType, Forest, ReadyOnce, Descendants, All

\* processes_init()
LEMMA Emptied ==
    ASSUME processes' = {InitPid, Self},
           ppid' = [p \in All |-> IF p \in {InitPid, Self} THEN p ELSE NoPid],
           sid' = [p \in All |-> IF p = InitPid THEN InitPid ELSE NoPid],
           children' = [p \in All |-> {}], wstatus' = [p \in All |-> Running], ready' = <<>>
    PROVE  TableInv'
<1>1. InitPid \in All /\ Self \in All
  BY DEF All
<1>2. TableType'
  BY <1>1, SMT DEF TableType
<1>3. Forest'
  BY <1>1 DEF Forest
<1>4. ReadyOnce'
  BY SMT DEF ReadyOnce
<1> QED
  BY <1>2, <1>3, <1>4 DEF TableInv

\* process_insert()
LEMMA Inserted ==
    ASSUME TableInv, NEW c \in Pids, NEW p \in Pids \cup {Self}, \A k \in DOMAIN ready : ready[k] # p,
           process_insert(c, p)
    PROVE  TableInv'
<1>1. CASE UNCHANGED tvars
  BY <1>1 DEF TableInv, TableType, Forest, ReadyOnce, tvars
<1>2. CASE c \notin processes /\ p \in processes
  <2>1. /\ processes' = processes \cup {c}
        /\ ppid' = [ppid EXCEPT ![c] = p] /\ sid' = [sid EXCEPT ![c] = sid[p]]
        /\ children' = [children EXCEPT ![p] = @ \cup {c}]
        /\ UNCHANGED <<wstatus, ready>>
    BY <1>2 DEF process_insert
  <2>2. p \in All /\ c \in All /\ p # c
    BY <1>2 DEF All
  <2>3. TableType'
    BY <2>1, <2>2 DEF TableInv, TableType
  <2>4. ppid'[c] = p /\ \A q \in All \ {c} : ppid'[q] = ppid[q]
    BY <2>1, <2>2 DEF TableInv, TableType
  <2>5. children'[p] = children[p] \cup {c} /\ \A q \in All \ {p} : children'[q] = children[q]
    BY <2>1, <2>2 DEF TableInv, TableType
  <2>6. Forest'
    <3>1. ASSUME NEW q \in processes', q \notin {Self, InitPid}
          PROVE  ppid'[q] \in processes' /\ q \in children'[ppid'[q]]
      <4>1. CASE q = c
        BY <1>2, <2>1, <2>4, <2>5, <4>1, SMT
      <4>2. CASE q # c
        <5>1. q \in Descendants /\ q \in Pids /\ ppid'[q] = ppid[q] /\ ppid[q] \in processes /\ q \in children[ppid[q]]
          BY <2>1, <2>4, <3>1, <4>2, Family DEF Descendants
        <5>2. ppid[q] \in All
          BY <5>1 DEF TableInv, TableType
        <5> QED
          BY <2>1, <2>5, <5>1, <5>2, SMT
      <4> QED
        BY <4>1, <4>2
    <3>2. ASSUME NEW q \in All, NEW x \in children'[q]
          PROVE  q \in processes' /\ x \in processes' /\ ppid'[x] = q
      <4>1. CASE q = p /\ x = c
        BY <1>2, <2>1, <2>4, <4>1
      <4>2. CASE x \in children[q]
        <5>1. q \in processes /\ x \in processes /\ ppid[x] = q /\ x \in Pids
          BY <4>2, Family
        <5> QED
          BY <1>2, <2>1, <2>4, <5>1, Family
      <4> QED
        BY <2>5, <3>2, <4>1, <4>2
    <3> QED
      BY <3>1, <3>2 DEF Forest
  <2>7. ReadyOnce'
    <3>1. \A k \in DOMAIN ready : ready[k] \in All /\ ready[k] # p
      BY Family
    <3>2. \A k \in DOMAIN ready : children'[ready[k]] = children[ready[k]]
      BY <2>5, <3>1
    <3> QED
      BY <2>1, <3>2 DEF TableInv, ReadyOnce
  <2> QED
    BY <2>3, <2>6, <2>7 DEF TableInv
<1> QED
  BY <1>1, <1>2 DEF process_insert

\* process_exit()
LEMMA Exited ==
    ASSUME TableInv, NEW p \in Pids, p \in processes, NEW w \in Statuses, \A k \in DOMAIN ready : ready[k] # p,
           process_exit(p, w)
    PROVE  TableInv'
<1>1. /\ wstatus' = [wstatus EXCEPT ![p] = w]
      /\ children' = [children EXCEPT ![p] = {}, ![InitPid] = @ \cup children[p]]
      /\ ppid' = [q \in All |-> IF q \in children[p] THEN InitPid ELSE ppid[q]]
      /\ ready' = Append(ready, p)
      /\ UNCHANGED <<processes, sid>>
  BY DEF process_exit, Reparented
<1>2. p \in All /\ InitPid \in All /\ p # InitPid
  BY ProcWatchAssumption DEF All
<1>3. /\ ready' \in Seq(Pids) /\ Len(ready) \in Nat /\ Len(ready) + 1 \in DOMAIN ready'
      /\ ready'[Len(ready) + 1] = p
      /\ \A i \in DOMAIN ready' :
            i \in Nat /\ (i = Len(ready) + 1 \/ (i \in DOMAIN ready /\ i <= Len(ready) /\ ready'[i] = ready[i]))
  BY <1>1, Appended, SMT DEF TableInv, TableType
<1>4. TableType'
  <2>1. ppid' \in [All -> All \cup {NoPid}]
    BY <1>1, <1>2 DEF TableInv, TableType
  <2>2. children' \in [All -> SUBSET Pids]
    BY <1>1, <1>2 DEF TableInv, TableType
  <2> QED
    BY <1>1, <1>2, <1>3, <2>1, <2>2 DEF TableInv, TableType
<1>5. /\ children'[p] = {} /\ children'[InitPid] = children[InitPid] \cup children[p]
      /\ \A q \in All \ {p, InitPid} : children'[q] = children[q]
  BY <1>1, <1>2 DEF TableInv, TableType
<1>6. \A q \in All : ppid'[q] = IF q \in children[p] THEN InitPid ELSE ppid[q]
  BY <1>1
<1>7. Forest'
  <2>1. ASSUME NEW q \in processes, q \notin {Self, InitPid}
        PROVE  ppid'[q] \in processes /\ q \in children'[ppid'[q]]
    <3>1. q \in Pids /\ q \in All /\ ppid[q] \in processes /\ q \in children[ppid[q]] /\ ppid[q] \in All
      BY <2>1, Family DEF Descendants, TableInv, TableType
    <3>2. CASE q \in children[p]
      BY <1>5, <1>6, <3>1, <3>2, Family
    <3>3. CASE q \notin children[p]
      BY <1>5, <1>6, <3>1, <3>3
    <3> QED
      BY <3>2, <3>3
  <2>2. ASSUME NEW q \in All, NEW x \in children'[q]
        PROVE  q \in processes /\ x \in processes /\ ppid'[x] = q
    <3>1. CASE q = InitPid /\ x \in children[p]
      BY <1>2, <1>6, <3>1, Family
    <3>2. CASE q # p /\ x \in children[q]
      <4>1. q \in processes /\ x \in processes /\ ppid[x] = q /\ x \in All
        BY <3>2, Family
      <4>2. x \notin children[p]
        BY <1>2, <3>2, <4>1, Family
      <4> QED
        BY <1>6, <4>1, <4>2
    <3> QED
      BY <1>2, <1>5, <2>2, <3>1, <3>2
  <2>3. \A q \in (processes \ {Self, InitPid})' : ppid'[q] \in processes' /\ q \in children'[ppid'[q]]
    BY <1>1, <2>1
  <2>4. \A q \in All : \A x \in children'[q] : q \in processes' /\ x \in processes' /\ ppid'[x] = q
    BY <1>1, <2>2
  <2> QED
    BY <2>3, <2>4 DEF Forest
<1>8. ReadyOnce'
  <2>1. ASSUME NEW k \in DOMAIN ready
        PROVE  ready[k] \in processes /\ wstatus'[ready[k]] # Running /\ children'[ready[k]] = {}
    <3>1. ready[k] \in Pids /\ ready[k] \in All /\ ready[k] # p /\ ready[k] # InitPid
      BY Family, ProcWatchAssumption, SMT
    <3> QED
      BY <1>1, <1>5, <3>1 DEF TableInv, ReadyOnce, TableType
  <2>2. p \in processes /\ wstatus'[p] # Running /\ children'[p] = {}
    BY <1>1, <1>2, <1>5, ProcWatchAssumption DEF TableInv, TableType
  <2>3. \A i \in DOMAIN ready' : ready'[i] \in processes /\ wstatus'[ready'[i]] # Running /\ children'[ready'[i]] = {}
    BY <1>3, <2>1, <2>2
  <2>4. \A i, j \in DOMAIN ready' : ready'[i] = ready'[j] => i = j
    BY <1>3 DEF TableInv, ReadyOnce
  <2> QED
    BY <1>1, <2>3, <2>4 DEF ReadyOnce
<1> QED
  BY <1>4, <1>7, <1>8 DEF TableInv

\* process_drop_recursive() reaches a family: every child of a member, and no
\* child of anybody else but the one it began with.
LEMMA FamilyReached ==
    ASSUME TableInv, NEW p \in Pids, p \in processes
    PROVE  /\ p \in Reached(p) /\ Reached(p) \subseteq processes \cap Pids
           /\ \A q \in Reached(p) : children[q] \subseteq Reached(p)
           /\ \A q \in processes \ Reached(p) : \A c \in children[q] \cap Reached(p) : c = p
<1> DEFINE R == Reached(p)
<1>1. p \in R /\ R \subseteq processes
  BY DEF Reached
<1>2. R \subseteq Pids
  <2> SUFFICES ASSUME NEW q \in R PROVE q \in Pids
    OBVIOUS
  <2> DEFINE S == processes \cap Pids
  <2>1. S \in SUBSET processes /\ p \in S /\ \A x \in S : children[x] \subseteq S
    BY Family
  <2> HIDE DEF S
  <2>2. q \in S
    BY <2>1 DEF Reached
  <2> QED
    BY <2>2 DEF S
<1>3. ASSUME NEW q \in R, NEW c \in children[q]
      PROVE  c \in R
  <2>1. c \in processes
    BY <1>1, <1>2, <1>3, Family
  <2>2. ASSUME NEW S \in SUBSET processes, p \in S, \A x \in S : children[x] \subseteq S
        PROVE  c \in S
    <3>1. q \in S
      BY <2>2 DEF Reached
    <3> QED
      BY <2>2, <3>1, <1>3
  <2> QED
    BY <2>1, <2>2 DEF Reached
<1>4. ASSUME NEW q \in processes \ R, NEW c \in children[q], c \in R, c # p
      PROVE  FALSE
  <2> DEFINE S == R \ {c}
  <2>0. processes \subseteq All
    BY DEF TableInv, TableType
  <2>1. ASSUME NEW x \in S, NEW d \in children[x]
        PROVE  d \in S
    <3>1. d \in R
      BY <1>3, <2>1
    <3>2. x # q /\ x \in All /\ q \in All
      BY <1>1, <1>4, <2>0
    <3>3. d # c
      BY <1>4, <3>2, Family, SMT
    <3> QED
      BY <3>1, <3>3
  <2>2. S \in SUBSET processes /\ p \in S /\ \A x \in S : children[x] \subseteq S
    BY <1>1, <1>4, <2>1
  <2> HIDE DEF S
  <2>3. c \in S
    BY <1>4, <2>2 DEF Reached
  <2> QED
    BY <2>3 DEF S
<1> QED
  BY <1>1, <1>2, <1>3, <1>4

\* A family leaves the table, and the list of the parent of the first of them.
LEMMA Forgotten ==
    ASSUME TableInv, NEW p \in Pids, p \in processes, NEW gone \in SUBSET (processes \cap Pids), p \in gone,
           \A q \in gone : children[q] \subseteq gone,
           \A q \in processes \ gone : \A c \in children[q] \cap gone : c = p,
           Forget(gone, Unparented(p))
    PROVE  /\ processes' = processes \ gone
           /\ ppid' \in [All -> All \cup {NoPid}] /\ sid' \in [All -> All \cup {NoPid}]
           /\ children' \in [All -> SUBSET Pids] /\ wstatus' \in [All -> Statuses \cup {Running}]
           /\ Forest'
           /\ \A q \in All \ gone : ppid'[q] = ppid[q] /\ wstatus'[q] = wstatus[q] /\ children'[q] \subseteq children[q]
<1> DEFINE kids == Unparented(p)
<1>1. ppid[p] \in processes /\ p \in children[ppid[p]] /\ ppid[p] \in All /\ p \in All /\ processes \subseteq All
  BY Family, ProcWatchAssumption DEF Descendants, TableInv, TableType
<1>2. /\ kids \in [All -> SUBSET Pids]
      /\ \A q \in All : kids[q] = IF q = ppid[p] THEN children[q] \ {p} ELSE children[q]
  BY <1>1 DEF Unparented, TableInv, TableType
<1>3. \A q \in All : kids[q] \subseteq children[q] /\ p \notin kids[q]
  BY <1>1, <1>2, Family, SMT
<1> HIDE DEF kids
<1>4. /\ processes' = processes \ gone
      /\ ppid' = [q \in All |-> IF q \in gone THEN NoPid ELSE ppid[q]]
      /\ sid' = [q \in All |-> IF q \in gone THEN NoPid ELSE sid[q]]
      /\ children' = [q \in All |-> IF q \in gone THEN {} ELSE kids[q]]
      /\ wstatus' = [q \in All |-> IF q \in gone THEN Running ELSE wstatus[q]]
  BY DEF Forget, kids
<1>5. /\ ppid' \in [All -> All \cup {NoPid}] /\ sid' \in [All -> All \cup {NoPid}]
      /\ children' \in [All -> SUBSET Pids] /\ wstatus' \in [All -> Statuses \cup {Running}]
  BY <1>2, <1>4 DEF TableInv, TableType
<1>6. ASSUME NEW q \in processes \ gone, q \notin {Self, InitPid}
      PROVE  ppid'[q] \in processes \ gone /\ q \in children'[ppid'[q]]
  <2>1. q \in Pids /\ q \in All /\ ppid[q] \in processes /\ q \in children[ppid[q]] /\ ppid[q] \in All
    BY <1>1, <1>6, Family DEF Descendants
  <2>2. ppid[q] \notin gone
    BY <1>6, <2>1
  <2>3. q \in kids[ppid[q]]
    BY <1>2, <1>6, <2>1
  <2> QED
    BY <1>4, <1>6, <2>1, <2>2, <2>3
<1>7. ASSUME NEW q \in All, NEW c \in children'[q]
      PROVE  q \in processes \ gone /\ c \in processes \ gone /\ ppid'[c] = q
  <2>1. q \notin gone /\ c \in kids[q]
    BY <1>4, <1>7
  <2>2. c \in children[q] /\ c # p /\ q \in processes /\ c \in processes /\ ppid[c] = q /\ c \in All
    BY <1>3, <2>1, Family, SMT
  <2>3. c \notin gone
    BY <2>1, <2>2
  <2> QED
    BY <1>4, <2>1, <2>2, <2>3
<1>8. Forest'
  <2>1. \A q \in (processes \ {Self, InitPid})' : ppid'[q] \in processes' /\ q \in children'[ppid'[q]]
    BY <1>4, <1>6
  <2>2. \A q \in All : \A c \in children'[q] : q \in processes' /\ c \in processes' /\ ppid'[c] = q
    BY <1>4, <1>7
  <2> QED
    BY <2>1, <2>2 DEF Forest
<1> QED
  BY <1>3, <1>4, <1>5, <1>8
\* Taking entries off the ready list.
LEMMA Unqueued ==
    ASSUME TableInv, NEW gone, Unqueue(gone)
    PROVE  /\ ready' \in Seq(Pids)
           /\ \A i \in DOMAIN ready' : \E a \in DOMAIN ready : ready'[i] = ready[a] /\ ready[a] \notin gone
           /\ \A a \in DOMAIN ready : ready[a] \in gone \/ \E i \in DOMAIN ready' : ready'[i] = ready[a]
           /\ \A i, j \in DOMAIN ready' : i < j =>
                \E a, b \in DOMAIN ready : a < b /\ ready[a] = ready'[i] /\ ready[b] = ready'[j]
           /\ \A i, j \in DOMAIN ready' : ready'[i] = ready'[j] => i = j
<1>1. PICK n \in 0 .. Len(ready) : \E q \in [1 .. n -> Pids] :
        /\ {q[i] : i \in 1 .. n} = {ready[i] : i \in DOMAIN ready} \ gone
        /\ \A i, j \in 1 .. n : i < j =>
                \E a, b \in DOMAIN ready : a < b /\ ready[a] = q[i] /\ ready[b] = q[j]
        /\ ready' = q
  BY DEF Unqueue
<1>2. PICK q \in [1 .. n -> Pids] :
        /\ {q[i] : i \in 1 .. n} = {ready[i] : i \in DOMAIN ready} \ gone
        /\ \A i, j \in 1 .. n : i < j =>
                \E a, b \in DOMAIN ready : a < b /\ ready[a] = q[i] /\ ready[b] = q[j]
        /\ ready' = q
  BY <1>1
<1>3. Len(ready) \in Nat /\ DOMAIN ready = 1 .. Len(ready)
  BY SMT DEF TableInv, TableType
<1>4. n \in Nat /\ DOMAIN ready' = 1 .. n /\ ready' \in Seq(Pids)
  BY <1>2, <1>3, SMT
<1>5. ASSUME NEW i \in 1 .. n
      PROVE  \E a \in DOMAIN ready : q[i] = ready[a] /\ ready[a] \notin gone
  <2>1. q[i] \in {ready[a] : a \in DOMAIN ready} \ gone
    BY <1>2, Zenon
  <2> QED
    BY <2>1
<1>6. ASSUME NEW a \in DOMAIN ready, ready[a] \notin gone
      PROVE  \E i \in 1 .. n : q[i] = ready[a]
  <2>1. ready[a] \in {q[i] : i \in 1 .. n}
    BY <1>2, <1>6, Zenon
  <2> QED
    BY <2>1
<1>7. ASSUME NEW i \in 1 .. n, NEW j \in 1 .. n, i < j
      PROVE  q[i] # q[j]
  <2>1. PICK a \in DOMAIN ready, b \in DOMAIN ready : a < b /\ ready[a] = q[i] /\ ready[b] = q[j]
    BY <1>2, <1>7
  <2>2. a # b
    BY <1>3, <2>1, SMT
  <2> QED
    BY <2>1, <2>2 DEF TableInv, ReadyOnce
<1>8. ASSUME NEW i \in 1 .. n, NEW j \in 1 .. n, q[i] = q[j]
      PROVE  i = j
  BY <1>4, <1>7, <1>8, SMT
<1> QED
  BY <1>2, <1>4, <1>5, <1>6, <1>8, SMTT(30)

\* process_drop()
LEMMA Dropped ==
    ASSUME TableInv, NEW p \in Pids, p \in processes, process_drop(p)
    PROVE  TableInv'
<1> DEFINE gone == Reached(p)
<1>1. /\ p \in gone /\ gone \in SUBSET (processes \cap Pids)
      /\ \A q \in gone : children[q] \subseteq gone
      /\ \A q \in processes \ gone : \A c \in children[q] \cap gone : c = p
  BY FamilyReached
<1>2. Forget(gone, Unparented(p)) /\ Unqueue(gone)
  BY DEF process_drop
<1> HIDE DEF gone
<1>3. /\ processes' = processes \ gone
      /\ ppid' \in [All -> All \cup {NoPid}] /\ sid' \in [All -> All \cup {NoPid}]
      /\ children' \in [All -> SUBSET Pids] /\ wstatus' \in [All -> Statuses \cup {Running}]
      /\ Forest'
      /\ \A q \in All \ gone : ppid'[q] = ppid[q] /\ wstatus'[q] = wstatus[q] /\ children'[q] \subseteq children[q]
  BY <1>1, <1>2, Forgotten
<1>4. /\ ready' \in Seq(Pids)
      /\ \A i \in DOMAIN ready' : \E a \in DOMAIN ready : ready'[i] = ready[a] /\ ready[a] \notin gone
      /\ \A i, j \in DOMAIN ready' : ready'[i] = ready'[j] => i = j
  BY <1>2, Unqueued
<1>5. TableType'
  BY <1>1, <1>3, <1>4, ProcWatchAssumption, SMT DEF TableInv, TableType
<1>6. ASSUME NEW i \in DOMAIN ready'
      PROVE  ready'[i] \in processes' /\ wstatus'[ready'[i]] # Running /\ children'[ready'[i]] = {}
  <2>1. PICK a \in DOMAIN ready : ready'[i] = ready[a] /\ ready[a] \notin gone
    BY <1>4
  <2>2. ready[a] \in processes /\ wstatus[ready[a]] # Running /\ children[ready[a]] = {} /\ ready[a] \in All
    BY Family DEF TableInv, ReadyOnce
  <2> QED
    BY <1>3, <2>1, <2>2
<1>7. ReadyOnce'
  BY <1>4, <1>6 DEF ReadyOnce
<1> QED
  BY <1>3, <1>5, <1>7 DEF TableInv

\* process_collect(), process_destroy()
LEMMA Collected ==
    ASSUME TableInv, ready # <<>>, Forget({Head(ready)}, Unparented(Head(ready))), ready' = Tail(ready)
    PROVE  TableInv'
<1> DEFINE h == Head(ready)
<1>1. /\ ready' \in Seq(Pids) /\ 1 \in DOMAIN ready /\ h = ready[1] /\ h \in Pids
      /\ \A i \in DOMAIN ready' : i \in Nat /\ i > 0 /\ i + 1 \in DOMAIN ready /\ ready'[i] = ready[i + 1]
  BY Tailed DEF TableInv, TableType
<1>2. h \in processes /\ children[h] = {}
  BY <1>1, SMT DEF TableInv, ReadyOnce
<1>3. Forget({h}, Unparented(h))
  OBVIOUS
<1> HIDE DEF h
<1>4. /\ processes' = processes \ {h}
      /\ ppid' \in [All -> All \cup {NoPid}] /\ sid' \in [All -> All \cup {NoPid}]
      /\ children' \in [All -> SUBSET Pids] /\ wstatus' \in [All -> Statuses \cup {Running}]
      /\ Forest'
      /\ \A q \in All \ {h} : ppid'[q] = ppid[q] /\ wstatus'[q] = wstatus[q] /\ children'[q] \subseteq children[q]
  BY <1>1, <1>2, <1>3, Forgotten, SMT
<1>5. TableType'
  BY <1>1, <1>4, ProcWatchAssumption, SMT DEF TableInv, TableType
<1>6. ASSUME NEW i \in DOMAIN ready'
      PROVE  ready'[i] \in processes' /\ wstatus'[ready'[i]] # Running /\ children'[ready'[i]] = {}
  <2>1. i + 1 \in DOMAIN ready /\ ready'[i] = ready[i + 1] /\ i + 1 # 1
    BY <1>1, SMT
  <2>2. ready[i + 1] # h
    BY <1>1, <2>1 DEF TableInv, ReadyOnce
  <2>3. /\ ready[i + 1] \in processes /\ wstatus[ready[i + 1]] # Running /\ children[ready[i + 1]] = {}
        /\ ready[i + 1] \in All
    BY <2>1, Family DEF TableInv, ReadyOnce
  <2> QED
    BY <1>4, <2>1, <2>2, <2>3
<1>7. \A i, j \in DOMAIN ready' : ready'[i] = ready'[j] => i = j
  <2> SUFFICES ASSUME NEW i \in DOMAIN ready', NEW j \in DOMAIN ready', ready'[i] = ready'[j]
               PROVE  i = j
    OBVIOUS
  <2>1. i + 1 = j + 1
    BY <1>1, SMT DEF TableInv, ReadyOnce
  <2> QED
    BY <1>1, <2>1, SMT
<1>8. ReadyOnce'
  BY <1>6, <1>7 DEF ReadyOnce
<1> QED
  BY <1>4, <1>5, <1>8 DEF TableInv
-----------------------------------------------------------------------------
(* The steps of procwatch.c.                                                 *)

\* An event is taken off the queue.
LEMMA Taken ==
    ASSUME ProcWatchInv, queue # <<>>, queue' = Tail(queue), UNCHANGED <<kproc, leader>>
    PROVE  /\ KernelInv' /\ Head(queue) \in Events
           /\ \A i \in DOMAIN queue' : \E j \in DOMAIN queue : j > 1 /\ queue'[i] = queue[j]
           /\ \A j \in DOMAIN queue : queue[j] = Head(queue) \/ \E i \in DOMAIN queue' : queue'[i] = queue[j]
           /\ 1 \in DOMAIN queue /\ Head(queue) = queue[1]
<1>1. /\ queue' \in Seq(Events) /\ 1 \in DOMAIN queue /\ Head(queue) = queue[1] /\ Head(queue) \in Events
      /\ \A i \in DOMAIN queue' : i \in Nat /\ i > 0 /\ i + 1 \in DOMAIN queue /\ queue'[i] = queue[i + 1]
      /\ \A i \in DOMAIN queue : i \in Nat /\ i >= 1 /\ (i # 1 => i - 1 \in DOMAIN queue' /\ queue'[i - 1] = queue[i])
  BY Tailed DEF ProcWatchInv, KernelInv, KernelType
<1>2. KernelType'
  BY <1>1 DEF ProcWatchInv, KernelInv, KernelType
<1>3. ExitsLast'
  <2> SUFFICES ASSUME NEW i \in DOMAIN queue', queue'[i].what = "exit"
               PROVE  /\ kproc[queue'[i].actor] = "dead"
                      /\ \A j \in DOMAIN queue' : j > i => queue'[i].actor \notin Named(queue'[j])
    BY DEF ExitsLast
  <2>1. i + 1 \in DOMAIN queue /\ queue'[i] = queue[i + 1]
    BY <1>1
  <2>2. ASSUME NEW j \in DOMAIN queue', j > i
        PROVE  queue'[i].actor \notin Named(queue'[j])
    <3>1. j + 1 \in DOMAIN queue /\ queue'[j] = queue[j + 1] /\ j + 1 > i + 1
      BY <1>1, <2>2, SMT
    <3> QED
      BY <2>1, <3>1 DEF ProcWatchInv, KernelInv, ExitsLast
  <2> QED
    BY <2>1, <2>2 DEF ProcWatchInv, KernelInv, ExitsLast
<1>4. UnbornUnnamed'
  BY <1>1 DEF ProcWatchInv, KernelInv, UnbornUnnamed
<1>5. ForksLive'
  <2> SUFFICES ASSUME NEW i \in DOMAIN queue', queue'[i].what = "fork", kproc[queue'[i].child] # "alive"
               PROVE  \E j \in DOMAIN queue' : j > i /\ queue'[j].what = "exit" /\ queue'[j].actor = queue'[i].child
    BY DEF ForksLive
  <2>1. i + 1 \in DOMAIN queue /\ queue'[i] = queue[i + 1]
    BY <1>1
  <2>2. PICK j \in DOMAIN queue : j > i + 1 /\ queue[j].what = "exit" /\ queue[j].actor = queue[i + 1].child
    BY <2>1 DEF ProcWatchInv, KernelInv, ForksLive
  <2>3. j - 1 \in DOMAIN queue' /\ j - 1 > i /\ queue'[j - 1] = queue[j]
    BY <1>1, <2>2, SMT
  <2> QED
    BY <2>1, <2>2, <2>3
<1>6. \A i \in DOMAIN queue' : \E j \in DOMAIN queue : j > 1 /\ queue'[i] = queue[j]
  BY <1>1, SMT
<1>7. \A j \in DOMAIN queue : queue[j] = Head(queue) \/ \E i \in DOMAIN queue' : queue'[i] = queue[j]
  BY <1>1
<1> QED
  BY <1>1, <1>2, <1>3, <1>4, <1>5, <1>6, <1>7 DEF KernelInv
\* procwatch_ingest()
LEMMA IngestSteps ==
    ASSUME ProcWatchInv, procwatch_ingest
    PROVE  ProcWatchInv'
<1> DEFINE e == Head(queue)
<1> TableInv /\ ReadyDead /\ lost \in BOOLEAN
  BY DEF ProcWatchInv
<1>1. queue # <<>> /\ queue' = Tail(queue) /\ UNCHANGED <<kproc, leader, lost>>
  BY DEF procwatch_ingest, IngestIgnored, IngestFork, IngestSid, IngestExit
<1>2. /\ KernelInv' /\ e \in Events
      /\ \A i \in DOMAIN queue' : \E j \in DOMAIN queue : j > 1 /\ queue'[i] = queue[j]
      /\ \A j \in DOMAIN queue : queue[j] = e \/ \E i \in DOMAIN queue' : queue'[i] = queue[j]
      /\ 1 \in DOMAIN queue /\ e = queue[1]
  BY <1>1, Taken
<1> HIDE DEF e
<1>3. /\ e.what \in {"fork", "sid", "exit"} /\ e.actor \in Pids \cup {Self}
      /\ e.what # "fork" => e.actor \in Pids
      /\ e.what = "fork" => e.child \in Pids /\ Named(e) = {e.actor, e.child}
      /\ e.what = "exit" => e.wstatus \in Statuses
      /\ e.actor \in Named(e)
  BY <1>2, EventKinds
<1>4. \A k \in DOMAIN ready : ready[k] # e.actor
  BY <1>2, <1>3 DEF ReadyDead
<1>5. ASSUME \A k \in DOMAIN ready' : \E a \in DOMAIN ready : ready'[k] = ready[a]
      PROVE  ReadyDead'
  BY <1>1, <1>2, <1>5, SMT DEF ReadyDead
<1>6. ASSUME \A p \in Descendants' : wstatus'[p] = Running =>
                \/ p \in Descendants /\ wstatus[p] = Running /\ (e.what = "exit" => e.actor # p)
                \/ e.what = "fork" /\ e.child = p
      PROVE  NoGhosts'
  <2> SUFFICES ASSUME ~lost, NEW p \in Descendants', wstatus'[p] = Running
               PROVE  Alive(p)' \/ \E i \in DOMAIN queue' : queue'[i].what = "exit" /\ queue'[i].actor = p
    BY <1>1 DEF NoGhosts
  <2>1. CASE p \in Descendants /\ wstatus[p] = Running /\ (e.what = "exit" => e.actor # p)
    <3>1. Alive(p) \/ \E i \in DOMAIN queue : queue[i].what = "exit" /\ queue[i].actor = p
      BY <2>1 DEF ProcWatchInv, NoGhosts
    <3> QED
      BY <1>1, <1>2, <2>1, <3>1, SMT DEF Alive
  <2>2. CASE e.what = "fork" /\ e.child = p
    <3>1. \/ kproc[p] = "alive"
          \/ \E j \in DOMAIN queue : j > 1 /\ queue[j].what = "exit" /\ queue[j].actor = p
      BY <1>2, <2>2 DEF ProcWatchInv, KernelInv, ForksLive
    <3>2. p \in Pids
      BY <1>3, <2>2
    <3>3. ASSUME NEW j \in DOMAIN queue, queue[j].what = "exit"
          PROVE  queue[j] # e
      BY <2>2, <3>3
    <3> QED
      BY <1>1, <1>2, <3>1, <3>2, <3>3, SMT DEF Alive
  <2> QED
    BY <1>6, <2>1, <2>2
<1>7. CASE IngestIgnored
  <2>1. UNCHANGED tvars /\ e.actor \notin processes
    BY <1>7 DEF IngestIgnored, e
  <2>2. TableInv'
    BY <2>1 DEF TableInv, TableType, Forest, ReadyOnce, tvars
  <2>3. ReadyDead'
    BY <1>5, <2>1 DEF tvars
  <2>4. NoGhosts'
    BY <1>6, <2>1 DEF tvars, Descendants
  <2> QED
    BY <1>1, <1>2, <2>2, <2>3, <2>4 DEF ProcWatchInv
<1>8. CASE IngestFork
  <2>1. e.what = "fork" /\ e.actor \in processes /\ process_insert(e.child, e.actor)
    BY <1>8 DEF IngestFork, e
  <2>2. TableInv'
    BY <1>3, <1>4, <2>1, Inserted
  <2>3. UNCHANGED <<ready, wstatus>> /\ processes' \subseteq processes \cup {e.child}
    BY <2>1 DEF process_insert, tvars
  <2>4. ReadyDead'
    BY <1>5, <2>3
  <2>5. NoGhosts'
    BY <1>6, <2>1, <2>3 DEF Descendants
  <2> QED
    BY <1>1, <1>2, <2>2, <2>4, <2>5 DEF ProcWatchInv
<1>9. CASE IngestSid
  <2>1. e.what = "sid" /\ e.actor \in processes /\ e.actor \in Pids
    BY <1>3, <1>9 DEF IngestSid, e
  <2>2. CASE sid' = [sid EXCEPT ![e.actor] = e.actor] /\ UNCHANGED <<processes, ppid, children, wstatus, ready>>
    <3>1. e.actor \in All
      BY <2>1 DEF All
    <3>2. TableInv'
      BY <2>2, <3>1 DEF TableInv, TableType, Forest, ReadyOnce
    <3>3. ReadyDead'
      BY <1>5, <2>2
    <3>4. NoGhosts'
      BY <1>6, <2>1, <2>2 DEF Descendants
    <3> QED
      BY <1>1, <1>2, <3>2, <3>3, <3>4 DEF ProcWatchInv
  <2>3. CASE process_drop(e.actor)
    <3> DEFINE gone == Reached(e.actor)
    <3>1. TableInv'
      BY <2>1, <2>3, Dropped
    <3>2. /\ processes' = processes \ gone
          /\ wstatus' = [q \in All |-> IF q \in gone THEN Running ELSE wstatus[q]]
          /\ Unqueue(gone)
      BY <2>3 DEF process_drop, Forget
    <3> HIDE DEF gone
    <3>3. \A i \in DOMAIN ready' : \E a \in DOMAIN ready : ready'[i] = ready[a]
      BY <3>2, Unqueued, SMT
    <3>4. ReadyDead'
      BY <1>5, <3>3
    <3>5. NoGhosts'
      <4>1. ASSUME NEW p \in Descendants' PROVE p \in Descendants /\ wstatus'[p] = wstatus[p]
        BY <3>2 DEF Descendants, TableInv, TableType
      <4> QED
        BY <1>6, <2>1, <4>1
    <3> QED
      BY <1>1, <1>2, <3>1, <3>4, <3>5 DEF ProcWatchInv
  <2> QED
    BY <1>9, <2>2, <2>3 DEF IngestSid, e
<1>10. CASE IngestExit
  <2>1. /\ e.what = "exit" /\ e.actor \in processes /\ e.actor \in Pids /\ e.wstatus \in Statuses
        /\ process_exit(e.actor, e.wstatus)
    BY <1>3, <1>10 DEF IngestExit, e
  <2>2. TableInv'
    BY <1>4, <2>1, Exited
  <2>3. /\ wstatus' = [wstatus EXCEPT ![e.actor] = e.wstatus] /\ UNCHANGED processes
        /\ ready' = Append(ready, e.actor)
    BY <2>1 DEF process_exit
  <2>4. ReadyDead'
    <3>1. kproc[e.actor] = "dead" /\ \A j \in DOMAIN queue : j > 1 => e.actor \notin Named(queue[j])
      BY <1>2, <2>1 DEF ProcWatchInv, KernelInv, ExitsLast
    <3>2. \A k \in DOMAIN ready' : ready'[k] = e.actor \/ \E a \in DOMAIN ready : ready'[k] = ready[a]
      <4>1. ready \in Seq(Pids)
        BY DEF TableInv, TableType
      <4> QED
        BY <2>1, <2>3, <4>1, Appended, SMT
    <3>3. ASSUME NEW k \in DOMAIN ready', NEW i \in DOMAIN queue'
          PROVE  ready'[k] \notin Named(queue'[i])
      BY <1>2, <3>1, <3>2, SMT DEF ReadyDead
    <3>4. ASSUME NEW k \in DOMAIN ready'
          PROVE  kproc[ready'[k]] = "dead"
      BY <3>1, <3>2 DEF ReadyDead
    <3> QED
      BY <1>1, <3>3, <3>4 DEF ReadyDead
  <2>5. NoGhosts'
    <3>1. e.actor \in All /\ \A p \in Descendants : p \in All
      BY <2>1 DEF All, Descendants, TableInv, TableType
    <3>2. wstatus'[e.actor] # Running /\ \A p \in Descendants : p # e.actor => wstatus'[p] = wstatus[p]
      BY <2>1, <2>3, <3>1, ProcWatchAssumption DEF TableInv, TableType
    <3> QED
      BY <1>6, <2>3, <3>2 DEF Descendants
  <2> QED
    BY <1>1, <1>2, <2>2, <2>4, <2>5 DEF ProcWatchInv
<1> QED
  BY <1>7, <1>8, <1>9, <1>10 DEF procwatch_ingest

\* process_collect(), procwatch_drain() and procwatch_reconnect()
LEMMA OtherSteps ==
    ASSUME ProcWatchInv, process_collect \/ Drain \/ procwatch_reconnect
    PROVE  ProcWatchInv'
<1> KernelInv /\ TableInv /\ ReadyDead /\ lost \in BOOLEAN
  BY DEF ProcWatchInv
<1>1. CASE process_collect
  <2> DEFINE h == Head(ready)
  <2>1. /\ ready # <<>> /\ ready' = Tail(ready) /\ UNCHANGED <<kvars, lost>>
        /\ Forget({h}, Unparented(h))
    BY <1>1 DEF process_collect
  <2>2. TableInv'
    BY <2>1, Collected
  <2> HIDE DEF h
  <2>3. \A i \in DOMAIN ready' : i + 1 \in DOMAIN ready /\ ready'[i] = ready[i + 1]
    BY <2>1, Tailed DEF TableInv, TableType
  <2>4. ReadyDead'
    BY <2>1, <2>3 DEF ReadyDead, kvars
  <2>5. ASSUME NEW p \in Descendants' PROVE p \in Descendants /\ wstatus'[p] = wstatus[p]
    BY <2>1 DEF Forget, Descendants, TableInv, TableType
  <2>6. NoGhosts'
    BY <2>1, <2>5 DEF ProcWatchInv, NoGhosts, kvars, Alive
  <2>7. KernelInv'
    BY <2>1 DEF KernelInv, KernelType, ExitsLast, UnbornUnnamed, ForksLive, kvars
  <2> QED
    BY <2>1, <2>2, <2>4, <2>6, <2>7 DEF ProcWatchInv
<1>2. CASE Drain
  <2>1. TableInv'
    BY <1>2, Emptied DEF Drain
  <2>2. ready' = <<>> /\ Descendants' = {} /\ lost' = FALSE /\ UNCHANGED kvars
    BY <1>2 DEF Drain, Descendants
  <2>3. KernelInv'
    BY <2>2 DEF KernelInv, KernelType, ExitsLast, UnbornUnnamed, ForksLive, kvars
  <2>4. ReadyDead' /\ NoGhosts'
    BY <2>2, SMT DEF ReadyDead, NoGhosts
  <2> QED
    BY <2>1, <2>2, <2>3, <2>4 DEF ProcWatchInv
<1>3. CASE procwatch_reconnect
  <2>1. queue' = <<>> /\ lost' = TRUE /\ UNCHANGED <<kproc, leader, tvars>>
    BY <1>3 DEF procwatch_reconnect
  <2>2. TableInv'
    BY <2>1 DEF TableInv, TableType, Forest, ReadyOnce, tvars
  <2>3. KernelInv'
    BY <2>1, SMT DEF KernelInv, KernelType, ExitsLast, UnbornUnnamed, ForksLive
  <2>4. ReadyDead' /\ NoGhosts'
    BY <2>1, SMT DEF ReadyDead, NoGhosts, tvars
  <2> QED
    BY <2>1, <2>2, <2>3, <2>4 DEF ProcWatchInv
<1> QED
  BY <1>1, <1>2, <1>3

\* The invariant holds at first.
LEMMA ProcWatchStart == Init => ProcWatchInv
<1> SUFFICES ASSUME Init PROVE ProcWatchInv
  OBVIOUS
<1>1. KernelInv
  BY SMT DEF Init, KernelInit, KernelInv, KernelType, ExitsLast, UnbornUnnamed, ForksLive
<1>2. InitPid \in All /\ Self \in All
  BY DEF All
<1>3. TableType /\ Forest /\ ReadyOnce
  BY <1>2, SMT DEF Init, TableInit, TableType, Forest, ReadyOnce
<1>4. ReadyDead /\ NoGhosts
  BY SMT DEF Init, TableInit, ReadyDead, NoGhosts, Descendants
<1> QED
  BY <1>1, <1>3, <1>4 DEF ProcWatchInv, TableInv, Init

\* The invariant holds throughout.
THEOREM ProcWatchCorrect == Spec => []ProcWatchInv
<1>1. ProcWatchInv /\ [Next]_vars => ProcWatchInv'
  <2> SUFFICES ASSUME ProcWatchInv, [Next]_vars PROVE ProcWatchInv'
    OBVIOUS
  <2>1. CASE UNCHANGED vars
    <3>1. UNCHANGED <<kproc, leader, queue, processes, ppid, sid, children, wstatus, ready, lost>>
      BY <2>1 DEF vars, kvars, tvars
    <3>2. KernelInv'
      BY <3>1 DEF ProcWatchInv, KernelInv, KernelType, ExitsLast, UnbornUnnamed, ForksLive
    <3>3. TableInv'
      BY <3>1 DEF ProcWatchInv, TableInv, TableType, Forest, ReadyOnce
    <3> QED
      BY <3>1, <3>2, <3>3 DEF ProcWatchInv, ReadyDead, NoGhosts, Descendants, Alive
  <2> QED
    BY <2>1, KernelSteps, IngestSteps, OtherSteps DEF Next
<1> QED
  BY <1>1, ProcWatchStart, PTL DEF Spec

\* process_drop_recursive() and process_destroy() walk a forest, and process_collect()
\* hands out every process once, whatever events came in what order, and whatever
\* was lost.
THEOREM StructuresSound == Spec => []Consistent
<1>1. ProcWatchInv => Consistent
  BY DEF ProcWatchInv, KernelInv, TableInv, TableType, Consistent, TypeOK
<1> QED
  BY <1>1, ProcWatchCorrect, PTL

\* Unless events were lost, a process that the table takes for running is alive, or
\* its exit is still to be read.
THEOREM NoGhostsKept == Spec => []NoGhosts
<1>1. ProcWatchInv => NoGhosts
  BY DEF ProcWatchInv
<1> QED
  BY <1>1, ProcWatchCorrect, PTL
-----------------------------------------------------------------------------
(* The table of ProcTable.                                                   *)

\* Those before an element of a sequence without repetitions.
LEMMA BeforeIs ==
    ASSUME NEW S, NEW s \in Seq(S), \A i, j \in DOMAIN s : s[i] = s[j] => i = j, NEW k \in DOMAIN s
    PROVE  \A x : x \in Before(s, s[k]) <=> \E i \in DOMAIN s : i < k /\ x = s[i]
<1> DEFINE at == CHOOSE i \in DOMAIN s : s[i] = s[k]
<1>1. at \in DOMAIN s /\ s[at] = s[k]
  BY Zenon
<1>2. at = k
  BY <1>1
<1>3. Before(s, s[k]) = {s[i] : i \in 1 .. (at - 1)}
  BY DEF Before
<1> HIDE DEF at
<1>4. \A i : i \in 1 .. (k - 1) <=> i \in DOMAIN s /\ i < k
  BY SMT
<1> QED
  BY <1>2, <1>3, <1>4, Zenon

\* What is seen of the table.
LEMMA Seen ==
    /\ PT!Tracked(TableView) = Descendants /\ PT!ReadyPids(TableView) = Ready
    /\ \A p \in Descendants : TableView.ppid[p] = ppid[p]
    /\ \A p \in Ready : TableView.ready[p] = [wstatus |-> wstatus[p], after |-> Before(ready, p)]
  BY DEF TableView, PT!Tracked, PT!ReadyPids

\* The children of a process are those with its number for their parent's.
LEMMA ChildrenOf ==
    ASSUME TableInv, NEW p \in All
    PROVE  children[p] = {c \in Descendants : ppid[c] = p}
  BY Family, ProcWatchAssumption, SMT DEF Descendants

\* What drops entries from the table drops them from the table seen.
LEMMA WithoutSeen ==
    ASSUME TableInv, NEW gone, Descendants' = Descendants \ gone,
           \A q \in Descendants' : ppid'[q] = ppid[q] /\ wstatus'[q] = wstatus[q],
           Ready' = Ready \ gone, Ready \subseteq Descendants,
           \A q \in Ready' : Before(ready', q) = Before(ready, q) \ gone
    PROVE  TableView' = PT!Without(TableView, gone)
<1>1. PT!Without(TableView, gone) =
        [ppid  |-> [p \in Descendants \ gone |-> TableView.ppid[p]],
         ready |-> [p \in Ready \ gone |->
                        [wstatus |-> TableView.ready[p].wstatus, after |-> TableView.ready[p].after \ gone]]]
  BY Seen DEF PT!Without
<1>2. [p \in Descendants' |-> ppid'[p]] = [p \in Descendants \ gone |-> TableView.ppid[p]]
  BY Seen
<1>3. ASSUME NEW p \in Ready'
      PROVE  [wstatus |-> wstatus'[p], after |-> Before(ready', p)]
             = [wstatus |-> TableView.ready[p].wstatus, after |-> TableView.ready[p].after \ gone]
  <2>1. p \in Ready /\ p \in Descendants' /\ wstatus'[p] = wstatus[p] /\ Before(ready', p) = Before(ready, p) \ gone
    OBVIOUS
  <2>2. TableView.ready[p] = [wstatus |-> wstatus[p], after |-> Before(ready, p)]
    BY <2>1, Seen
  <2> QED
    BY <2>1, <2>2, SMT
<1>4. [p \in Ready' |-> [wstatus |-> wstatus'[p], after |-> Before(ready', p)]]
      = [p \in Ready \ gone |->
            [wstatus |-> TableView.ready[p].wstatus, after |-> TableView.ready[p].after \ gone]]
  BY <1>3
<1>5. TableView' = [ppid  |-> [p \in Descendants' |-> ppid'[p]],
                    ready |-> [p \in Ready' |-> [wstatus |-> wstatus'[p], after |-> Before(ready', p)]]]
  BY DEF TableView
<1> QED
  BY <1>1, <1>2, <1>4, <1>5

\* process_insert()
LEMMA InsertSeen ==
    ASSUME TableInv, NEW c \in Pids, NEW p \in Pids \cup {Self}, process_insert(c, p)
    PROVE  TableView' = PT!Insert(TableView, c, p) \/ UNCHANGED TableView
<1>1. CASE UNCHANGED tvars
  BY <1>1, SMT DEF tvars, TableView, Descendants, Ready
<1>2. CASE c \notin processes /\ p \in processes
  <2>1. /\ processes' = processes \cup {c}
        /\ ppid' = [ppid EXCEPT ![c] = p] /\ UNCHANGED <<wstatus, ready>>
    BY <1>2 DEF process_insert
  <2>2. /\ c \notin Descendants /\ p \in Descendants \cup {Self} /\ Descendants' = Descendants \cup {c}
        /\ Descendants \subseteq All /\ c \in All
    BY <1>2, <2>1, ProcWatchAssumption DEF Descendants, All, TableInv, TableType
  <2>3. [q \in Descendants' |-> ppid'[q]]
        = [q \in Descendants \cup {c} |-> IF q = c THEN p ELSE TableView.ppid[q]]
    <3>1. \A q \in Descendants \cup {c} : ppid'[q] = IF q = c THEN p ELSE TableView.ppid[q]
      BY <2>1, <2>2, Seen DEF TableInv, TableType
    <3> QED
      BY <2>2, <3>1
  <2>4. Ready' = Ready /\ \A q : Before(ready', q) = Before(ready, q)
    BY <2>1 DEF Ready
  <2>5. TableView'.ready = TableView.ready
    BY <2>1, <2>4 DEF TableView
  <2>6. PT!Insert(TableView, c, p) =
            [ppid  |-> [q \in Descendants \cup {c} |-> IF q = c THEN p ELSE TableView.ppid[q]],
             ready |-> TableView.ready]
    BY <2>2, Seen DEF PT!Insert
  <2>7. TableView' = [ppid |-> [q \in Descendants' |-> ppid'[q]], ready |-> TableView.ready]
    BY <2>5 DEF TableView
  <2> QED
    BY <2>3, <2>6, <2>7
<1> QED
  BY <1>1, <1>2 DEF process_insert
\* process_exit()
LEMMA ExitSeen ==
    ASSUME TableInv, NEW p \in Pids, p \in processes, NEW w \in Statuses, p \notin Ready, process_exit(p, w)
    PROVE  TableView' = PT!Exit(TableView, p, w)
<1>1. /\ wstatus' = [wstatus EXCEPT ![p] = w] /\ ready' = Append(ready, p) /\ UNCHANGED processes
      /\ ppid' = [q \in All |-> IF q \in children[p] THEN InitPid ELSE ppid[q]]
  BY DEF process_exit
<1>2. p \in Descendants /\ p \in All /\ Descendants' = Descendants /\ Descendants \subseteq All /\ Ready \subseteq All
  BY <1>1, Family, ProcWatchAssumption, SMTT(30) DEF Descendants, All, TableInv, TableType, Ready
<1>3. /\ ready \in Seq(Pids) /\ ready' \in Seq(Pids) /\ Len(ready) \in Nat /\ Len(ready) + 1 \in DOMAIN ready'
      /\ ready'[Len(ready) + 1] = p
      /\ \A i \in DOMAIN ready' :
            i \in Nat /\ (i = Len(ready) + 1 \/ (i \in DOMAIN ready /\ i <= Len(ready) /\ ready'[i] = ready[i]))
      /\ \A i \in DOMAIN ready : i \in Nat /\ i <= Len(ready) /\ i \in DOMAIN ready' /\ ready'[i] = ready[i]
  BY <1>1, Appended, SMTT(30) DEF TableInv, TableType
<1>4. Ready' = Ready \cup {p}
  BY <1>3 DEF Ready
<1>5. \A i, j \in DOMAIN ready' : ready'[i] = ready'[j] => i = j
  BY <1>3, SMT DEF TableInv, ReadyOnce, Ready
<1>6. Before(ready', p) = Ready
  <2>1. \A x : x \in Before(ready', ready'[Len(ready) + 1]) <=>
                \E i \in DOMAIN ready' : i < Len(ready) + 1 /\ x = ready'[i]
    BY <1>3, <1>5, BeforeIs
  <2> QED
    BY <1>3, <2>1, SMT DEF Ready
<1>7. ASSUME NEW q \in Ready
      PROVE  Before(ready', q) = Before(ready, q)
  <2>1. PICK k \in DOMAIN ready : q = ready[k]
    BY DEF Ready
  <2>2. k \in DOMAIN ready' /\ q = ready'[k]
    BY <1>3, <2>1
  <2>3. \A x : x \in Before(ready', q) <=> \E i \in DOMAIN ready' : i < k /\ x = ready'[i]
    BY <1>3, <1>5, <2>2, BeforeIs, SMT
  <2>4. \A x : x \in Before(ready, q) <=> \E i \in DOMAIN ready : i < k /\ x = ready[i]
    BY <1>3, <2>1, BeforeIs, SMTT(30) DEF TableInv, ReadyOnce
  <2>5. \A x : x \in Before(ready', q) <=> x \in Before(ready, q)
    BY <1>3, <2>1, <2>3, <2>4, SMT
  <2> QED
    BY <2>5
<1>8. [q \in Descendants' |-> ppid'[q]] = PT!Orphan(TableView, p)
  <2>1. PT!Orphan(TableView, p) = [q \in Descendants |-> IF TableView.ppid[q] = p THEN InitPid ELSE TableView.ppid[q]]
    BY Seen DEF PT!Orphan
  <2>2. \A q \in Descendants : ppid'[q] = IF TableView.ppid[q] = p THEN InitPid ELSE TableView.ppid[q]
    BY <1>1, <1>2, Seen, ChildrenOf, SMTT(30)
  <2> QED
    BY <1>2, <2>1, <2>2
<1>9. [q \in Ready' |-> [wstatus |-> wstatus'[q], after |-> Before(ready', q)]]
      = [q \in Ready \cup {p} |-> IF q = p THEN [wstatus |-> w, after |-> Ready] ELSE TableView.ready[q]]
  <2>1. ASSUME NEW q \in Ready \cup {p}
        PROVE  [wstatus |-> wstatus'[q], after |-> Before(ready', q)]
               = IF q = p THEN [wstatus |-> w, after |-> Ready] ELSE TableView.ready[q]
    <3>1. CASE q = p
      BY <1>1, <1>2, <1>6, <3>1 DEF TableInv, TableType
    <3>2. CASE q \in Ready /\ q # p
      <4>1. wstatus'[q] = wstatus[q]
        BY <1>1, <1>2, <3>2 DEF TableInv, TableType
      <4> QED
        BY <1>7, <3>2, <4>1, Seen
    <3> QED
      BY <3>1, <3>2
  <2> QED
    BY <1>4, <2>1
<1>10. PT!Exit(TableView, p, w) =
        [ppid  |-> PT!Orphan(TableView, p),
         ready |-> [q \in Ready \cup {p} |-> IF q = p THEN [wstatus |-> w, after |-> Ready] ELSE TableView.ready[q]]]
  BY <1>2, Seen DEF PT!Exit
<1>11. TableView' = [ppid  |-> [q \in Descendants' |-> ppid'[q]],
                     ready |-> [q \in Ready' |-> [wstatus |-> wstatus'[q], after |-> Before(ready', q)]]]
  BY DEF TableView
<1> QED
  BY <1>8, <1>9, <1>10, <1>11

\* process_drop_recursive() reaches the subtree.
LEMMA ReachedSeen ==
    ASSUME TableInv, NEW p \in Pids, p \in processes
    PROVE  Reached(p) = PT!Subtree(TableView, p)
<1>1. PT!Subtree(TableView, p) =
        {q \in Descendants : \A S \in SUBSET Descendants :
            (p \in S /\ \A c \in Descendants : TableView.ppid[c] \in S => c \in S) => q \in S}
  BY Seen DEF PT!Subtree
<1>2. processes \cap Pids = Descendants /\ processes \subseteq All
  BY Family, ProcWatchAssumption, SMT DEF Descendants, TableInv, TableType
<1>3. ASSUME NEW q \in Reached(p)
      PROVE  q \in PT!Subtree(TableView, p)
  <2>1. q \in Descendants
    BY <1>2, FamilyReached
  <2>2. ASSUME NEW S \in SUBSET Descendants, p \in S, \A c \in Descendants : TableView.ppid[c] \in S => c \in S
        PROVE  q \in S
    <3>1. S \in SUBSET processes
      BY DEF Descendants
    <3>2. \A x \in S : children[x] \subseteq S
      BY <1>2, <2>2, <3>1, ChildrenOf, Seen, SMT
    <3> QED
      BY <2>2, <3>1, <3>2 DEF Reached
  <2> QED
    BY <1>1, <2>1, <2>2
<1>4. ASSUME NEW q \in PT!Subtree(TableView, p)
      PROVE  q \in Reached(p)
  <2>1. /\ q \in Descendants
        /\ \A S \in SUBSET Descendants : (p \in S /\ \A c \in Descendants : TableView.ppid[c] \in S => c \in S) => q \in S
    BY <1>1
  <2>2. ASSUME NEW S \in SUBSET processes, p \in S, \A x \in S : children[x] \subseteq S
        PROVE  q \in S
    <3> DEFINE T == S \cap Descendants
    <3>1. T \in SUBSET Descendants /\ p \in T
      BY <1>2, <2>2
    <3>2. ASSUME NEW c \in Descendants, TableView.ppid[c] \in T
          PROVE  c \in T
      <4>1. TableView.ppid[c] = ppid[c] /\ c \in children[ppid[c]]
        BY Seen, Family
      <4> QED
        BY <2>2, <3>2, <4>1
    <3> HIDE DEF T
    <3>3. q \in T
      BY <2>1, <3>1, <3>2
    <3> QED
      BY <3>3 DEF T
  <2> QED
    BY <1>2, <2>1, <2>2 DEF Reached
<1> QED
  BY <1>3, <1>4
\* process_drop()
LEMMA DropSeen ==
    ASSUME TableInv, NEW p \in Pids, p \in processes, process_drop(p)
    PROVE  TableView' = PT!Drop(TableView, p)
<1> DEFINE gone == Reached(p)
<1>1. /\ processes' = processes \ gone
      /\ ppid' = [q \in All |-> IF q \in gone THEN NoPid ELSE ppid[q]]
      /\ wstatus' = [q \in All |-> IF q \in gone THEN Running ELSE wstatus[q]]
      /\ Unqueue(gone)
  BY DEF process_drop, Forget
<1>2. PT!Drop(TableView, p) = PT!Without(TableView, gone)
  <2>1. p \in Descendants
    BY ProcWatchAssumption DEF Descendants
  <2> QED
    BY <2>1, Seen, ReachedSeen DEF PT!Drop
<1> HIDE DEF gone
<1>3. Descendants' = Descendants \ gone /\ Descendants \subseteq All /\ Ready \subseteq Descendants
  BY <1>1, Family, ProcWatchAssumption, SMT DEF Descendants, Ready, TableInv, TableType
<1>4. \A q \in Descendants' : ppid'[q] = ppid[q] /\ wstatus'[q] = wstatus[q]
  BY <1>1, <1>3
<1>5. /\ ready' \in Seq(Pids)
      /\ \A i \in DOMAIN ready' : \E a \in DOMAIN ready : ready'[i] = ready[a] /\ ready[a] \notin gone
      /\ \A a \in DOMAIN ready : ready[a] \in gone \/ \E i \in DOMAIN ready' : ready'[i] = ready[a]
      /\ \A i, j \in DOMAIN ready' : i < j =>
            \E a, b \in DOMAIN ready : a < b /\ ready[a] = ready'[i] /\ ready[b] = ready'[j]
      /\ \A i, j \in DOMAIN ready' : ready'[i] = ready'[j] => i = j
  BY <1>1, Unqueued
<1>6. Ready' = Ready \ gone
  BY <1>5, SMT DEF Ready
<1>7. /\ ready \in Seq(Pids) /\ \A i, j \in DOMAIN ready : ready[i] = ready[j] => i = j
      /\ DOMAIN ready \subseteq Nat /\ DOMAIN ready' \subseteq Nat
  BY <1>5, SMT DEF TableInv, TableType, ReadyOnce
<1>8. ASSUME NEW q \in Ready'
      PROVE  Before(ready', q) = Before(ready, q) \ gone
  <2>1. PICK i \in DOMAIN ready' : q = ready'[i]
    BY DEF Ready
  <2>2. PICK a \in DOMAIN ready : q = ready[a]
    BY <1>5, <2>1
  <2>3. \A x : x \in Before(ready', q) <=> \E j \in DOMAIN ready' : j < i /\ x = ready'[j]
    BY <1>5, <2>1, BeforeIs, SMT
  <2>4. \A x : x \in Before(ready, q) <=> \E b \in DOMAIN ready : b < a /\ x = ready[b]
    BY <1>7, <2>2, BeforeIs, SMT
  <2>5. ASSUME NEW j \in DOMAIN ready', j < i
        PROVE  ready'[j] \in Before(ready, q) \ gone
    <3>1. PICK b \in DOMAIN ready, c \in DOMAIN ready : b < c /\ ready[b] = ready'[j] /\ ready[c] = ready'[i]
      BY <1>5, <2>5, SMT
    <3>2. c = a
      BY <1>7, <2>1, <2>2, <3>1
    <3> QED
      BY <1>5, <2>4, <3>1, <3>2
  <2>6. ASSUME NEW b \in DOMAIN ready, b < a, ready[b] \notin gone
        PROVE  ready[b] \in Before(ready', q)
    <3>1. PICK j \in DOMAIN ready' : ready'[j] = ready[b]
      BY <1>5, <2>6
    <3>2. i # j
      <4>1. a # b
        BY <1>7, <2>6, SMT
      <4>2. ready[a] # ready[b]
        BY <1>7, <4>1
      <4> QED
        BY <2>1, <2>2, <3>1, <4>2
    <3>3. ~(i < j)
      <4> SUFFICES ASSUME i < j PROVE FALSE
        OBVIOUS
      <4>1. PICK c \in DOMAIN ready, d \in DOMAIN ready : c < d /\ ready[c] = ready'[i] /\ ready[d] = ready'[j]
        BY <1>5, SMT
      <4>2. c = a /\ d = b
        BY <1>7, <2>1, <2>2, <3>1, <4>1
      <4> QED
        BY <1>7, <2>6, <4>1, <4>2, SMT
    <3>4. j < i
      BY <1>7, <3>2, <3>3, SMT
    <3> QED
      BY <2>3, <3>1, <3>4
  <2> QED
    BY <2>3, <2>4, <2>5, <2>6, SMT
<1>9. TableView' = PT!Without(TableView, gone)
  BY <1>3, <1>4, <1>6, <1>8, WithoutSeen
<1> QED
  BY <1>2, <1>9

\* process_collect()
LEMMA CollectSeen ==
    ASSUME TableInv, process_collect
    PROVE  PT!Collectable(TableView) /\ TableView' = PT!Collect(TableView)
<1> DEFINE h == Head(ready)
<1>1. /\ ready # <<>> /\ ready' = Tail(ready)
      /\ processes' = processes \ {h}
      /\ ppid' = [q \in All |-> IF q \in {h} THEN NoPid ELSE ppid[q]]
      /\ wstatus' = [q \in All |-> IF q \in {h} THEN Running ELSE wstatus[q]]
  BY DEF process_collect, Forget
<1>2. /\ ready \in Seq(Pids) /\ ready' \in Seq(Pids) /\ 1 \in DOMAIN ready /\ h = ready[1] /\ h \in Pids
      /\ \A i \in DOMAIN ready' : i \in Nat /\ i > 0 /\ i + 1 \in DOMAIN ready /\ ready'[i] = ready[i + 1]
      /\ \A i \in DOMAIN ready : i \in Nat /\ i >= 1 /\ (i # 1 => i - 1 \in DOMAIN ready' /\ ready'[i - 1] = ready[i])
  BY <1>1, Tailed DEF TableInv, TableType
<1> HIDE DEF h
<1>3. \A i, j \in DOMAIN ready : ready[i] = ready[j] => i = j
  BY DEF TableInv, ReadyOnce
<1>4. \A i, j \in DOMAIN ready' : ready'[i] = ready'[j] => i = j
  <2> SUFFICES ASSUME NEW i \in DOMAIN ready', NEW j \in DOMAIN ready', ready'[i] = ready'[j] PROVE i = j
    OBVIOUS
  <2>1. /\ i \in Nat /\ i + 1 \in DOMAIN ready /\ ready'[i] = ready[i + 1]
        /\ j \in Nat /\ j + 1 \in DOMAIN ready /\ ready'[j] = ready[j + 1]
    BY <1>2
  <2>2. i + 1 = j + 1
    BY <1>3, <2>1
  <2> QED
    BY <2>1, <2>2, SMT
<1>5. ready \in Seq(Pids) /\ ready' \in Seq(Pids) /\ h = ready[1] /\ 1 \in DOMAIN ready
  BY <1>2
<1>6. ASSUME NEW k \in DOMAIN ready
      PROVE  (Before(ready, ready[k]) = {}) <=> (k = 1)
  <2>1. \A x : x \in Before(ready, ready[k]) <=> \E i \in DOMAIN ready : i < k /\ x = ready[i]
    BY <1>5, <1>3, BeforeIs
  <2>2. CASE k = 1
    <3>1. \A i \in DOMAIN ready : ~(i < k)
      BY <1>2, <2>2, SMT
    <3> QED
      BY <2>1, <2>2, <3>1
  <2>3. CASE k # 1
    <3>1. 1 \in DOMAIN ready /\ 1 < k
      BY <1>2, <2>3, SMT
    <3>2. ready[1] \in Before(ready, ready[k])
      BY <2>1, <3>1
    <3> QED
      BY <2>3, <3>2
  <2> QED
    BY <2>2, <2>3
<1>7. ASSUME NEW q \in Ready
      PROVE  TableView.ready[q].after = Before(ready, q)
  <2>1. TableView.ready[q] = [wstatus |-> wstatus[q], after |-> Before(ready, q)]
    BY Seen
  <2> QED
    BY <2>1, SMT
<1>8. h \in Ready /\ \A q \in Ready : (TableView.ready[q].after = {}) <=> (q = h)
  <2>1. h \in Ready
    BY <1>5 DEF Ready
  <2>2. ASSUME NEW q \in Ready
        PROVE  (TableView.ready[q].after = {}) <=> (q = h)
    <3>1. PICK k \in DOMAIN ready : q = ready[k]
      BY DEF Ready
    <3>2. (q = h) <=> (k = 1)
      BY <1>5, <1>3, <3>1
    <3> QED
      BY <1>6, <1>7, <3>1, <3>2
  <2> QED
    BY <2>1, <2>2
<1>9. PT!Collectable(TableView) /\ PT!First(TableView) = h
  <2>1. PT!Collectable(TableView)
    BY <1>8, Seen DEF PT!Collectable
  <2>2. PT!First(TableView) = CHOOSE q \in Ready : TableView.ready[q].after = {}
    BY Seen DEF PT!First
  <2>3. (CHOOSE q \in Ready : TableView.ready[q].after = {}) = h
    BY <1>8
  <2> QED
    BY <2>1, <2>2, <2>3
<1>10. Descendants' = Descendants \ {h} /\ Descendants \subseteq All /\ Ready \subseteq Descendants
  BY <1>1, Family, ProcWatchAssumption, SMT DEF Descendants, Ready, TableInv, TableType
<1>11. \A q \in Descendants' : ppid'[q] = ppid[q] /\ wstatus'[q] = wstatus[q]
  BY <1>1, <1>10
<1>12. Ready' = Ready \ {h}
  <2>1. ASSUME NEW i \in DOMAIN ready' PROVE ready'[i] \in Ready \ {h}
    BY <1>2, <1>3, SMT DEF Ready
  <2>2. ASSUME NEW i \in DOMAIN ready, ready[i] # h PROVE ready[i] \in Ready'
    <3>1. i - 1 \in DOMAIN ready' /\ ready'[i - 1] = ready[i]
      BY <1>2, <2>2
    <3> QED
      BY <3>1 DEF Ready
  <2> QED
    BY <2>1, <2>2 DEF Ready
<1>13. ASSUME NEW q \in Ready'
       PROVE  Before(ready', q) = Before(ready, q) \ {h}
  <2>1. PICK k \in DOMAIN ready' : q = ready'[k]
    BY DEF Ready
  <2>2. k + 1 \in DOMAIN ready /\ q = ready[k + 1] /\ k \in Nat
    BY <1>2, <2>1
  <2>3. \A x : x \in Before(ready', q) <=> \E i \in DOMAIN ready' : i < k /\ x = ready'[i]
    BY <1>5, <1>4, <2>1, BeforeIs, SMT
  <2>4. \A x : x \in Before(ready, q) <=> \E i \in DOMAIN ready : i < k + 1 /\ x = ready[i]
    BY <1>5, <1>3, <2>2, BeforeIs, SMT
  <2>5. ASSUME NEW i \in DOMAIN ready', i < k
        PROVE  ready'[i] \in Before(ready, q) \ {h}
    <3>1. i + 1 \in DOMAIN ready /\ ready'[i] = ready[i + 1] /\ i \in Nat /\ i > 0
      BY <1>2
    <3>2. i + 1 < k + 1 /\ i + 1 # 1
      BY <2>2, <2>5, <3>1, SMT
    <3> QED
      BY <1>2, <1>3, <2>4, <3>1, <3>2
  <2>6. ASSUME NEW i \in DOMAIN ready, i < k + 1, ready[i] # h
        PROVE  ready[i] \in Before(ready', q)
    <3>1. i - 1 \in DOMAIN ready' /\ ready'[i - 1] = ready[i] /\ i - 1 < k
      BY <1>2, <2>2, <2>6, SMTT(30)
    <3> QED
      BY <2>3, <3>1
  <2> QED
    BY <2>3, <2>4, <2>5, <2>6, SMT
<1>14. TableView' = PT!Without(TableView, {h})
  BY <1>10, <1>11, <1>12, <1>13, WithoutSeen
<1> QED
  BY <1>9, <1>14 DEF PT!Collect

\* An empty table is seen as one.
LEMMA EmptySeen ==
    ASSUME processes = {InitPid, Self}, ready = <<>>
    PROVE  TableView = PT!EmptyTable
<1>1. Descendants = {} /\ Ready = {}
  BY SMT DEF Descendants, Ready
<1> QED
  BY <1>1 DEF TableView, PT!EmptyTable

\* procwatch.c keeps the table of ProcTable: every event, every collection and every
\* drain does to the pointers and lists what the table's user is promised.
THEOREM TableImplemented == Spec => ImplementsTable
<1>1. Init => PT!Init
  BY EmptySeen DEF Init, TableInit, PT!Init
<1>2. ProcWatchInv /\ [Next]_vars => [PT!Next]_TableView
  <2> SUFFICES ASSUME ProcWatchInv, [Next]_vars
               PROVE  PT!Next \/ UNCHANGED TableView
    BY DEF PT!Next
  <2> TableInv
    BY DEF ProcWatchInv
  <2>1. ASSUME UNCHANGED <<processes, ppid, wstatus, ready>>
        PROVE  UNCHANGED TableView
    BY <2>1 DEF TableView, Descendants, Ready
  <2>2. CASE UNCHANGED vars
    BY <2>1, <2>2 DEF vars, tvars
  <2>3. CASE KernelStep
    BY <2>1, <2>3 DEF KernelStep, tvars
  <2>4. CASE procwatch_ingest
    <3> DEFINE e == Head(queue)
    <3>1. queue # <<>> /\ queue' = Tail(queue) /\ UNCHANGED <<kproc, leader, lost>>
      BY <2>4 DEF procwatch_ingest, IngestIgnored, IngestFork, IngestSid, IngestExit
    <3>2. e \in Events /\ 1 \in DOMAIN queue /\ e = queue[1]
      BY <3>1, Taken
    <3> HIDE DEF e
    <3>3. /\ e.actor \in Pids \cup {Self} /\ e.actor \in Named(e)
          /\ e.what # "fork" => e.actor \in Pids
          /\ e.what = "fork" => e.child \in Pids
          /\ e.what = "exit" => e.wstatus \in Statuses
      BY <3>2, EventKinds
    <3>4. CASE IngestIgnored
      BY <2>1, <3>4 DEF IngestIgnored, tvars
    <3>5. CASE IngestFork
      <4>1. e.what = "fork" /\ process_insert(e.child, e.actor)
        BY <3>5 DEF IngestFork, e
      <4> QED
        BY <3>3, <4>1, InsertSeen DEF PT!Next
    <3>6. CASE IngestSid
      <4>1. /\ e.actor \in Pids /\ e.actor \in processes
            /\ UNCHANGED <<processes, ppid, wstatus, ready>> \/ process_drop(e.actor)
        BY <3>3, <3>6 DEF IngestSid, e
      <4> QED
        BY <2>1, <4>1, DropSeen DEF PT!Next
    <3>7. CASE IngestExit
      <4>1. /\ e.what = "exit" /\ e.actor \in Pids /\ e.actor \in processes /\ e.wstatus \in Statuses
            /\ process_exit(e.actor, e.wstatus)
        BY <3>3, <3>7 DEF IngestExit, e
      <4>2. e.actor \notin Ready
        BY <3>2, <3>3 DEF ProcWatchInv, ReadyDead, Ready
      <4>3. TableView' = PT!Exit(TableView, e.actor, e.wstatus)
        BY <4>1, <4>2, ExitSeen
      <4> QED
        BY <4>1, <4>2, <4>3, Seen DEF PT!Next
    <3> QED
      BY <2>4, <3>4, <3>5, <3>6, <3>7 DEF procwatch_ingest
  <2>5. CASE process_collect
    BY <2>5, CollectSeen DEF PT!Next
  <2>6. CASE Drain
    <3>1. processes' = {InitPid, Self} /\ ready' = <<>>
      BY <2>6 DEF Drain
    <3>2. Descendants' = {} /\ Ready' = {}
      BY <3>1, SMT DEF Descendants, Ready
    <3>3. TableView' = PT!EmptyTable
      BY <3>2 DEF TableView, PT!EmptyTable
    <3> QED
      BY <3>3 DEF PT!Next
  <2>7. CASE procwatch_reconnect
    BY <2>1, <2>7 DEF procwatch_reconnect, tvars
  <2> QED
    BY <2>2, <2>3, <2>4, <2>5, <2>6, <2>7 DEF Next
<1> QED
  BY <1>1, <1>2, ProcWatchCorrect, PTL DEF Spec, ImplementsTable, PT!Spec
=============================================================================
