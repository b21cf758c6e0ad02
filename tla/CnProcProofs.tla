---------------------------- MODULE CnProcProofs -----------------------------
(***************************************************************************)
(* The count of listeners of cn_proc.c, for any number of monitors and any *)
(* bounds.                                                                 *)
(***************************************************************************)
EXTENDS CnProc, FiniteSetTheorems, TLAPS

\* A multicast adds at most one acknowledgement to each socket that has room.
LEMMA MulticastType ==
    ASSUME TypeOK, NEW ack \in Acks, NEW n, Multicast(ack, n)
    PROVE  inbox' \in [Procs -> Seq(Acks)] /\ \A p \in Procs : Len(inbox'[p]) <= MaxInbox
<1>1. ASSUME NEW p \in Procs
      PROVE  /\ inbox[p] \in Seq(Acks) /\ Append(inbox[p], ack) \in Seq(Acks)
             /\ Len(inbox[p]) < MaxInbox => Len(Append(inbox[p], ack)) <= MaxInbox
  <2>1. inbox[p] \in Seq(Acks)
    BY DEF TypeOK
  <2> QED
    BY <2>1, CnProcAssumption
<1> QED
  BY <1>1 DEF Multicast, TypeOK

\* cn_proc_send() changes the count and the sockets, or nothing.
LEMMA SendType ==
    ASSUME TypeOK, NEW p \in Procs, NEW by \in Int, cn_proc_send(p, by)
    PROVE  /\ count' \in Int
           /\ inbox' \in [Procs -> Seq(Acks)] /\ \A q \in Procs : Len(inbox'[q]) <= MaxInbox
           /\ unsent' \subseteq Procs /\ misled' \in BOOLEAN
<1>1. "ok" \in Acks
  BY DEF Acks
<1>2. CASE Request(by) /\ unsent' = unsent \ {p}
  BY <1>1, <1>2, MulticastType DEF Request, cn_proc_send, TypeOK
<1>3. CASE unsent' = unsent \cup {p} /\ UNCHANGED <<count, inbox>>
  BY <1>3 DEF cn_proc_send, TypeOK
<1> QED
  BY <1>2, <1>3 DEF cn_proc_send

\* A socket that is closed is empty; one that is read from loses its first.
LEMMA InboxType ==
    ASSUME TypeOK, NEW p \in Procs,
           inbox' = [inbox EXCEPT ![p] = <<>>] \/ (inbox[p] # <<>> /\ inbox' = [inbox EXCEPT ![p] = Tail(inbox[p])])
    PROVE  inbox' \in [Procs -> Seq(Acks)] /\ \A q \in Procs : Len(inbox'[q]) <= MaxInbox
<1>1. inbox[p] \in Seq(Acks) /\ Len(inbox[p]) <= MaxInbox
  BY DEF TypeOK
<1>2. inbox[p] # <<>> => Tail(inbox[p]) \in Seq(Acks) /\ Len(Tail(inbox[p])) <= MaxInbox
  BY <1>1, CnProcAssumption
<1>3. <<>> \in Seq(Acks) /\ Len(<<>>) <= MaxInbox
  BY CnProcAssumption
<1> QED
  BY <1>1, <1>2, <1>3, ZenonT(30) DEF TypeOK

\* The initial state is well typed.
LEMMA CnProcTypeInit == Init => TypeOK
<1> SUFFICES ASSUME Init PROVE TypeOK
  OBVIOUS
<1>1. <<>> \in Seq(Acks) /\ Len(<<>>) <= MaxInbox
  BY CnProcAssumption
<1>2. inbox \in [Procs -> Seq(Acks)] /\ \A p \in Procs : Len(inbox[p]) <= MaxInbox
  BY <1>1 DEF Init
<1>3. nld \in [Procs -> BOOLEAN] /\ listening \in [Procs -> BOOLEAN] /\ misled \in BOOLEAN
  BY Zenon DEF Init
<1> QED
  BY <1>2, <1>3, CnProcAssumption DEF Init, TypeOK, PCs

\* Every state is well typed; in particular no socket holds more than it can.
THEOREM CnProcTypeCorrect == Spec => []TypeOK
<1>1. Init => TypeOK
  BY CnProcTypeInit
<1>2. TypeOK /\ [Next]_vars => TypeOK'
  <2> SUFFICES ASSUME TypeOK, [Next]_vars PROVE TypeOK'
    OBVIOUS
  <2>0. "ok" \in Acks /\ "err" \in Acks
    BY DEF Acks
  <2>1. CASE OtherListens
    BY <2>0, <2>1, MulticastType, CnProcAssumption DEF OtherListens, TypeOK, history
  <2>2. CASE OtherIgnores
    BY <2>0, <2>2, MulticastType, CnProcAssumption DEF OtherIgnores, TypeOK, history
  <2>3. CASE OtherRefused
    BY <2>0, <2>3, MulticastType DEF OtherRefused, TypeOK, history
  <2>4. ASSUME NEW p \in Procs, procwatch_start(p) PROVE TypeOK'
    BY <2>4 DEF procwatch_start, TypeOK, history, PCs
  <2>5. ASSUME NEW p \in Procs, Ingest(p) PROVE TypeOK'
    BY <2>5, InboxType, Zenon DEF Ingest, TypeOK, history
  <2>6. ASSUME NEW p \in Procs, Crash(p) PROVE TypeOK'
    BY <2>6, InboxType, Zenon DEF Crash, TypeOK, history, PCs
  <2>7. ASSUME NEW p \in Procs, NEW why \in {"watch", "stop"}, Disconnect(p, why) PROVE TypeOK'
    BY <2>7, SendType DEF Disconnect, TypeOK, PCs
  <2>8. ASSUME NEW p \in Procs, StopUnheard(p) PROVE TypeOK'
    BY <2>8, InboxType, Zenon DEF StopUnheard, TypeOK, history, PCs
  <2>9. ASSUME NEW p \in Procs, IgnoreAck(p) PROVE TypeOK'
    <3>1. inbox' \in [Procs -> Seq(Acks)] /\ \A q \in Procs : Len(inbox'[q]) <= MaxInbox
      BY <2>9, InboxType, Zenon DEF IgnoreAck, Close
    <3>2. listening' \in [Procs -> BOOLEAN]
      BY <2>9 DEF IgnoreAck, Close, TypeOK
    <3>3. misled' \in BOOLEAN
      BY <2>9 DEF IgnoreAck
    <3> QED
      BY <2>9, <3>1, <3>2, <3>3 DEF IgnoreAck, Close, TypeOK, PCs
  <2>10. ASSUME NEW p \in Procs, IgnoreTimeout(p) PROVE TypeOK'
    BY <2>10, InboxType, Zenon DEF IgnoreTimeout, Close, TypeOK, history, PCs
  <2>11. ASSUME NEW p \in Procs, cn_proc_connect(p) PROVE TypeOK'
    BY <2>11, ZenonT(30) DEF cn_proc_connect, TypeOK, history, PCs
  <2>12. ASSUME NEW p \in Procs, Listen(p) PROVE TypeOK'
    <3>1. CASE cn_proc_send(p, 1) /\ pc' = [pc EXCEPT ![p] = "listen"]
      BY <2>12, <3>1, SendType, SMTT(30) DEF Listen, TypeOK, PCs
    <3>2. CASE UNCHANGED <<count, inbox, history>> /\ pc' = [pc EXCEPT ![p] = "on"]
      BY <2>12, <3>2, SMTT(30) DEF Listen, TypeOK, history, PCs
    <3> QED
      BY <2>12, <3>1, <3>2 DEF Listen
  <2>13. ASSUME NEW p \in Procs, ListenAck(p) PROVE TypeOK'
    BY <2>13, InboxType, Zenon DEF ListenAck, TypeOK, PCs
  <2>14. ASSUME NEW p \in Procs, ListenTimeout(p) PROVE TypeOK'
    BY <2>14 DEF ListenTimeout, TypeOK, history, PCs
  <2>15. CASE UNCHANGED vars
    BY <2>15 DEF vars, history, TypeOK
  <2> QED
    BY <2>1, <2>2, <2>3, <2>4, <2>5, <2>6, <2>7, <2>8, <2>9, <2>10, <2>11, <2>12, <2>13, <2>14, <2>15 DEF Next
<1> QED
  BY <1>1, <1>2, PTL DEF Spec
-----------------------------------------------------------------------------
\* The kernel's count against sets of processes.
LEMMA Counting ==
    ASSUME NEW S \in SUBSET Procs, NEW T \in SUBSET Procs
    PROVE  /\ Cardinality(S) \in Nat
           /\ T \subseteq S => Cardinality(T) <= Cardinality(S)
           /\ \A p \in S : T \subseteq S \ {p} => Cardinality(T) <= Cardinality(S) - 1
           /\ \A p \in Procs : T \subseteq S \cup {p} => Cardinality(T) <= Cardinality(S) + 1
<1>1. IsFiniteSet(S) /\ IsFiniteSet(T)
  BY FS_Subset, CnProcAssumption
<1>2. Cardinality(S) \in Nat /\ Cardinality(T) \in Nat
  BY <1>1, FS_CardinalityType
<1>3. T \subseteq S => Cardinality(T) <= Cardinality(S)
  BY <1>1, FS_Subset
<1>4. ASSUME NEW p \in S, T \subseteq S \ {p} PROVE Cardinality(T) <= Cardinality(S) - 1
  <2>1. IsFiniteSet(S \ {p}) /\ Cardinality(S \ {p}) = Cardinality(S) - 1
    BY <1>1, FS_RemoveElement
  <2> QED
    BY <1>4, <2>1, FS_Subset
<1>5. ASSUME NEW p \in Procs, T \subseteq S \cup {p} PROVE Cardinality(T) <= Cardinality(S) + 1
  <2>1. IsFiniteSet(S \cup {p}) /\ Cardinality(S \cup {p}) \in {Cardinality(S), Cardinality(S) + 1}
    BY <1>1, FS_AddElement
  <2>2. Cardinality(T) <= Cardinality(S \cup {p})
    BY <1>5, <2>1, FS_Subset
  <2> QED
    BY <1>2, <2>1, <2>2
<1> QED
  BY <1>2, <1>3, <1>4, <1>5

\* A step changes the count and who is counted in one of these ways.
Kept == Counted' \subseteq Counted /\ (\E d \in {-1, 0, 1} : count' = count + d /\ others' = others + d) /\ (misled => misled')
Lost == others' = others /\ count' >= count - 1 /\ (\E p \in Counted : Counted' \subseteq Counted \ {p}) /\ UNCHANGED misled
Won == others' = others /\ count' = count + 1 /\ (\E p \in Procs : Counted' \subseteq Counted \cup {p}) /\ UNCHANGED misled

\* Any of them keeps the invariant, and so does being misled.
LEMMA CountKeeps ==
    ASSUME CountInv, TypeOK', Kept \/ Lost \/ Won \/ misled'
    PROVE  CountInv'
<1> SUFFICES ASSUME ~misled' PROVE count' >= others' + Cardinality(Counted')
  BY DEF CountInv
<1>1. Counted \in SUBSET Procs /\ Counted' \in SUBSET Procs
  BY DEF Counted
<1>2. count \in Int /\ others \in Int /\ count' \in Int /\ others' \in Int
  BY CnProcAssumption DEF CountInv, TypeOK
<1>3. Cardinality(Counted) \in Nat /\ Cardinality(Counted') \in Nat
  BY <1>1, Counting
<1>4. CASE Kept
  <2>1. Cardinality(Counted') <= Cardinality(Counted) /\ count >= others + Cardinality(Counted)
    BY <1>1, <1>4, Counting, SMTT(30) DEF Kept, CountInv
  <2>2. PICK d \in {-1, 0, 1} : count' = count + d /\ others' = others + d
    BY <1>4 DEF Kept
  <2> QED
    BY <1>2, <1>3, <2>1, <2>2, SMTT(30)
<1>5. CASE Lost
  <2>1. Cardinality(Counted') <= Cardinality(Counted) - 1 /\ count >= others + Cardinality(Counted)
    BY <1>1, <1>5, Counting, SMTT(30) DEF Lost, CountInv
  <2> QED
    BY <1>2, <1>3, <1>5, <2>1, SMTT(30) DEF Lost
<1>6. CASE Won
  <2>1. Cardinality(Counted') <= Cardinality(Counted) + 1 /\ count >= others + Cardinality(Counted)
    BY <1>1, <1>6, Counting, SMTT(30) DEF Won, CountInv
  <2> QED
    BY <1>2, <1>3, <1>6, <2>1, SMTT(30) DEF Won
<1> QED
  BY <1>4, <1>5, <1>6

\* Every step is one of those.
LEMMA CountSteps ==
    ASSUME TypeOK, Next
    PROVE  Kept \/ Lost \/ Won \/ misled'
<1>0. count \in Int /\ others \in Int
  BY CnProcAssumption, SMTT(30) DEF TypeOK
<1> USE <1>0
<1>1. CASE OtherListens
  BY <1>1 DEF OtherListens, Kept, Counted, history
<1>2. CASE OtherIgnores
  BY <1>2 DEF OtherIgnores, Kept, Counted, history
<1>3. CASE OtherRefused
  BY <1>3 DEF OtherRefused, Kept, Counted, history
<1>4. ASSUME NEW p \in Procs, procwatch_start(p) PROVE Kept
  BY <1>4 DEF procwatch_start, Kept, Counted, history, TypeOK
<1>5. ASSUME NEW p \in Procs, Ingest(p) PROVE Kept
  BY <1>5, SMTT(30) DEF Ingest, Kept, Counted, history
<1>6. ASSUME NEW p \in Procs, Crash(p) PROVE Kept
  BY <1>6 DEF Crash, Kept, Counted, history, TypeOK
<1>7. ASSUME NEW p \in Procs, NEW why \in {"watch", "stop"}, Disconnect(p, why) PROVE Kept \/ Lost
  <2>1. p \in Counted
    BY <1>7, SMTT(30) DEF Disconnect, Counted
  <2>2. CASE Request(-1) /\ unsent' = unsent \ {p}
    <3>1. Counted' \subseteq Counted \ {p}
      BY <1>7, <2>2, SMTT(30) DEF Disconnect, cn_proc_send, Counted, TypeOK
    <3> QED
      BY <1>7, <2>1, <2>2, <3>1, SMTT(30) DEF Disconnect, cn_proc_send, Request, Lost
  <2>3. CASE unsent' = unsent \cup {p} /\ UNCHANGED <<count, inbox>>
    <3>1. Counted' \subseteq Counted
      BY <1>7, <2>1, <2>3, SMTT(30) DEF Disconnect, cn_proc_send, Counted, TypeOK
    <3> QED
      BY <1>7, <2>3, <3>1, SMTT(30) DEF Disconnect, cn_proc_send, Kept
  <2> QED
    BY <1>7, <2>2, <2>3, SMTT(30) DEF Disconnect, cn_proc_send
<1>8. ASSUME NEW p \in Procs, StopUnheard(p) PROVE Kept
  BY <1>8, SMTT(30) DEF StopUnheard, Kept, Counted, history, TypeOK
<1>9. ASSUME NEW p \in Procs, IgnoreAck(p), ~misled' PROVE Kept
  <2>1. pc[p] = "ignore" /\ (listening'[p] => p \in unsent) /\ UNCHANGED <<count, others, unsent>> /\ ~misled
    BY <1>9, ZenonT(30) DEF IgnoreAck
  <2>2. pc'[p] \in {"none", "closed"} /\ \A q \in Procs \ {p} : pc'[q] = pc[q] /\ listening'[q] = listening[q]
    BY <1>9 DEF IgnoreAck, Close, TypeOK
  <2>3. Counted' \subseteq Counted
    BY <2>1, <2>2, SMTT(30) DEF Counted
  <2> QED
    BY <2>1, <2>3 DEF Kept
<1>10. ASSUME NEW p \in Procs, IgnoreTimeout(p) PROVE Kept
  <2>1. pc[p] = "ignore" /\ ~listening'[p] /\ UNCHANGED <<count, others, unsent, misled>>
    BY <1>10, ZenonT(30) DEF IgnoreTimeout, Close, history, TypeOK
  <2>2. pc'[p] \in {"none", "closed"} /\ \A q \in Procs \ {p} : pc'[q] = pc[q] /\ listening'[q] = listening[q]
    BY <1>10 DEF IgnoreTimeout, Close, TypeOK
  <2>3. Counted' \subseteq Counted
    BY <2>1, <2>2 DEF Counted
  <2> QED
    BY <2>1, <2>3, SMTT(30) DEF Kept
<1>11. ASSUME NEW p \in Procs, cn_proc_connect(p) PROVE Kept
  BY <1>11 DEF cn_proc_connect, Kept, Counted, history, TypeOK
<1>12. ASSUME NEW p \in Procs, Listen(p) PROVE Kept \/ Won
  <2>1. CASE Request(1) /\ unsent' = unsent \ {p} /\ pc' = [pc EXCEPT ![p] = "listen"] /\ UNCHANGED misled
    <3>1. Counted' \subseteq Counted \cup {p}
      BY <1>12, <2>1, SMTT(30) DEF Listen, Counted, TypeOK
    <3> QED
      BY <1>12, <2>1, <3>1, SMTT(30) DEF Listen, Request, Won
  <2>2. CASE /\ unsent' = unsent \cup {p} /\ UNCHANGED <<count, inbox, misled>>
             /\ pc' = [pc EXCEPT ![p] = "listen"] /\ ~listening[p]
    <3>1. Counted' \subseteq Counted
      BY <1>12, <2>2, SMTT(30) DEF Listen, Counted, TypeOK
    <3> QED
      BY <1>12, <2>2, <3>1, SMTT(30) DEF Listen, Kept
  <2>3. CASE listening[p] /\ pc' = [pc EXCEPT ![p] = "on"] /\ UNCHANGED <<count, inbox, history>>
    BY <1>12, <2>3, SMTT(30) DEF Listen, Kept, Counted, history, TypeOK
  <2> QED
    BY <1>12, <2>1, <2>2, <2>3 DEF Listen, cn_proc_send
<1>13. ASSUME NEW p \in Procs, ListenAck(p), ~misled' PROVE Kept
  <2>1. pc[p] = "listen" /\ (listening'[p] => p \notin unsent) /\ UNCHANGED <<count, others, unsent>> /\ ~misled
    BY <1>13, Zenon DEF ListenAck
  <2>2. pc'[p] \in {"on", "failed"} /\ \A q \in Procs \ {p} : pc'[q] = pc[q] /\ listening'[q] = listening[q]
    BY <1>13 DEF ListenAck, TypeOK
  <2> QED
    BY <2>1, <2>2, SMTT(30) DEF Kept, Counted
<1>14. ASSUME NEW p \in Procs, ListenTimeout(p) PROVE Kept
  BY <1>14, SMTT(30) DEF ListenTimeout, Kept, Counted, history, TypeOK
<1> QED
  BY <1>1, <1>2, <1>3, <1>4, <1>5, <1>6, <1>7, <1>8, <1>9, <1>10, <1>11, <1>12, <1>13, <1>14, SMTT(30) DEF Next

\* The kernel's count covers whoever believes to listen, for any number of monitors.
THEOREM CountCovers == Spec => []Covered
<1>1. Init => CountInv
  <2> SUFFICES ASSUME Init, TypeOK PROVE count >= others + Cardinality(Counted)
    BY CnProcTypeInit DEF CountInv
  <2>1. Counted = {}
    BY DEF Init, Counted
  <2> QED
    BY <2>1, FS_EmptySet DEF Init
<1>2. CountInv /\ TypeOK' /\ [Next]_vars => CountInv'
  <2>1. CountInv /\ UNCHANGED vars => CountInv'
    BY DEF vars, history, CountInv, TypeOK, Counted
  <2>2. CountInv /\ TypeOK' /\ Next => CountInv'
    BY CountSteps, CountKeeps DEF CountInv
  <2> QED
    BY <2>1, <2>2, SMTT(30)
<1>3. CountInv => Covered
  <2> SUFFICES ASSUME CountInv, ~misled PROVE count >= others + Cardinality(Listeners)
    BY DEF Covered
  <2>1. Listeners \in SUBSET Procs /\ Counted \in SUBSET Procs /\ Listeners \subseteq Counted
    BY DEF Listeners, Counted
  <2>2. Cardinality(Listeners) <= Cardinality(Counted) /\ Cardinality(Listeners) \in Nat /\ Cardinality(Counted) \in Nat
    BY <2>1, Counting
  <2>3. count \in Int /\ others \in Int /\ count >= others + Cardinality(Counted)
    BY CnProcAssumption DEF CountInv, TypeOK
  <2> QED
    BY <2>2, <2>3
<1> QED
  BY <1>1, <1>2, <1>3, CnProcTypeCorrect, PTL DEF Spec
=============================================================================
