------------------------------- MODULE CnProc -------------------------------
(***************************************************************************)
(* cn_proc.c and procwatch_start(), _reconnect() and _stop(): how monitors *)
(* turn the kernel's process events on and off.  The kernel only keeps a   *)
(* count of listeners.  It does not check who decrements it, sends events  *)
(* and acknowledgements only while the count is positive, and sends each   *)
(* acknowledgement to everyone connected.                                  *)
(***************************************************************************)
EXTENDS Integers, Sequences, FiniteSets

CONSTANTS
    Procs,        \* the monitors
    MaxOthers,    \* bound: listeners that are other programs
    MaxCount,     \* bound: listeners the kernel counts
    MaxInbox      \* bound: acknowledgements waiting on a socket

VARIABLES
    count,        \* the kernel's proc_event_num_listeners
    others,       \* listeners among other programs, which count correctly
    nld,          \* nld[p]: the netlink socket is open
    inbox,        \* acknowledgements waiting on it
    listening,
    pc,           \* see PCs
    goal,         \* what procwatch was asked for: "watch" or "stop"
    unsent,       \* history: those whose last request could not be sent
    misled        \* history: somebody took another's acknowledgement for the answer
                  \* to a request that was not sent, or that succeeded

history == <<unsent, misled>>
vars == <<count, others, nld, inbox, listening, pc, goal, history>>

ASSUME CnProcAssumption ==
    IsFiniteSet(Procs) /\ MaxOthers \in Nat /\ MaxCount \in Nat /\ MaxInbox \in Nat

\* No process; waiting for the answer to "ignore"; disconnected, connected, waiting
\* for the answer to "listen"; procwatch_reconnect() has succeeded or failed.
PCs == {"none", "ignore", "closed", "connected", "listen", "on", "failed"}

Acks == {"ok", "err"}
-----------------------------------------------------------------------------
(* The kernel *)

\* An acknowledgement is multicast if anyone listens; a full socket loses it.
Multicast(ack, listeners) ==
    inbox' = [p \in Procs |->
                IF listeners > 0 /\ nld[p] /\ Len(inbox[p]) < MaxInbox
                THEN Append(inbox[p], ack) ELSE inbox[p]]

\* A monitor's request, which it has the privileges for.
Request(by) == count' = count + by /\ Multicast("ok", count')

OtherListens ==
    /\ others < MaxOthers /\ count < MaxCount
    /\ others' = others + 1 /\ count' = count + 1 /\ Multicast("ok", count')
    /\ UNCHANGED <<nld, listening, pc, goal, history>>

OtherIgnores ==
    /\ others > 0
    /\ others' = others - 1 /\ count' = count - 1 /\ Multicast("ok", count')
    /\ UNCHANGED <<nld, listening, pc, goal, history>>

\* The kernel refuses the request of a program that lacks the privileges.
OtherRefused ==
    /\ Multicast("err", count)
    /\ UNCHANGED <<count, others, nld, listening, pc, goal, history>>
-----------------------------------------------------------------------------
\* cn_proc_send(): the result of sendmsg() is not noticed by cn_proc_listen().
cn_proc_send(p, by) ==
    /\ \/ Request(by) /\ unsent' = unsent \ {p}
       \/ unsent' = unsent \cup {p} /\ UNCHANGED <<count, inbox>>
    /\ UNCHANGED misled

\* The socket is closed at the end of cn_proc_disconnect(), with listening as heard.
Close(p, heard) ==
    /\ nld' = [nld EXCEPT ![p] = FALSE]
    /\ inbox' = [inbox EXCEPT ![p] = <<>>]
    /\ listening' = [listening EXCEPT ![p] = heard /\ goal[p] = "watch"]
    /\ pc' = [pc EXCEPT ![p] = IF goal[p] = "stop" THEN "none" ELSE "closed"]

\* cn_proc_disconnect() begins, from procwatch_reconnect() after an error on the
\* socket, or from procwatch_stop().
Disconnect(p, why) ==
    /\ pc[p] = "on" /\ listening[p]
    /\ goal' = [goal EXCEPT ![p] = why]
    /\ cn_proc_send(p, -1)
    /\ pc' = [pc EXCEPT ![p] = "ignore"]
    /\ UNCHANGED <<others, nld, listening>>

\* procwatch_stop() when not connected or not listening: the socket is closed.
StopUnheard(p) ==
    /\ pc[p] = "failed" /\ (nld[p] => ~listening[p])
    /\ listening' = [listening EXCEPT ![p] = FALSE]
    /\ nld' = [nld EXCEPT ![p] = FALSE]
    /\ inbox' = [inbox EXCEPT ![p] = <<>>]
    /\ pc' = [pc EXCEPT ![p] = "none"]
    /\ UNCHANGED <<count, others, goal, history>>

\* cn_proc_listen(false) reads an acknowledgement, its own or not.
IgnoreAck(p) ==
    /\ pc[p] = "ignore" /\ inbox[p] # <<>>
    /\ Close(p, Head(inbox[p]) = "err")
    /\ misled' = (misled \/ (listening'[p] /\ p \notin unsent))
    /\ UNCHANGED <<count, others, goal, unsent>>

\* Mutant of IgnoreTimeout: without an answer, nothing is taken to have changed.
IgnoreTimeoutKeep(p) ==
    /\ pc[p] = "ignore"
    /\ Close(p, TRUE)
    /\ UNCHANGED <<count, others, goal, history>>

\* It times out, or fails to read.
IgnoreTimeout(p) ==
    /\ pc[p] = "ignore"
    /\ Close(p, FALSE)
    /\ UNCHANGED <<count, others, goal, history>>

\* cn_proc_connect() succeeds, or fails.
cn_proc_connect(p) ==
    /\ pc[p] = "closed"
    /\ \/ nld' = [nld EXCEPT ![p] = TRUE] /\ pc' = [pc EXCEPT ![p] = "connected"]
       \/ pc' = [pc EXCEPT ![p] = "failed"] /\ UNCHANGED nld
    /\ UNCHANGED <<count, others, inbox, listening, goal, history>>

\* cn_proc_listen(true) returns at once if listening is set, else sends "listen".
Listen(p) ==
    /\ pc[p] = "connected"
    /\ \/ /\ listening[p]
          /\ pc' = [pc EXCEPT ![p] = "on"] /\ UNCHANGED <<count, inbox, history>>
       \/ /\ ~listening[p] /\ count < MaxCount
          /\ pc' = [pc EXCEPT ![p] = "listen"] /\ cn_proc_send(p, 1)
    /\ UNCHANGED <<others, nld, listening, goal>>

\* It reads an acknowledgement, its own or not.
ListenAck(p) ==
    /\ pc[p] = "listen" /\ inbox[p] # <<>>
    /\ LET ok == Head(inbox[p]) = "ok" IN
       /\ listening' = [listening EXCEPT ![p] = ok]
       /\ pc' = [pc EXCEPT ![p] = IF ok THEN "on" ELSE "failed"]
    /\ inbox' = [inbox EXCEPT ![p] = Tail(@)]
    /\ misled' = (misled \/ (listening'[p] /\ p \in unsent))
    /\ UNCHANGED <<count, others, nld, goal, unsent>>

\* It times out, or fails to read.
ListenTimeout(p) ==
    /\ pc[p] = "listen"
    /\ pc' = [pc EXCEPT ![p] = "failed"]
    /\ UNCHANGED <<count, others, nld, inbox, listening, goal, history>>
-----------------------------------------------------------------------------
(* A monitor's process *)

procwatch_start(p) ==
    /\ pc[p] = "none"
    /\ pc' = [pc EXCEPT ![p] = "closed"]
    /\ goal' = [goal EXCEPT ![p] = "watch"]
    /\ UNCHANGED <<count, others, nld, inbox, listening, history>>

\* procwatch_ingest() skips acknowledgements.
Ingest(p) ==
    /\ pc[p] = "on" /\ inbox[p] # <<>>
    /\ inbox' = [inbox EXCEPT ![p] = Tail(@)]
    /\ UNCHANGED <<count, others, nld, listening, pc, goal, history>>

\* The process is killed.  The kernel's count stays.
Crash(p) ==
    /\ pc[p] # "none"
    /\ nld' = [nld EXCEPT ![p] = FALSE]
    /\ inbox' = [inbox EXCEPT ![p] = <<>>]
    /\ listening' = [listening EXCEPT ![p] = FALSE]
    /\ pc' = [pc EXCEPT ![p] = "none"]
    /\ UNCHANGED <<count, others, goal, history>>

Init ==
    /\ count = 0 /\ others = 0
    /\ nld = [p \in Procs |-> FALSE] /\ inbox = [p \in Procs |-> <<>>]
    /\ listening = [p \in Procs |-> FALSE]
    /\ pc = [p \in Procs |-> "none"] /\ goal = [p \in Procs |-> "watch"]
    /\ unsent = {} /\ misled = FALSE

Next ==
    \/ OtherListens \/ OtherIgnores \/ OtherRefused
    \/ \E p \in Procs :
        \/ procwatch_start(p) \/ Ingest(p) \/ Crash(p)
        \/ \E why \in {"watch", "stop"} : Disconnect(p, why)
        \/ StopUnheard(p) \/ IgnoreAck(p) \/ IgnoreTimeout(p)
        \/ cn_proc_connect(p) \/ Listen(p) \/ ListenAck(p) \/ ListenTimeout(p)

Spec == Init /\ [][Next]_vars
-----------------------------------------------------------------------------
TypeOK ==
    /\ count \in Int /\ others \in 0..MaxOthers
    /\ nld \in [Procs -> BOOLEAN] /\ listening \in [Procs -> BOOLEAN]
    /\ inbox \in [Procs -> Seq(Acks)] /\ \A p \in Procs : Len(inbox[p]) <= MaxInbox
    /\ pc \in [Procs -> PCs] /\ goal \in [Procs -> {"watch", "stop"}]
    /\ unsent \subseteq Procs /\ misled \in BOOLEAN

\* Processes whose last request was to listen, as far as they know.
Listeners == {p \in Procs : listening[p] /\ pc[p] # "ignore"}

\* The kernel's count covers everybody who believes to listen, so that nobody is cut
\* off from the events by what others do: whoever's acknowledgements are taken for
\* whose, whoever is killed when, and whichever requests are lost.  Two mistakes are
\* excepted: to take another's acknowledgement for that of a request that was not
\* sent, and another's refusal for that of a disable that was carried out.
Covered == ~misled => count >= others + Cardinality(Listeners)

\* Processes the kernel counts as far as it can be known from their steps: those that
\* believe to listen, those whose request to ignore was not sent and those whose
\* request to listen was.
Counted ==
    {p \in Procs : \/ listening[p] /\ pc[p] # "ignore"
                   \/ pc[p] = "ignore" /\ p \in unsent
                   \/ pc[p] = "listen" /\ p \notin unsent}

\* Inductive strengthening of Covered.
CountInv == TypeOK /\ (~misled => count >= others + Cardinality(Counted))
=============================================================================
