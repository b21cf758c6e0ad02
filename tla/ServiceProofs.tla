---------------------------- MODULE ServiceProofs ----------------------------
(***************************************************************************)
(* One command of sysvrun, for any set of services, any units and any      *)
(* monitors: fork.c, whose parents return what became of the function that *)
(* they forked; command.c, which executes what the unit asks for; and      *)
(* service.c, which tells the truth about what it started, stopped or      *)
(* reloaded.                                                               *)
(*                                                                         *)
(* CommandInv, the first invariant, says where sysvrun is and what it has  *)
(* forked; the others, about reloading, the rest of the world, stopping    *)
(* and starting, rest on it.                                               *)
(***************************************************************************)
EXTENDS Service, TLAPS

\* A report is added at the end of the pipe.
LEMMA Appended ==
    ASSUME NEW a \in Int, NEW c \in Int
    PROVE  Append(<<>>, c) = <<c>> /\ Append(<<a>>, c) = <<a, c>>
<1>1. <<>> \in Seq(Int) /\ <<a>> \in Seq(Int) /\ <<c>> \in Seq(Int) /\ <<a, c>> \in Seq(Int)
  OBVIOUS
<1>2. Append(<<>>, c) = <<c>>
  BY <1>1
<1>3. Append(<<a>>, c) = <<a, c>>
  <2>1. Append(<<a>>, c) \in Seq(Int) /\ Len(Append(<<a>>, c)) = 2
    BY <1>1
  <2>2. Append(<<a>>, c)[1] = a /\ Append(<<a>>, c)[2] = c
    BY <1>1
  <2>3. Len(<<a, c>>) = 2 /\ <<a, c>>[1] = a /\ <<a, c>>[2] = c
    OBVIOUS
  <2> DEFINE s == Append(<<a>>, c)
             t == <<a, c>>
  <2>4. s \in Seq(Int) /\ t \in Seq(Int) /\ Len(s) = Len(t) /\ \A i \in 1 .. Len(s) : s[i] = t[i]
    BY <1>1, <2>1, <2>2, <2>3
  <2> HIDE DEF s, t
  <2>5. s = t
    BY <2>4, SMTT(30)
  <2> QED
    BY <2>5 DEF s, t
<1> QED
  BY <1>2, <1>3

\* df_parent(): making the pipe, forking, reading both reports.
LEMMA ParentKeepsInv == FR!ReportInv /\ FR!ParentStep => FR!ReportInv'
<1> SUFFICES ASSUME FR!ReportInv, FR!ParentStep PROVE FR!ReportInv'
  OBVIOUS
<1> USE DEF FR!ReportInv, FR!Unread, FR!ParentPCs, FR!ChildPCs
<1>1. CASE FR!Fork
  BY <1>1 DEF FR!Fork
<1>2. CASE FR!ForkFails
  BY <1>2 DEF FR!ForkFails, FR!Return
<1>3. CASE FR!Reap
  BY <1>3, SMTT(30) DEF FR!Reap
<1>4. CASE FR!ReadFirst
  <2>1. CASE pipe = <<>>
    BY <1>4, <2>1, SMTT(30) DEF FR!ReadFirst, FR!Return
  <2>2. CASE pipe # <<>>
    <3>1. pipe' = Tail(pipe) /\ parent = "first" /\ parent' = "second"
      BY <1>4, <2>2 DEF FR!ReadFirst
    <3>2. CASE child \notin {"none", "born"} /\ (code = 0 \/ ready) /\ pipe = <<FR!ChildPid>>
      <4>1. pipe' = <<>>
        BY <3>1, <3>2
      <4> QED
        BY <1>4, <3>1, <3>2, <4>1 DEF FR!ReadFirst
    <3>3. CASE code # 0 /\ ~ready /\ pipe = <<FR!ChildPid, code>>
      <4>1. pipe' = <<code>>
        BY <3>1, <3>3
      <4> QED
        BY <1>4, <3>1, <3>3, <4>1 DEF FR!ReadFirst
    <3> QED
      BY <2>2, <3>1, <3>2, <3>3
  <2> QED
    BY <2>1, <2>2
<1>5. CASE FR!ReadSecond
  <2>1. CASE pipe = <<>>
    BY <1>5, <2>1 DEF FR!ReadSecond, FR!Return
  <2>2. CASE pipe # <<>>
    <3>1. pipe = <<code>> /\ code # 0 /\ ~ready
      BY <1>5, <2>2 DEF FR!ReadSecond
    <3>2. pipe' = <<>> /\ result' = -FR!Abs(code) /\ parent' = "collect"
      BY <1>5, <2>2, <3>1 DEF FR!ReadSecond
    <3> QED
      BY <1>5, <3>1, <3>2 DEF FR!ReadSecond
  <2> QED
    BY <2>1, <2>2
<1>6. CASE FR!Collect
  BY <1>6, SMTT(30) DEF FR!Collect
<1> QED
  BY <1>1, <1>2, <1>3, <1>4, <1>5, <1>6, Zenon DEF FR!ParentStep

\* df_inter() and df_child(): whoever ends closes its end of the pipe.
LEMMA OthersKeepInv == FR!ReportInv /\ (FR!InterStep \/ FR!ChildStep) => FR!ReportInv'
<1> SUFFICES ASSUME FR!ReportInv, FR!InterStep \/ FR!ChildStep PROVE FR!ReportInv'
  OBVIOUS
<1> USE DEF FR!ReportInv, FR!Unread, FR!ParentPCs, FR!ChildPCs, FR!Die
<1>1. CASE FR!InterForks
  BY <1>1 DEF FR!InterForks
<1>2. CASE FR!InterExits
  BY <1>2 DEF FR!InterExits
<1>3. CASE FR!WritePid
  <2>1. pipe = <<>> /\ parent \in {"reap", "first"}
    BY <1>3, CodesAssumption DEF FR!WritePid
  <2>2. pipe' = <<FR!ChildPid>>
    BY <1>3, <2>1 DEF FR!WritePid
  <2> QED
    BY <1>3, <2>1, <2>2 DEF FR!WritePid
<1>4. CASE FR!WritePidFails
  BY <1>4 DEF FR!WritePidFails
<1>5. CASE FR!report_ready
  BY <1>5 DEF FR!report_ready
<1>6. CASE FR!Succeed
  BY <1>6, SMTT(30) DEF FR!Succeed
<1>7. ASSUME NEW c \in Codes, FR!Fail(c) PROVE FR!ReportInv'
  <2>1. c # 0
    BY CodesAssumption
  <2>2. CASE ready
    BY <1>7, <2>1, <2>2, SMTT(30) DEF FR!Fail
  <2>3. CASE ~ready
    <3>1. pipe' = Append(pipe, c) /\ code' = c
      BY <1>7, <2>3 DEF FR!Fail
    <3>2. \/ parent \in {"fork", "reap", "first"} /\ pipe = <<FR!ChildPid>>
          \/ parent = "second" /\ pipe = <<>>
      BY <1>7, <2>3 DEF FR!Fail
    <3>3. \/ parent \in {"fork", "reap", "first"} /\ pipe' = <<FR!ChildPid, c>>
          \/ parent = "second" /\ pipe' = <<c>>
      <4>1. c \in Int /\ FR!ChildPid \in Int
        BY CodesAssumption DEF FR!ChildPid
      <4>2. Append(<<>>, c) = <<c>> /\ Append(<<FR!ChildPid>>, c) = <<FR!ChildPid, c>>
        BY <4>1, Appended
      <4> QED
        BY <3>1, <3>2, <4>2, Zenon
    <3>4. UNCHANGED <<daemonize, parent, inter, ready, writers, result>> /\ child' = "returned" /\ child = "running"
      BY <1>7 DEF FR!Fail
    <3>5. CASE parent \in {"fork", "reap", "first"} /\ pipe' = <<FR!ChildPid, c>>
      BY <2>1, <2>3, <3>1, <3>4, <3>5, SMTT(30)
    <3>6. CASE parent = "second" /\ pipe' = <<c>>
      BY <2>1, <2>3, <3>1, <3>4, <3>6, SMTT(30)
    <3> QED
      BY <3>3, <3>5, <3>6
  <2> QED
    BY <2>2, <2>3
<1>8. CASE FR!ChildExits
  BY <1>8 DEF FR!ChildExits
<1>9. CASE FR!Killed
  BY <1>9 DEF FR!Killed
<1> QED
  BY <1>1, <1>2, <1>3, <1>4, <1>5, <1>6, <1>7, <1>8, <1>9, Zenon DEF FR!InterStep, FR!ChildStep, FR!ChildReports

\* The invariant holds throughout.
THEOREM ReportInvariance == FR!Spec => []FR!ReportInv
<1>1. FR!Init => FR!ReportInv
  BY Zenon DEF FR!Init, FR!ReportInv, FR!Unread, FR!ParentPCs, FR!ChildPCs
<1>2. FR!ReportInv /\ [FR!Next]_(FR!vars) => FR!ReportInv'
  <2>1. FR!ReportInv /\ UNCHANGED FR!vars => FR!ReportInv'
    BY DEF FR!vars, FR!ReportInv, FR!Unread
  <2> QED
    BY <2>1, ParentKeepsInv, OthersKeepInv DEF FR!Next
<1> QED
  BY <1>1, <1>2, PTL DEF FR!Spec

\* Whatever is in the pipe is a PID, a code, or both in that order (df_child()).
THEOREM TypeIsCorrect == FR!Spec => []FR!TypeOK
<1>1. FR!ReportInv => FR!TypeOK
  <2> SUFFICES ASSUME FR!ReportInv PROVE FR!TypeOK
    OBVIOUS
  <2>1. code # 0 => code \in Codes
    BY DEF FR!ReportInv
  <2>2. pipe \in {<<>>} \cup {<<n>> : n \in Codes \cup {FR!ChildPid}} \cup {<<FR!ChildPid, c>> : c \in Codes}
    BY <2>1 DEF FR!ReportInv, FR!Unread, FR!ParentPCs
  <2>3. result \in {0, FR!ChildPid} \cup {-FR!Abs(c) : c \in Codes \cup {FR!EXIT_FAILURE}}
    <3>1. -FR!Abs(FR!EXIT_FAILURE) = -FR!EXIT_FAILURE
      BY DEF FR!Abs, FR!EXIT_FAILURE
    <3> QED
      BY <2>1, <3>1 DEF FR!ReportInv, FR!Unread, FR!ParentPCs
  <2> QED
    BY <2>2, <2>3 DEF FR!ReportInv, FR!TypeOK
<1> QED
  BY <1>1, ReportInvariance, PTL

\* What the parent promises follows from what is in the pipe.
LEMMA ReportMeans == FR!ReportInv => FR!SuccessTruth /\ FR!FailureTruth
<1>1. FR!ReportInv => FR!SuccessTruth
  BY CodesAssumption DEF FR!ReportInv, FR!Unread, FR!SuccessTruth, FR!Abs, FR!EXIT_FAILURE, FR!ChildPid
<1>2. FR!ReportInv => FR!FailureTruth
  BY CodesAssumption DEF FR!ReportInv, FR!Unread, FR!FailureTruth, FR!Abs, FR!EXIT_FAILURE, FR!ChildPid
<1> QED
  BY <1>1, <1>2

\* df_parent() returns the PID only if the function has succeeded or was killed.
THEOREM SuccessIsTrue == FR!Spec => []FR!SuccessTruth
  BY ReportMeans, ReportInvariance, PTL

\* It returns a failure only if the function has not succeeded, with its code.
THEOREM FailureIsTrue == FR!Spec => []FR!FailureTruth
  BY ReportMeans, ReportInvariance, PTL
-----------------------------------------------------------------------------
USE ZenonT(30)

-----------------------------------------------------------------------------
(* Activations *)

\* The places in service_start(), service_stop(), service_reload() and service_status().
StartPcs == {"start", "up", "ending", "build", "required", "fork"}
StopPcs == {"stop", "planA", "run", "ran", "await", "planB", "ask", "send", "wait", "planC",
            "buildC", "startC", "runC", "ranC", "kill", "rmpid"}
ReloadPcs == {"reload", "askR", "runR", "ranR"}
StatusPcs == {"status", "buildS", "probe"}
Pcs == StartPcs \cup StopPcs \cup ReloadPcs \cup StatusPcs
\* What an activation may be.
Frames == [svc : Services, pc : Pcs, next : Nat \ {0}, bad : BOOLEAN]

\* Where sysvrun is, "none" once it has returned.
Pc == IF stack = <<>> THEN "none" ELSE Top.pc

\* A place at which the command can be, with n activations.
Fits(v, p, n) ==
    /\ p \in StartPcs => v \in {"start", "restart"}
    /\ p \in StopPcs => v \in {"stop", "restart"} /\ n = 1
    /\ p \in ReloadPcs => v = "reload" /\ n = 1
    /\ p \in StatusPcs => v = "status" /\ n = 1

\* An activation of service_start() below another waits for what it requires.
Waits(u, f, g) ==
    f.pc = "required" /\ f.next <= Len(u[f.svc].requires) /\ u[f.svc].requires[f.next] = g.svc

\* Invariant: the first activation is that of the target, each of the others is that of
\* a service that the one below requires and waits for, and only service_start() calls
\* itself.
StackInv ==
    /\ case \in Cases /\ stack \in Seq(Frames)
    /\ stack # <<>> => stack[1].svc = Target /\ exit = Pending /\ Fits(verb, Top.pc, Len(stack))
    /\ \A i \in 1 .. Len(stack) - 1 : Waits(unit, stack[i], stack[i + 1])

\* The first of several is not the last.
LEMMA FirstOf == ASSUME NEW n \in Nat, n # 0, n # 1 PROVE 1 \in 1 .. n - 1 /\ n > 1
  BY SMT

\* What a jump within an activation does to the stack.
LEMMA Jumped ==
    ASSUME NEW q \in Seq(Frames), q # <<>>, NEW p \in Pcs, NEW r,
           r = [q EXCEPT ![Len(q)] = Moved(q[Len(q)], p)]
    PROVE  /\ r \in Seq(Frames) /\ Len(r) = Len(q) /\ r # <<>> /\ r[Len(r)] = Moved(q[Len(q)], p)
           /\ r[Len(r)].svc = q[Len(q)].svc /\ r[Len(r)].pc = p
           /\ \A i \in 1 .. Len(q) - 1 : r[i] = q[i]
<1>1. Len(q) \in Nat /\ Len(q) \in DOMAIN q /\ q[Len(q)] \in Frames
  BY SMT
<1>2. Moved(q[Len(q)], p) \in Frames /\ Moved(q[Len(q)], p).svc = q[Len(q)].svc /\ Moved(q[Len(q)], p).pc = p
  BY <1>1, SMT DEF Moved, Frames
<1> QED BY <1>1, <1>2, SMT

\* What returning to service_start_prerequisites() does to it.
LEMMA Returned ==
    ASSUME stack \in Seq(Frames), NEW n \in Nat, n # 0, Len(stack) = n + 1, NEW res,
           stack' = [SubSeq(stack, 1, n) EXCEPT ![n] = Advanced(stack[n], res)]
    PROVE  /\ stack' \in Seq(Frames) /\ Len(stack') = n /\ stack' # <<>>
           /\ stack'[n].svc = stack[n].svc /\ stack'[n].pc = stack[n].pc
           /\ stack'[n].next = stack[n].next + 1 /\ (stack'[n].bad <=> stack[n].bad \/ res # 0)
           /\ \A i \in 1 .. n - 1 : stack'[i] = stack[i]
<1> DEFINE s == SubSeq(stack, 1, n)
           f == Advanced(stack[n], res)
<1>1. n \in DOMAIN stack /\ stack[n] \in Frames
  BY SMT
<1>2. f \in Frames /\ f.svc = stack[n].svc /\ f.pc = stack[n].pc /\ f.next = stack[n].next + 1
  BY <1>1, SMTT(30) DEF Advanced, Frames
<1>3. f.bad <=> stack[n].bad \/ res # 0
  BY <1>1 DEF Advanced
<1>4. s \in Seq(Frames) /\ Len(s) = n /\ \A i \in 1 .. n : s[i] = stack[i]
  BY SMT
<1>5. stack' = [s EXCEPT ![n] = f]
  OBVIOUS
<1> HIDE DEF s, f
<1>6. /\ stack' \in Seq(Frames) /\ Len(stack') = n /\ stack' # <<>> /\ stack'[n] = f
      /\ \A i \in 1 .. n - 1 : stack'[i] = stack[i]
  BY <1>2, <1>4, <1>5, SMT
<1> QED BY <1>2, <1>3, <1>6

\* At() says where sysvrun is.
LEMMA AtPc == ASSUME NEW p \in Pcs, At(p) PROVE Pc = p /\ stack # <<>> /\ Top.pc = p
  BY DEF At, Pc

\* A jump, within service_start(), service_stop() and so on.
LEMMA GotoStack ==
    ASSUME StackInv, stack # <<>>, UNCHANGED case, NEW p \in Pcs, Goto(p), Fits(verb, p, Len(stack))
    PROVE  StackInv' /\ Pc' = p /\ stack' # <<>> /\ Len(stack') = Len(stack) /\ Top'.svc = Top.svc
<1>0. stack \in Seq(Frames) /\ Len(stack) \in Nat /\ Len(stack) # 0
  BY SMT DEF StackInv
<1>1. stack \in Seq(Frames) /\ stack' = [stack EXCEPT ![Len(stack)] = Moved(stack[Len(stack)], p)] /\ exit' = exit
  BY DEF StackInv, Goto, Top
<1>2. /\ stack' \in Seq(Frames) /\ Len(stack') = Len(stack) /\ stack' # <<>>
      /\ Top'.svc = Top.svc /\ Top'.pc = p
      /\ \A i \in 1 .. Len(stack) - 1 : stack'[i] = stack[i]
  BY SMT, <1>1, Jumped DEF Top
<1>3. stack'[1].svc = stack[1].svc
  <2>1. CASE Len(stack) = 1
    BY <1>2, <2>1 DEF Top
  <2>2. CASE Len(stack) # 1
    <3>1. 1 \in 1 .. Len(stack) - 1
      BY <1>0, <2>2, FirstOf
    <3> QED BY <1>2, <3>1
  <2> QED BY <2>1, <2>2
<1>4. ASSUME NEW i \in 1 .. Len(stack') - 1 PROVE Waits(unit', stack'[i], stack'[i + 1])
  <2>1. i \in 1 .. Len(stack) - 1 /\ Waits(unit, stack[i], stack[i + 1]) /\ stack'[i] = stack[i]
    BY <1>2, <1>4 DEF StackInv
  <2>2. CASE i + 1 = Len(stack)
    <3>1. stack'[i + 1].svc = stack[i + 1].svc
      BY <1>2, <2>2 DEF Top
    <3> QED BY <2>1, <3>1 DEF Waits, unit
  <2>3. CASE i + 1 # Len(stack)
    <3>1. i + 1 \in 1 .. Len(stack) - 1
      BY <1>1, <2>1, <2>3, SMT
    <3> QED BY <1>2, <2>1, <3>1 DEF Waits, unit
  <2> QED BY <2>2, <2>3
<1>5. Fits(verb', p, Len(stack'))
  BY <1>2 DEF Fits, verb
<1> QED BY <1>1, <1>2, <1>3, <1>4, <1>5 DEF StackInv, Pc

\* A return, to main() or to service_start_prerequisites().
LEMMA ReturnStack ==
    ASSUME StackInv, stack # <<>>, UNCHANGED case, NEW res, Return(res)
    PROVE  /\ StackInv'
           /\ \/ Len(stack) = 1 /\ stack' = <<>> /\ Pc' = "none" /\ exit' = res
              \/ /\ Len(stack) > 1 /\ stack' # <<>> /\ Pc' = "required" /\ exit' = exit
                 /\ Top.pc \in StartPcs /\ verb \in {"start", "restart"}
<1> DEFINE n == Len(stack) - 1
<1>0. Return(res) <=> IF n = 0 THEN stack' = <<>> /\ exit' = res
                     ELSE stack' = [SubSeq(stack, 1, n) EXCEPT ![n] = Advanced(stack[n], res)] /\ UNCHANGED exit
  BY DEF Return
<1>1. stack \in Seq(Frames) /\ Len(stack) \in Nat /\ n \in Nat /\ Len(stack) = n + 1
  BY SMT DEF StackInv
<1> HIDE DEF n
<1>2. CASE n = 0
  <2>1. stack' = <<>> /\ exit' = res
    BY <1>0, <1>2
  <2>2. <<>> \in Seq(Frames) /\ \A i \in 1 .. Len(<<>>) - 1 : FALSE
    BY SMT
  <2>3. Len(stack) = 1
    BY <1>1, <1>2, SMT
  <2> QED BY <2>1, <2>2, <2>3 DEF StackInv, Pc
<1>3. CASE n # 0
  <2>1. stack' = [SubSeq(stack, 1, n) EXCEPT ![n] = Advanced(stack[n], res)] /\ exit' = exit
    BY <1>0, <1>3
  <2>2. /\ stack' \in Seq(Frames) /\ Len(stack') = n /\ stack' # <<>>
        /\ stack'[n].svc = stack[n].svc /\ stack'[n].pc = stack[n].pc
        /\ \A i \in 1 .. n - 1 : stack'[i] = stack[i]
    BY <1>1, <1>3, <2>1, Returned
  <2>3. n \in 1 .. Len(stack) - 1 /\ Len(stack) > 1 /\ Len(stack) # 1
    BY <1>1, <1>3, SMT
  <2>4. stack[n].pc = "required" /\ Top'.pc = "required"
    BY <2>2, <2>3 DEF StackInv, Waits, Top
  <2>5. Top.pc \in StartPcs /\ verb \in {"start", "restart"}
    <3>1. Fits(verb, Top.pc, Len(stack))
      BY DEF StackInv
    <3>2. Top \in Frames
      BY <1>1, SMT DEF Top
    <3>3. Top.pc \in Pcs
      BY <3>2, SMT DEF Frames
    <3> QED BY <2>3, <3>1, <3>3 DEF Fits, Pcs
  <2>6. stack'[1].svc = Target
    <3>1. CASE n = 1
      BY <2>2, <3>1 DEF StackInv
    <3>2. CASE n # 1
      <4>1. 1 \in 1 .. n - 1
        BY <1>1, <1>3, <3>2, FirstOf
      <4> QED BY <2>2, <4>1 DEF StackInv
    <3> QED BY <3>1, <3>2
  <2>7. ASSUME NEW i \in 1 .. Len(stack') - 1 PROVE Waits(unit', stack'[i], stack'[i + 1])
    <3>1. i \in 1 .. n - 1 /\ i \in 1 .. Len(stack) - 1
      BY <1>1, <2>2, <2>7, SMT
    <3>2. Waits(unit, stack[i], stack[i + 1]) /\ stack'[i] = stack[i]
      BY <2>2, <3>1 DEF StackInv
    <3>3. stack'[i + 1].svc = stack[i + 1].svc
      <4>1. CASE i + 1 = n
        BY <2>2, <4>1
      <4>2. CASE i + 1 # n
        <5>1. i + 1 \in 1 .. n - 1
          BY <1>1, <3>1, <4>2, SMT
        <5> QED BY <2>2, <5>1
      <4> QED BY <4>1, <4>2
    <3> QED BY <3>2, <3>3 DEF Waits, unit
  <2>8. Fits(verb', Top'.pc, Len(stack'))
    BY <2>4, <2>5 DEF Fits, verb, StartPcs, StopPcs, ReloadPcs, StatusPcs
  <2> QED BY <2>1, <2>2, <2>3, <2>4, <2>5, <2>6, <2>7, <2>8 DEF StackInv, Pc
<1> QED BY <1>2, <1>3

\* Places in the same function.
Kin(p, q) == \E F \in {StartPcs, StopPcs, ReloadPcs, StatusPcs} : p \in F /\ q \in F

\* A jump within a function.
LEMMA Jump ==
    ASSUME StackInv, UNCHANGED case, NEW p \in Pcs, At(p), NEW q \in Pcs, Goto(q), Kin(p, q)
    PROVE  StackInv' /\ Pc = p /\ Pc' = q /\ stack # <<>> /\ stack' # <<>> /\ exit' = exit /\ Top'.svc = Top.svc
<1>1. stack # <<>> /\ Pc = p /\ Top.pc = p
  BY AtPc
<1>2. Fits(verb, p, Len(stack))
  BY <1>1 DEF StackInv
<1>3. Fits(verb, q, Len(stack))
  BY <1>2 DEF Fits, Kin, StartPcs, StopPcs, ReloadPcs, StatusPcs
<1> QED BY <1>1, <1>3, GotoStack DEF Goto

\* A return.
LEMMA Leave ==
    ASSUME StackInv, UNCHANGED case, NEW p \in Pcs, At(p), NEW res, Return(res)
    PROVE  /\ StackInv' /\ Pc = p /\ stack # <<>>
           /\ \/ Len(stack) = 1 /\ stack' = <<>> /\ Pc' = "none" /\ exit' = res
              \/ Len(stack) > 1 /\ stack' # <<>> /\ Pc' = "required" /\ exit' = exit /\ p \in StartPcs
  BY AtPc, ReturnStack

\* service_stop() is called by main() or by service_restart(), for the target.
LEMMA OfTarget ==
    ASSUME StackInv, NEW p \in StopPcs \cup ReloadPcs \cup StatusPcs, At(p)
    PROVE  Len(stack) = 1 /\ Top.svc = Target /\ stack # <<>> /\ ~(Len(stack) > 1)
<1>1. stack # <<>> /\ Top.pc = p
  BY DEF At
<1>2. Len(stack) = 1
  BY <1>1 DEF StackInv, Fits
<1>3. ~(1 > 1)
  BY SMT
<1> QED BY <1>1, <1>2, <1>3 DEF StackInv, Top

\* Where it returns to.
LEMMA StopLeave ==
    ASSUME StackInv, UNCHANGED case, NEW p \in StopPcs, At(p), NEW res, NEW e, StopReturns(res, e)
    PROVE  /\ StackInv' /\ Pc = p /\ stack # <<>>
           /\ \/ stack' = <<>> /\ Pc' = "none" /\ exit' = res
              \/ verb = "restart" /\ stack' # <<>> /\ Pc' = "start" /\ exit' = exit
<1>1. p \in Pcs /\ "start" \in Pcs
  BY DEF Pcs, StartPcs
<1>2. stack # <<>> /\ Pc = p /\ Len(stack) = 1 /\ ~(Len(stack) > 1)
  BY <1>1, AtPc, OfTarget
<1>3. CASE verb = "restart" /\ Goto("start")
  <2>1. Fits(verb, "start", Len(stack))
    BY <1>2, <1>3 DEF Fits, StartPcs, StopPcs, ReloadPcs, StatusPcs
  <2> QED BY <1>1, <1>2, <1>3, <2>1, GotoStack DEF Goto
<1>4. CASE Return(res)
  BY <1>1, <1>2, <1>4, Leave
<1> QED BY <1>3, <1>4 DEF StopReturns

\* The next service that is required.
LEMMA PushStack ==
    ASSUME StackInv, UNCHANGED case, Prerequisite
    PROVE  /\ StackInv' /\ Pc = "required" /\ stack # <<>> /\ Pc' # "fork"
           /\ (stack' = <<>> /\ Pc' = "none" /\ exit' = 1) \/ (stack' # <<>> /\ Pc' \in {"start", "required"} /\ exit' = exit)
<1> DEFINE r == U.requires[Top.next]
<1>0. "required" \in Pcs /\ "start" \in Pcs /\ At("required") /\ Top.next <= Len(U.requires)
  BY DEF Pcs, StartPcs, Prerequisite
<1>1. stack # <<>> /\ Pc = "required" /\ Top.pc = "required" /\ stack \in Seq(Frames)
  BY <1>0, AtPc, SMT DEF StackInv
<1>2. CASE Return(1)
  BY <1>0, <1>1, <1>2, Leave
<1>3. CASE r \in Services /\ stack' = Append(stack, Frame(r, "start")) /\ UNCHANGED exit
  <2> DEFINE f == Frame(r, "start")
  <2>1. f \in Frames /\ f.svc = r /\ f.pc = "start"
    BY <1>0, <1>3, SMT DEF Frame, Frames
  <2> HIDE DEF f
  <2>2. /\ stack' \in Seq(Frames) /\ stack' # <<>> /\ Len(stack') = Len(stack) + 1 /\ stack'[Len(stack')] = f
        /\ \A i \in 1 .. Len(stack) : stack'[i] = stack[i]
        /\ 1 \in 1 .. Len(stack)
    <3>1. stack' = Append(stack, f)
      BY <1>3 DEF f
    <3> QED BY <1>1, <2>1, <3>1, SMT
  <2>3. ASSUME NEW i \in 1 .. Len(stack') - 1 PROVE Waits(unit', stack'[i], stack'[i + 1])
    <3>1. i \in 1 .. Len(stack) /\ i \in Int /\ Len(stack) \in Nat
      BY <1>1, <2>2, <2>3, SMT
    <3>2. CASE i = Len(stack)
      <4>1. stack'[i] = Top /\ stack'[i + 1].svc = r
        BY <2>1, <2>2, <3>1, <3>2 DEF Top
      <4> HIDE DEF r
      <4> QED BY <1>0, <1>1, <4>1 DEF Waits, U, unit, r
    <3>3. CASE i # Len(stack)
      <4>1. i \in 1 .. Len(stack) - 1 /\ i + 1 \in 1 .. Len(stack)
        BY <3>1, <3>3, SMT
      <4> QED BY <2>2, <3>1, <4>1 DEF StackInv, unit
    <3> QED BY <3>2, <3>3
  <2>4. Fits(verb', Top'.pc, Len(stack')) /\ Top'.pc = "start"
    <3>1. verb \in {"start", "restart"}
      BY <1>1 DEF StackInv, Fits, StartPcs
    <3>2. Top'.pc = "start"
      BY <2>1, <2>2 DEF Top
    <3> QED BY <3>1, <3>2 DEF Fits, StartPcs, StopPcs, ReloadPcs, StatusPcs, verb
  <2> QED BY <1>1, <1>3, <2>2, <2>3, <2>4 DEF StackInv, Pc
<1> QED BY <1>2, <1>3 DEF Prerequisite

\* service_start() and the others that ask the monitor.
LEMMA AsksStack == ASSUME StackInv, UNCHANGED case, NEW s \in States \cup {"error"}, Asks(s) PROVE StackInv'
<1> USE DEF Pcs, Kin, StartPcs, StopPcs, ReloadPcs, StatusPcs
<1>1. CASE service_start(s)
  <2>1. At("start") /\ (Return(0) \/ Goto("up") \/ Goto("ending") \/ Goto("build"))
    BY <1>1 DEF service_start, States
  <2> QED BY <2>1, Leave, Jump
<1>2. CASE StartWait(s)
  <2>1. At("up") /\ (Return(0) \/ Goto("build") \/ Return(1))
    BY <1>2 DEF StartWait, States
  <2> QED BY <2>1, Leave, Jump
<1>3. CASE EndWait(s)
  <2>1. At("ending") /\ (Goto("build") \/ Return(1))
    BY <1>3 DEF EndWait
  <2> QED BY <2>1, Leave, Jump
<1>4. CASE service_stop(s)
  <2>1. At("stop") /\ (StopReturns(0, "") \/ Goto("planA"))
    BY <1>4 DEF service_stop
  <2>2. CASE StopReturns(0, "")
    BY <2>1, <2>2, StopLeave
  <2>3. CASE Goto("planA")
    BY <2>1, <2>3, Jump
  <2> QED BY <2>1, <2>2, <2>3
<1>5. CASE StopAwait(s)
  <2>1. At("await") /\ (StopReturns(0, "") \/ StopReturns(1, "EPERM") \/ Goto("planB"))
    BY <1>5 DEF StopAwait
  <2>2. CASE Goto("planB")
    BY <2>1, <2>2, Jump
  <2>3. CASE ~Goto("planB")
    BY <2>1, <2>3, StopLeave
  <2> QED BY <2>2, <2>3
<1>6. CASE monitor_control_stop(s)
  <2>1. At("ask") /\ (Goto("planC") \/ Goto("wait") \/ Goto("send"))
    BY <1>6 DEF monitor_control_stop
  <2>2. CASE Goto("planC")
    BY <2>1, <2>2, Jump
  <2>3. CASE Goto("wait")
    BY <2>1, <2>3, Jump
  <2>4. CASE Goto("send")
    BY <2>1, <2>4, Jump
  <2> QED BY <2>1, <2>2, <2>3, <2>4
<1>7. CASE StopWait(s)
  <2>1. At("wait") /\ Goto("planC")
    BY <1>7 DEF StopWait
  <2> QED BY <2>1, Jump
<1>8. CASE ReloadAsk(s)
  <2>1. At("askR") /\ (Return(1) \/ Return(0) \/ Goto("runR") \/ Return(7))
    BY <1>8 DEF ReloadAsk, States
  <2> QED BY <2>1, Leave, Jump
<1>9. CASE service_status(s)
  <2>1. At("status") /\ (Return(4) \/ Goto("buildS") \/ Return(0))
    BY <1>9 DEF service_status
  <2> QED BY <2>1, Leave, Jump
<1> QED BY <1>1, <1>2, <1>3, <1>4, <1>5, <1>6, <1>7, <1>8, <1>9 DEF Asks

\* Those that build a command.
LEMMA BuildsStack == ASSUME StackInv, UNCHANGED case, NEW e, Builds(e) PROVE StackInv'
<1> USE DEF Pcs, Kin, StartPcs, StopPcs, ReloadPcs, StatusPcs
<1>1. CASE StartBuild(e)
  <2>1. At("build") /\ (Return(1) \/ Goto("required"))
    BY <1>1 DEF StartBuild
  <2> QED BY <2>1, Leave, Jump
<1>2. CASE PlanA(e)
  <2>1. At("planA") /\ (StopReturns(1, e) \/ Goto("planB") \/ Goto("run"))
    BY <1>2 DEF PlanA
  <2>2. CASE Goto("planB") \/ Goto("run")
    BY <2>1, <2>2, Jump
  <2>3. CASE ~Goto("planB") /\ ~Goto("run")
    BY <2>1, <2>3, StopLeave
  <2> QED BY <2>2, <2>3
<1>3. CASE PlanCBuild(e)
  <2>1. At("buildC") /\ (Goto("runC") \/ Goto("startC"))
    BY <1>3 DEF PlanCBuild
  <2>2. CASE Goto("runC")
    BY <2>1, <2>2, Jump
  <2>3. CASE Goto("startC")
    BY <2>1, <2>3, Jump
  <2> QED BY <2>1, <2>2, <2>3
<1>4. CASE PlanCStart(e)
  <2>1. At("startC") /\ (StopReturns(1, e) \/ Goto("kill"))
    BY <1>4 DEF PlanCStart
  <2> QED BY <2>1, StopLeave, Jump
<1>5. CASE service_reload(e)
  <2>1. At("reload") /\ (Return(3) \/ Goto("askR"))
    BY <1>5 DEF service_reload
  <2> QED BY <2>1, Leave, Jump
<1>6. CASE StatusBuild(e)
  <2>1. At("buildS") /\ (Return(4) \/ Goto("probe"))
    BY <1>6 DEF StatusBuild
  <2> QED BY <2>1, Leave, Jump
<1> QED BY <1>1, <1>2, <1>3, <1>4, <1>5, <1>6 DEF Builds

\* command_run() is called from three places.
LEMMA RunPlaces ==
    ASSUME Run
    PROVE  \/ At("run") /\ Goto("ran")
           \/ At("runC") /\ Goto("ranC")
           \/ At("runR") /\ Goto("ranR")
<1>1. PICK p \in {<<"run", "ran">>, <<"runC", "ranC">>, <<"runR", "ranR">>} : At(p[1]) /\ Goto(p[2])
  BY DEF Run
<1>2. /\ <<"run", "ran">>[1] = "run" /\ <<"run", "ran">>[2] = "ran"
      /\ <<"runC", "ranC">>[1] = "runC" /\ <<"runC", "ranC">>[2] = "ranC"
      /\ <<"runR", "ranR">>[1] = "runR" /\ <<"runR", "ranR">>[2] = "ranR"
  BY SMT
<1> QED BY <1>1, <1>2

\* All steps of sysvrun.
LEMMA ClientStack == ASSUME StackInv, Client PROVE StackInv'
<1> USE DEF Pcs, Kin, StartPcs, StopPcs, ReloadPcs, StatusPcs
<1>0. UNCHANGED case
  BY DEF Client
<1>1. CASE Prerequisite
  BY <1>0, <1>1, PushStack
<1>2. CASE Prerequisites
  <2>1. At("required") /\ (Return(1) \/ Goto("fork"))
    BY <1>2 DEF Prerequisites
  <2> QED BY <1>0, <2>1, Leave, Jump
<1>3. CASE Monitored
  <2>1. At("fork") /\ Return(IF result < 0 THEN -result ELSE 0)
    BY <1>3 DEF Monitored
  <2> QED BY <1>0, <2>1, Leave
<1>4. CASE Run
  <2>1. \/ At("run") /\ Goto("ran")
        \/ At("runC") /\ Goto("ranC")
        \/ At("runR") /\ Goto("ranR")
    BY <1>4, RunPlaces
  <2>2. CASE At("run") /\ Goto("ran")
    BY <1>0, <2>2, Jump
  <2>3. CASE At("runC") /\ Goto("ranC")
    BY <1>0, <2>3, Jump
  <2>4. CASE At("runR") /\ Goto("ranR")
    BY <1>0, <2>4, Jump
  <2> QED BY <2>1, <2>2, <2>3, <2>4
<1>5. CASE StopRan
  <2>1. At("ran") /\ Goto("await")
    BY <1>5 DEF StopRan
  <2> QED BY <1>0, <2>1, Jump
<1>6. CASE PlanB
  <2>1. At("planB") /\ (Goto("planC") \/ Goto("ask"))
    BY <1>6 DEF PlanB
  <2> QED BY <1>0, <2>1, Jump
<1>7. CASE StopOrder
  <2>1. At("send") /\ (Goto("planC") \/ Goto("wait"))
    BY <1>7 DEF StopOrder
  <2> QED BY <1>0, <2>1, Jump
<1>8. CASE PlanC
  <2>1. At("planC") /\ (StopReturns(0, "ENOENT") \/ StopReturns(1, "ENOENT") \/ Goto("buildC"))
    BY <1>8 DEF PlanC
  <2>2. CASE Goto("buildC")
    BY <1>0, <2>1, <2>2, Jump
  <2>3. CASE ~Goto("buildC")
    BY <1>0, <2>1, <2>3, StopLeave
  <2> QED BY <2>2, <2>3
<1>9. CASE PlanCRan
  <2>1. At("ranC") /\ Goto("kill")
    BY <1>9 DEF PlanCRan
  <2> QED BY <1>0, <2>1, Jump
<1>10. ASSUME NEW e \in Errnos, PlanCKill(e) PROVE StackInv'
  <2>1. At("kill") /\ Goto("rmpid")
    BY <1>10 DEF PlanCKill
  <2> QED BY <1>0, <2>1, Jump
<1>11. ASSUME NEW e \in Errnos, command_rmpid(e) PROVE StackInv'
  <2>1. At("rmpid") /\ (StopReturns(0, e) \/ StopReturns(1, e))
    BY <1>11 DEF command_rmpid
  <2> QED BY <1>0, <2>1, StopLeave
<1>12. ASSUME NEW e \in Errnos, StatusProbe(e) PROVE StackInv'
  <2>1. At("probe") /\ (Return(0) \/ Return(1) \/ Return(3) \/ Return(4))
    BY <1>12 DEF StatusProbe
  <2> QED BY <1>0, <2>1, Leave
<1>13. CASE ReloadRan
  <2>1. At("ranR") /\ (Return(0) \/ Return(1))
    BY <1>13 DEF ReloadRan
  <2> QED BY <1>0, <2>1, Leave
<1> QED BY <1>0, <1>1, <1>2, <1>3, <1>4, <1>5, <1>6, <1>7, <1>8, <1>9, <1>10, <1>11, <1>12, <1>13,
           AsksStack, BuildsStack DEF Client

\* The other processes do not touch what sysvrun keeps to itself.
LEMMA Elsewhere == ASSUME Report \/ Exec \/ MonitorChild \/ Program \/ Others PROVE UNCHANGED <<client, self>>
  BY DEF Report, ReportStep, ChildExits, Exec, ExecStep, ExecFails, ChildKilled, MonitorChild, MonitorBinds,
         MonitorReports, MonitorFails, MonitorKilled, Program, ProgramExits, Others

\* It is kept.
LEMMA StackInvNext == StackInv /\ [Next]_vars => StackInv'
<1> SUFFICES ASSUME StackInv, [Next]_vars PROVE StackInv'
  OBVIOUS
<1>1. CASE UNCHANGED client
  BY <1>1 DEF client, StackInv, Top, unit, verb
<1>2. CASE Client
  BY <1>2, ClientStack
<1> QED BY <1>1, <1>2, Elsewhere DEF Next, Own, vars

\* The command starts with it.
LEMMA StackStarts == ASSUME Init PROVE StackInv
<1> DEFINE p == IF verb = "restart" THEN "stop" ELSE verb
           f == Frame(Target, p)
<1>1. case \in Cases /\ stack = <<f>> /\ exit = Pending
  BY DEF Init
<1>2. verb \in {"start", "stop", "restart", "reload", "status"} /\ Target \in Services
  BY <1>1, ServiceAssumption DEF verb
<1>3. p \in Pcs /\ Fits(verb, p, 1)
  BY <1>2 DEF Pcs, Fits, StartPcs, StopPcs, ReloadPcs, StatusPcs
<1>4. f \in Frames /\ f.svc = Target /\ f.pc = p
  <2> HIDE DEF p
  <2> QED BY <1>2, <1>3, SMT DEF Frame, Frames
<1> HIDE DEF p, f
<1>5. stack \in Seq(Frames) /\ Len(stack) = 1 /\ stack[1] = f /\ \A i \in 1 .. Len(stack) - 1 : FALSE
  BY <1>1, <1>4, SMT
<1> QED BY <1>1, <1>3, <1>4, <1>5 DEF StackInv, Top

-----------------------------------------------------------------------------
(* Where sysvrun goes *)

\* Places at which command_run() is waited for.
Ran == {"ran", "ranC", "ranR"}

\* Places before which no command is made and none is forked.
Plain == {"none", "start", "up", "ending", "build", "required", "planA", "await", "planB", "ask",
          "send", "wait", "planC", "rmpid", "buildS", "probe"}

\* Steps of sysvrun between those that make a command and those that fork.
Between ==
    \/ \E s \in States \cup {"error"} : Asks(s)
    \/ Prerequisite \/ (Prerequisites /\ Top.bad) \/ Monitored
    \/ StopRan \/ PlanB \/ StopOrder \/ PlanC \/ PlanCRan \/ ReloadRan
    \/ \E e \in Errnos : PlanCKill(e) \/ command_rmpid(e) \/ StatusProbe(e)

\* Where they lead.
Flow ==
    /\ Pc # "none" /\ (Pc \in Ran => RunReturned) /\ (Pc \notin StopPcs => Pc' \notin StopPcs)
    /\ \/ Pc' \in Plain /\ (verb = "reload" => Pc' = "none")
       \/ Pc = "askR" /\ Pc' = "runR"
       \/ Pc = "planC" /\ Pc' = "buildC" /\ unit[Target].pidfile # "none"
       \/ Pc = "ranC" /\ Pc' = "kill"

\* A verb is known from the place.
LEMMA VerbAt ==
    ASSUME StackInv, NEW p \in StartPcs \cup StopPcs \cup StatusPcs, At(p)
    PROVE  verb # "reload" /\ Pc = p /\ p # "none"
<1>1. stack # <<>> /\ Top.pc = p
  BY DEF At
<1>2. p # "none"
  BY DEF StartPcs, StopPcs, StatusPcs
<1> QED BY <1>1, <1>2 DEF StackInv, Fits, Pc

\* Jumps and returns outside service_reload().
LEMMA JumpFlow ==
    ASSUME StackInv, UNCHANGED case, NEW p \in StartPcs \cup StopPcs \cup StatusPcs, At(p), p \in Ran => RunReturned,
           NEW q \in Pcs, q \in Plain, Goto(q), Kin(p, q)
    PROVE  Flow
<1>1. verb # "reload" /\ Pc = p /\ p # "none"
  BY VerbAt
<1>2. Pc' = q
  BY Jump DEF Pcs
<1>3. p \notin StopPcs => q \notin StopPcs
  BY DEF Kin, StartPcs, StopPcs, ReloadPcs, StatusPcs
<1> QED BY <1>1, <1>2, <1>3 DEF Flow

\* A return from service_start() or service_status().
LEMMA LeaveFlow ==
    ASSUME StackInv, UNCHANGED case, NEW p \in StartPcs \cup StatusPcs, At(p), NEW res, Return(res)
    PROVE  Flow
<1>1. verb # "reload" /\ Pc = p /\ p # "none"
  BY VerbAt
<1>2. Pc' \in {"none", "required"}
  BY Leave DEF Pcs
<1>3. p \notin Ran
  BY DEF Ran, StartPcs, StatusPcs
<1>4. Pc' \notin StopPcs
  BY <1>2 DEF StopPcs
<1> QED BY <1>1, <1>2, <1>3, <1>4 DEF Flow, Plain

\* A return from service_stop().
LEMMA StopFlow ==
    ASSUME StackInv, UNCHANGED case, NEW p \in StopPcs, At(p), p \notin Ran, NEW res, NEW e, StopReturns(res, e)
    PROVE  Flow
<1>1. verb # "reload" /\ Pc = p /\ p # "none"
  BY VerbAt
<1>2. Pc' \in {"none", "start"}
  BY StopLeave
<1> QED BY <1>1, <1>2 DEF Flow, Plain

\* The two in service_reload().
LEMMA ReloadFlow ==
    ASSUME StackInv, UNCHANGED case, NEW p \in {"askR", "ranR"}, At(p), p = "ranR" => RunReturned, NEW res, Return(res)
    PROVE  Flow
<1>1. p \in Pcs /\ p \notin StartPcs /\ p # "none" /\ (p \in Ran => RunReturned)
  BY DEF Pcs, StartPcs, ReloadPcs, Ran
<1>2. Pc = p /\ Pc' = "none"
  BY <1>1, Leave
<1>3. Pc' \notin StopPcs
  BY <1>2 DEF StopPcs
<1> QED BY <1>1, <1>2, <1>3 DEF Flow, Plain

\* A monitor is asked for its state.
LEMMA AsksFlow ==
    ASSUME StackInv, UNCHANGED case, NEW s \in States \cup {"error"}, Asks(s)
    PROVE  Flow /\ UNCHANGED <<command, fault>>
<1> USE DEF Pcs, Kin, StartPcs, StopPcs, ReloadPcs, StatusPcs, Ran, Plain
<1>1. CASE service_start(s)
  <2>1. At("start") /\ (Return(0) \/ Goto("up") \/ Goto("ending") \/ Goto("build")) /\ UNCHANGED <<command, fault>>
    BY <1>1 DEF service_start, States, NoCommandStep
  <2> QED BY <2>1, LeaveFlow, JumpFlow
<1>2. CASE StartWait(s)
  <2>1. At("up") /\ (Return(0) \/ Goto("build") \/ Return(1)) /\ UNCHANGED <<command, fault>>
    BY <1>2 DEF StartWait, States, NoCommandStep
  <2> QED BY <2>1, LeaveFlow, JumpFlow
<1>3. CASE EndWait(s)
  <2>1. At("ending") /\ (Goto("build") \/ Return(1)) /\ UNCHANGED <<command, fault>>
    BY <1>3 DEF EndWait, NoCommandStep
  <2> QED BY <2>1, LeaveFlow, JumpFlow
<1>4. CASE service_stop(s)
  <2>1. At("stop") /\ (StopReturns(0, "") \/ Goto("planA")) /\ UNCHANGED <<command, fault>>
    BY <1>4 DEF service_stop, NoCommandStep
  <2>2. CASE Goto("planA")
    BY <2>1, <2>2, JumpFlow
  <2>3. CASE ~Goto("planA")
    BY <2>1, <2>3, StopFlow
  <2> QED BY <2>2, <2>3
<1>5. CASE StopAwait(s)
  <2>1. At("await") /\ (StopReturns(0, "") \/ StopReturns(1, "EPERM") \/ Goto("planB")) /\ UNCHANGED <<command, fault>>
    BY <1>5 DEF StopAwait, NoCommandStep
  <2>2. CASE Goto("planB")
    BY <2>1, <2>2, JumpFlow
  <2>3. CASE ~Goto("planB")
    BY <2>1, <2>3, StopFlow
  <2> QED BY <2>2, <2>3
<1>6. CASE monitor_control_stop(s)
  <2>1. At("ask") /\ (Goto("planC") \/ Goto("wait") \/ Goto("send")) /\ UNCHANGED <<command, fault>>
    BY <1>6 DEF monitor_control_stop, NoCommandStep
  <2> QED BY <2>1, JumpFlow
<1>7. CASE StopWait(s)
  <2>1. At("wait") /\ Goto("planC") /\ UNCHANGED <<command, fault>>
    BY <1>7 DEF StopWait, NoCommandStep
  <2> QED BY <2>1, JumpFlow
<1>8. CASE ReloadAsk(s)
  <2>1. At("askR") /\ (Return(1) \/ Return(0) \/ Goto("runR") \/ Return(7)) /\ UNCHANGED <<command, fault>>
    BY <1>8 DEF ReloadAsk, States, NoCommandStep
  <2>2. CASE Goto("runR")
    <3>1. Pc = "askR" /\ Pc' = "runR"
      BY <2>1, <2>2, Jump
    <3> QED BY <2>1, <3>1 DEF Flow
  <2>3. CASE ~Goto("runR")
    BY <2>1, <2>3, ReloadFlow
  <2> QED BY <2>2, <2>3
<1>9. CASE service_status(s)
  <2>1. At("status") /\ (Return(4) \/ Goto("buildS") \/ Return(0)) /\ UNCHANGED <<command, fault>>
    BY <1>9 DEF service_status, NoCommandStep
  <2> QED BY <2>1, LeaveFlow, JumpFlow
<1> QED BY <1>1, <1>2, <1>3, <1>4, <1>5, <1>6, <1>7, <1>8, <1>9 DEF Asks

\* All of the steps between.
LEMMA BetweenFlow ==
    ASSUME StackInv, UNCHANGED case, Between
    PROVE  Flow /\ UNCHANGED <<command, fault>>
<1> USE DEF Pcs, Kin, StartPcs, StopPcs, ReloadPcs, StatusPcs, Ran, Plain
<1>1. CASE Prerequisite
  <2>1. At("required") /\ UNCHANGED <<command, fault>>
    BY <1>1 DEF Prerequisite, NoCommandStep
  <2>2. verb # "reload" /\ Pc = "required" /\ Pc' \in {"none", "start", "required"}
    BY <1>1, <2>1, VerbAt, PushStack
  <2> QED BY <2>1, <2>2 DEF Flow
<1>2. CASE Prerequisites /\ Top.bad
  <2>1. At("required") /\ Return(1) /\ UNCHANGED <<command, fault>>
    BY <1>2 DEF Prerequisites
  <2> QED BY <2>1, LeaveFlow
<1>3. CASE Monitored
  <2>1. At("fork") /\ Return(IF result < 0 THEN -result ELSE 0) /\ UNCHANGED <<command, fault>>
    BY <1>3 DEF Monitored, NoCommandStep
  <2> QED BY <2>1, LeaveFlow
<1>5. CASE StopRan
  <2>1. At("ran") /\ RunReturned /\ Goto("await") /\ UNCHANGED <<command, fault>>
    BY <1>5 DEF StopRan, NoCommandStep
  <2> QED BY <2>1, JumpFlow
<1>6. CASE PlanB
  <2>1. At("planB") /\ (Goto("planC") \/ Goto("ask")) /\ UNCHANGED <<command, fault>>
    BY <1>6 DEF PlanB, NoCommandStep
  <2> QED BY <2>1, JumpFlow
<1>7. CASE StopOrder
  <2>1. At("send") /\ (Goto("planC") \/ Goto("wait")) /\ UNCHANGED <<command, fault>>
    BY <1>7 DEF StopOrder, NoCommandStep
  <2> QED BY <2>1, JumpFlow
<1>8. CASE PlanC
  <2>1. At("planC") /\ (StopReturns(0, "ENOENT") \/ StopReturns(1, "ENOENT") \/ Goto("buildC")) /\ UNCHANGED <<command, fault>>
    BY <1>8 DEF PlanC, NoCommandStep
  <2>2. CASE U.pidfile # "none"
    <3>1. Goto("buildC") /\ Top.svc = Target
      BY <1>8, <2>1, <2>2, OfTarget DEF PlanC
    <3>2. Pc = "planC" /\ Pc' = "buildC"
      BY <2>1, <3>1, Jump
    <3> QED BY <2>1, <2>2, <3>1, <3>2 DEF Flow, U
  <2>3. CASE U.pidfile = "none"
    <3>1. StopReturns(0, "ENOENT") \/ StopReturns(1, "ENOENT")
      BY <1>8, <2>3 DEF PlanC
    <3> QED BY <2>1, <3>1, StopFlow
  <2> QED BY <2>2, <2>3
<1>9. CASE PlanCRan
  <2>1. At("ranC") /\ RunReturned /\ Goto("kill") /\ UNCHANGED <<command, fault>>
    BY <1>9 DEF PlanCRan, NoCommandStep
  <2>2. Pc = "ranC" /\ Pc' = "kill"
    BY <2>1, Jump
  <2> QED BY <2>1, <2>2 DEF Flow
<1>10. ASSUME NEW e \in Errnos, PlanCKill(e) PROVE Flow /\ UNCHANGED <<command, fault>>
  <2>1. At("kill") /\ Goto("rmpid") /\ UNCHANGED <<command, fault>>
    BY <1>10 DEF PlanCKill, NoCommandStep
  <2> QED BY <2>1, JumpFlow
<1>11. ASSUME NEW e \in Errnos, command_rmpid(e) PROVE Flow /\ UNCHANGED <<command, fault>>
  <2>1. At("rmpid") /\ (StopReturns(0, e) \/ StopReturns(1, e)) /\ UNCHANGED <<command, fault>>
    BY <1>11 DEF command_rmpid, NoCommandStep
  <2> QED BY <2>1, StopFlow
<1>12. ASSUME NEW e \in Errnos, StatusProbe(e) PROVE Flow /\ UNCHANGED <<command, fault>>
  <2>1. At("probe") /\ (Return(0) \/ Return(1) \/ Return(3) \/ Return(4)) /\ UNCHANGED <<command, fault>>
    BY <1>12 DEF StatusProbe, NoCommandStep
  <2> QED BY <2>1, LeaveFlow
<1>13. CASE ReloadRan
  <2>1. At("ranR") /\ RunReturned /\ (Return(0) \/ Return(1)) /\ UNCHANGED <<command, fault>>
    BY <1>13 DEF ReloadRan, NoCommandStep
  <2> QED BY <2>1, ReloadFlow
<1> QED BY <1>1, <1>2, <1>3, <1>5, <1>6, <1>7, <1>8, <1>9, <1>10, <1>11, <1>12, <1>13, AsksFlow DEF Between

-----------------------------------------------------------------------------
(* What is forked *)

\* Places at which there is a command to be run; the last three after its PID file was needed.
HasCommand == {"run", "ran", "runC", "ranC", "runR", "ranR", "askR"}
WithFile == {"runC", "ranC", "kill"}

\* What command_from_service() makes sure of.
Runnable(c) == c.rootdir \in {"none", "/", "dir"} /\ c.workdir \in {"none", "dir"} /\ c.where \in {"there", "missing"}

\* fork_function(), as opposed to daemonize_function(), has no intermediate process.
ExecShape == daemonize = FALSE /\ inter = "none" /\ (parent \notin {"fork", "done"} => child # "none")

\* The command is being forked, or what was forked has not ended.
Busy == parent # "done" \/ child \in {"born", "running"}
\* command_run() has a process to wait for.
Engaged == func = "exec" /\ Busy

\* Invariant: a command that runs is waited for, was found fit to run, and is still
\* the struct command of sysvrun; a monitor is being forked or has been.
RunInv ==
    /\ func \in {"none", "exec", "monitor"} /\ fault \in BOOLEAN
    /\ func = "none" => parent = "done" /\ child = "none" /\ inter = "none"
    /\ func # "none" => FR!ReportInv
    /\ func = "exec" => ExecShape /\ (parent = "done" /\ child = "none" => fault)
    /\ Engaged => Pc \in Ran
    /\ Pc \in HasCommand => Runnable(cmd)
    /\ Pc = "fork" => func = "monitor"
    /\ Pc \in Ran => func = "exec"
    /\ Pc \in {"buildC", "startC"} => unit[Target].pidfile # "none"
    /\ Pc \in WithFile => cmd.pidfile = "path" /\ unit[Target].pidfile = "path"
    /\ verb = "reload" /\ Pc \notin {"none", "ranR"} => func = "none"

\* A step of fork.c.
ForkStep == FR!ParentStep \/ FR!InterStep \/ FR!ChildStep

\* Nothing moves before the first fork.
LEMMA NotForked == ASSUME parent = "done", child = "none", inter = "none" PROVE ~ForkStep
  BY DEF ForkStep, FR!ParentStep, FR!InterStep, FR!ChildStep, FR!ChildReports, FR!Fork, FR!ForkFails, FR!Reap,
         FR!ReadFirst, FR!ReadSecond, FR!Collect, FR!InterForks, FR!InterExits, FR!WritePid, FR!WritePidFails,
         FR!report_ready, FR!Succeed, FR!Fail, FR!ChildExits, FR!Killed

\* The processes of fork_function() only come to an end.
LEMMA ExecForkStep ==
    ASSUME FR!ReportInv, ExecShape, ForkStep
    PROVE  /\ ExecShape' /\ (Busy' => Busy)
           /\ parent' = "done" /\ child' = "none" => parent = "fork"
<1> USE DEF ExecShape, Busy
<1>1. CASE FR!Fork
  BY <1>1 DEF FR!Fork
<1>2. CASE FR!ForkFails
  BY <1>2 DEF FR!ForkFails, FR!Return
<1>3. CASE FR!Reap
  BY <1>3 DEF FR!Reap
<1>4. CASE FR!ReadFirst
  BY <1>4 DEF FR!ReadFirst, FR!Return
<1>5. CASE FR!ReadSecond
  BY <1>5 DEF FR!ReadSecond, FR!Return
<1>6. CASE FR!Collect
  BY <1>6 DEF FR!Collect
<1>7. CASE FR!InterStep
  BY <1>7 DEF FR!InterStep, FR!InterForks, FR!InterExits
<1>8. CASE FR!ChildStep
  <2>1. child \in {"born", "running", "returned"} /\ child' # "none" /\ UNCHANGED <<daemonize, inter, parent>>
        /\ (child' \in {"born", "running"} => child \in {"born", "running"})
    BY <1>8 DEF FR!ChildStep, FR!ChildReports, FR!WritePid, FR!WritePidFails,
         FR!report_ready, FR!Succeed, FR!Fail, FR!ChildExits, FR!Killed, FR!Die
  <2> QED BY <2>1
<1> QED BY <1>1, <1>2, <1>3, <1>4, <1>5, <1>6, <1>7, <1>8 DEF ForkStep, FR!ParentStep

\* A step that leaves the report pipe alone.
LEMMA ReportSame == ASSUME FR!ReportInv, UNCHANGED report PROVE FR!ReportInv'
  BY SMT DEF FR!ReportInv, FR!Unread, report

\* Steps of the processes that are forked.
LEMMA ForkStepRun ==
    ASSUME RunInv, ForkStep, UNCHANGED <<cmd, func, client>>,
           fault' \in BOOLEAN, fault => fault', parent = "fork" /\ parent' = "done" => fault'
    PROVE  RunInv'
<1>0. Pc' = Pc /\ verb' = verb /\ unit' = unit /\ cmd' = cmd /\ func' = func
  BY DEF client, Pc, Top, verb, unit
<1>1. func # "none"
  BY NotForked DEF RunInv
<1>2. FR!ReportInv /\ FR!ReportInv'
  BY <1>1, ParentKeepsInv, OthersKeepInv DEF RunInv, ForkStep
<1>3. func = "exec" => ExecShape' /\ (Busy' => Busy) /\ (parent' = "done" /\ child' = "none" => parent = "fork")
  BY <1>2, ExecForkStep DEF RunInv
<1>4. Engaged' => Engaged
  BY <1>0, <1>3 DEF Engaged
<1> QED BY <1>0, <1>1, <1>2, <1>3, <1>4 DEF RunInv

\* A step that leaves sysvrun and what it forked alone.
LEMMA SameRun ==
    ASSUME RunInv, UNCHANGED <<cmd, func, report, fault, client>>
    PROVE  RunInv'
<1>0. Pc' = Pc /\ verb' = verb /\ unit' = unit /\ cmd' = cmd /\ func' = func /\ fault' = fault
  BY DEF client, Pc, Top, verb, unit
<1>1. FR!ReportInv => FR!ReportInv'
  BY ReportSame
<1>2. UNCHANGED <<daemonize, inter, parent, child>>
  BY DEF report
<1>3. (Engaged' => Engaged) /\ (ExecShape => ExecShape')
  BY <1>0, <1>2 DEF Engaged, Busy, ExecShape
<1>4. Engaged' => Pc' \in Ran
  <2>1. Engaged => Pc \in Ran
    BY DEF RunInv
  <2> QED BY <1>0, <1>3, <2>1
<1>5. func' = "exec" => ExecShape' /\ (parent' = "done" /\ child' = "none" => fault')
  <2>1. func = "exec" => ExecShape /\ (parent = "done" /\ child = "none" => fault)
    BY DEF RunInv
  <2> QED BY <1>0, <1>2, <1>3, <2>1, SMT
<1> QED BY <1>0, <1>1, <1>2, <1>4, <1>5 DEF RunInv

\* Once command_run() returns, nothing of what it forked is left.
LEMMA ReturnedIdle == ASSUME RunInv, RunReturned PROVE ~Engaged
<1>1. SUFFICES ASSUME Engaged PROVE FALSE
  OBVIOUS
<1>2. FR!ReportInv /\ parent = "done" /\ child \in {"born", "running"} /\ result < 0
  BY <1>1 DEF RunInv, Engaged, Busy, RunReturned
<1>3. result = FR!ChildPid
  BY <1>2 DEF FR!ReportInv, FR!Unread
<1> QED BY <1>2, <1>3, SMT DEF FR!ChildPid

\* Steps of sysvrun between commands.
LEMMA BetweenRun ==
    ASSUME StackInv, RunInv, UNCHANGED case, Between
    PROVE  RunInv'
<1>1. Flow /\ UNCHANGED <<command, fault>>
  BY BetweenFlow
<1>2. ~Engaged
  BY <1>1, ReturnedIdle DEF Flow, RunInv
<1>3. verb' = verb /\ unit' = unit /\ cmd' = cmd /\ func' = func /\ fault' = fault
      /\ UNCHANGED <<report, daemonize, inter, parent, child>>
  BY <1>1 DEF verb, unit, command, report
<1>4. FR!ReportInv => FR!ReportInv'
  BY <1>3, ReportSame
<1>5. ~Engaged' /\ (ExecShape' <=> ExecShape)
  BY <1>2, <1>3 DEF Engaged, Busy, ExecShape
<1>6. /\ Pc' \in {"buildC", "startC"} => unit[Target].pidfile # "none"
      /\ Pc' \in HasCommand => Pc \in HasCommand
      /\ Pc' \in WithFile => Pc \in WithFile
      /\ Pc' # "fork" /\ Pc' \notin Ran /\ (verb = "reload" /\ Pc' \notin {"none", "ranR"} => Pc \notin {"none", "ranR"})
  <2>1. CASE Pc' \in Plain /\ (verb = "reload" => Pc' = "none")
    BY <2>1 DEF Plain, HasCommand, WithFile, Ran
  <2>2. CASE ~(Pc' \in Plain /\ (verb = "reload" => Pc' = "none"))
    BY <1>1, <2>2 DEF Flow, HasCommand, WithFile, Ran
  <2> QED BY <2>1, <2>2
<1> QED BY <1>3, <1>4, <1>5, <1>6 DEF RunInv

\* A return from service_reload() or service_status() is to main().
LEMMA LeaveMain ==
    ASSUME StackInv, UNCHANGED case, NEW p \in ReloadPcs \cup StatusPcs, At(p), NEW res, Return(res)
    PROVE  StackInv' /\ Pc = p /\ stack' = <<>> /\ Pc' = "none" /\ exit' = res
<1>1. p \in Pcs /\ ~(Len(stack) > 1)
  BY OfTarget DEF Pcs
<1> QED BY <1>1, Leave

\* Before the fork the pipe is as it should be.
LEMMA ReportStarts == ASSUME FR!Init' PROVE FR!ReportInv'
  BY DEF FR!Init, FR!ReportInv, FR!Unread, FR!ParentPCs, FR!ChildPCs

\* fork_function() and daemonize_function() start afresh.
LEMMA Called ==
    ASSUME NEW f \in {"exec", "monitor"}, Call(f)
    PROVE  /\ func' = f /\ cmd' = cmd /\ parent' = "fork" /\ FR!ReportInv' /\ (f = "exec" => ExecShape')
<1>1. /\ func' = f /\ cmd' = cmd /\ parent' = "fork" /\ result' = 0
      /\ inter' = "none" /\ child' = "none" /\ code' = 0 /\ ready' = FALSE /\ pipe' = <<>> /\ writers' = {}
  BY DEF Call
<1>2. daemonize' = (f = "monitor")
  BY DEF Call
<1>3. daemonize' \in BOOLEAN
  BY <1>2
<1>4. f = "exec" => daemonize' = FALSE
  BY <1>2
<1>5. FR!ReportInv'
  <2>1. FR!Init'
    BY <1>1, <1>3 DEF FR!Init
  <2> QED BY <2>1, ReportStarts
<1> QED BY <1>1, <1>4, <1>5 DEF ExecShape

\* command_run() is called.
LEMMA RunRun ==
    ASSUME StackInv, RunInv, UNCHANGED case, Run
    PROVE  RunInv'
<1>1. Call("exec") /\ fault' = fault /\ verb' = verb /\ unit' = unit
  BY DEF Run, verb, unit
<1>2. func' = "exec" /\ cmd' = cmd /\ parent' = "fork" /\ FR!ReportInv' /\ ExecShape'
  BY <1>1, Called
<1>3. \/ Pc = "run" /\ Pc' = "ran" /\ verb # "reload"
      \/ Pc = "runC" /\ Pc' = "ranC" /\ verb # "reload"
      \/ Pc = "runR" /\ Pc' = "ranR"
  <2> USE DEF Pcs, Kin, StopPcs, ReloadPcs
  <2>1. CASE At("run") /\ Goto("ran")
    BY <2>1, Jump, VerbAt
  <2>2. CASE At("runC") /\ Goto("ranC")
    BY <2>2, Jump, VerbAt
  <2>3. CASE At("runR") /\ Goto("ranR")
    BY <2>3, Jump
  <2> QED BY <2>1, <2>2, <2>3, RunPlaces
<1>4. /\ Pc' \in Ran /\ Pc \in HasCommand /\ Pc' # "fork" /\ Pc' \notin {"buildC", "startC"}
      /\ Pc' \in WithFile => Pc \in WithFile
      /\ verb = "reload" => Pc' = "ranR"
  BY <1>3 DEF Ran, HasCommand, WithFile
<1> QED BY <1>1, <1>2, <1>4 DEF RunInv

\* command_monitor() is called.
LEMMA ForkRun ==
    ASSUME StackInv, RunInv, UNCHANGED case, Prerequisites, ~Top.bad
    PROVE  RunInv' /\ Pc = "required" /\ Pc' = "fork" /\ Top'.svc = Top.svc
<1>1. At("required") /\ Goto("fork") /\ Call("monitor") /\ fault' = fault /\ verb' = verb /\ unit' = unit
  BY DEF Prerequisites, verb, unit
<1>2. func' = "monitor" /\ FR!ReportInv'
  BY <1>1, Called
<1>3. Pc = "required" /\ Pc' = "fork" /\ verb # "reload" /\ Top'.svc = Top.svc
  BY <1>1, Jump, VerbAt DEF Pcs, Kin, StartPcs
<1>4. ~Engaged' /\ Pc' \notin Ran /\ Pc' \notin HasCommand /\ Pc' \notin WithFile /\ Pc' \notin {"buildC", "startC"}
  BY <1>2, <1>3 DEF HasCommand, WithFile, Engaged, Ran
<1> QED BY <1>1, <1>2, <1>3, <1>4 DEF RunInv

\* What a command takes from the unit and from the line.
LEMMA BuiltFields ==
    ASSUME NEW u, NEW l
    PROVE  /\ Built(u, l).rootdir = u.rootdir /\ Built(u, l).workdir = u.workdir
           /\ Built(u, l).where = l.where /\ Built(u, l).pidfile = u.pidfile
  BY SMT DEF Built

\* command_from_service() makes a command that is fit to run.
LEMMA BuildRunnable ==
    ASSUME StackInv, stack # <<>>, NEW l \in {U.start, U.stop, U.reload}, NEW e, Build(l, e)
    PROVE  /\ func' = func /\ UNCHANGED report /\ (RunInv => fault' \in BOOLEAN /\ (fault => fault'))
           /\ e = "" => /\ Runnable(cmd') /\ cmd' = Built(U, l) /\ cmd'.pidfile = U.pidfile
                        /\ U.pidfile \in {"none", "path"} /\ Buildable(U, l) /\ fault' = fault
           /\ e = "" => cmd'.where \in {"there", "missing"}
<1>1. func' = func /\ UNCHANGED report /\ command_from_service(U, l, e)
  BY DEF Build
<1>2. U.pidfile \in {"none", "path", "bad"} /\ l.where \in {"there", "missing", "nowhere"}
  <2>1. Top \in Frames
    BY SMT DEF StackInv, Top
  <2>2. Top.svc \in Services
    BY <2>1, SMT DEF Frames
  <2> QED BY <2>2, ServiceAssumption DEF StackInv, U, unit
<1>3. RunInv => fault' \in BOOLEAN /\ (fault => fault')
  <2>1. SUFFICES ASSUME fault \in BOOLEAN PROVE fault' \in BOOLEAN /\ (fault => fault')
    BY DEF RunInv
  <2>2. fault' = fault \/ fault' = (fault \/ Buildable(U, l))
    BY <1>1 DEF command_from_service
  <2> QED BY <2>1, <2>2
<1>4. ASSUME e = ""
      PROVE  cmd' = Built(U, l) /\ Buildable(U, l) /\ fault' = fault
  BY <1>1, <1>4 DEF command_from_service
<1>5. ASSUME e = ""
      PROVE  Runnable(cmd') /\ cmd'.pidfile = U.pidfile /\ U.pidfile \in {"none", "path"}
  <2>1. /\ U.rootdir \in {"none", "/", "dir"} /\ U.workdir \in {"none", "dir"} /\ l.where # "nowhere" /\ U.pidfile # "bad"
    BY <1>4, <1>5 DEF Buildable, Resolvable
  <2>2. /\ cmd'.rootdir = U.rootdir /\ cmd'.workdir = U.workdir /\ cmd'.where = l.where /\ cmd'.pidfile = U.pidfile
    <3>1. cmd' = Built(U, l)
      BY <1>4, <1>5
    <3> QED BY <3>1, BuiltFields
  <2> QED BY <1>2, <2>1, <2>2 DEF Runnable
<1> QED BY <1>1, <1>3, <1>4, <1>5 DEF Runnable

\* Where command_from_service() leads.
BuildFlow(e) ==
    /\ Pc \in {"build", "planA", "buildC", "startC", "reload", "buildS"} /\ (Pc \notin StopPcs => Pc' \notin StopPcs)
    /\ \/ Pc' \in Plain /\ (verb = "reload" => Pc' = "none")
       \/ Pc = "planA" /\ Pc' = "run" /\ e = ""
       \/ Pc = "buildC" /\ Pc' = "runC" /\ e = ""
       \/ Pc = "buildC" /\ Pc' = "startC"
       \/ Pc = "startC" /\ Pc' = "kill" /\ e = ""
       \/ Pc = "reload" /\ Pc' = "askR" /\ e = ""

\* All of the steps that make a command.
LEMMA BuildsFlow ==
    ASSUME StackInv, UNCHANGED case, NEW e \in {"", "ENOENT", "EINVAL"}, Builds(e)
    PROVE  BuildFlow(e) /\ stack # <<>> /\ \E l \in {U.start, U.stop, U.reload} : Build(l, e)
<1> USE DEF Pcs, Kin, StartPcs, StopPcs, ReloadPcs, StatusPcs
<1>1. CASE StartBuild(e)
  <2>1. At("build") /\ (Return(1) \/ Goto("required")) /\ Build(U.start, e)
    BY <1>1 DEF StartBuild
  <2>2. Pc = "build" /\ verb # "reload" /\ stack # <<>>
    BY <2>1, VerbAt DEF At
  <2>3. Pc' \in {"none", "required"}
    BY <2>1, Leave, Jump
  <2> QED BY <2>1, <2>2, <2>3 DEF BuildFlow, Plain
<1>2. CASE PlanA(e)
  <2>1. At("planA") /\ (StopReturns(1, e) \/ Goto("planB") \/ (Goto("run") /\ e = "")) /\ Build(U.stop, e)
    BY <1>2 DEF PlanA
  <2>2. Pc = "planA" /\ verb # "reload" /\ stack # <<>>
    BY <2>1, VerbAt DEF At
  <2>3. Goto("planB") => Pc' = "planB"
    BY <2>1, Jump
  <2>4. Goto("run") => Pc' = "run"
    BY <2>1, Jump
  <2>5. StopReturns(1, e) => Pc' \in {"none", "start"}
    BY <2>1, StopLeave
  <2> QED BY <2>1, <2>2, <2>3, <2>4, <2>5 DEF BuildFlow, Plain
<1>3. CASE PlanCBuild(e)
  <2>1. At("buildC") /\ ((Goto("runC") /\ e = "") \/ Goto("startC")) /\ Build(U.stop, e)
    BY <1>3 DEF PlanCBuild
  <2>2. Pc = "buildC" /\ stack # <<>>
    BY <2>1, AtPc DEF At
  <2>3. Pc' = "startC" \/ (Pc' = "runC" /\ e = "")
    BY <2>1, Jump
  <2> QED BY <2>1, <2>2, <2>3 DEF BuildFlow
<1>4. CASE PlanCStart(e)
  <2>1. At("startC") /\ (StopReturns(1, e) \/ (Goto("kill") /\ e = "")) /\ Build(U.start, e)
    BY <1>4 DEF PlanCStart
  <2>2. Pc = "startC" /\ verb # "reload" /\ stack # <<>>
    BY <2>1, VerbAt DEF At
  <2>3. Goto("kill") => Pc' = "kill"
    BY <2>1, Jump
  <2>4. StopReturns(1, e) => Pc' \in {"none", "start"}
    BY <2>1, StopLeave
  <2> QED BY <2>1, <2>2, <2>3, <2>4 DEF BuildFlow, Plain
<1>5. CASE service_reload(e)
  <2>1. At("reload") /\ (Return(3) \/ (Goto("askR") /\ e = "")) /\ Build(U.reload, e)
    BY <1>5 DEF service_reload
  <2>2. Pc = "reload" /\ stack # <<>>
    BY <2>1, AtPc DEF At
  <2>3. Goto("askR") => Pc' = "askR"
    BY <2>1, Jump
  <2>4. Return(3) => Pc' = "none"
    BY <2>1, LeaveMain
  <2> QED BY <2>1, <2>2, <2>3, <2>4 DEF BuildFlow, Plain
<1>6. CASE StatusBuild(e)
  <2>1. At("buildS") /\ (Return(4) \/ Goto("probe")) /\ Build(U.start, e)
    BY <1>6 DEF StatusBuild
  <2>2. Pc = "buildS" /\ verb # "reload" /\ stack # <<>>
    BY <2>1, VerbAt DEF At
  <2>3. Return(4) => Pc' \in {"none", "required"}
    BY <2>1, Leave
  <2>4. Goto("probe") => Pc' = "probe"
    BY <2>1, Jump
  <2> QED BY <2>1, <2>2, <2>3, <2>4 DEF BuildFlow, Plain
<1> QED BY <1>1, <1>2, <1>3, <1>4, <1>5, <1>6 DEF Builds

\* They keep the invariant.
LEMMA BuildsRun ==
    ASSUME StackInv, RunInv, UNCHANGED case, NEW e \in {"", "ENOENT", "EINVAL"}, Builds(e)
    PROVE  RunInv'
<1>1. BuildFlow(e) /\ stack # <<>>
  BY BuildsFlow
<1>2. PICK l \in {U.start, U.stop, U.reload} : Build(l, e)
  BY BuildsFlow
<1>3. /\ func' = func /\ UNCHANGED report /\ fault' \in BOOLEAN /\ (fault => fault')
      /\ e = "" => Runnable(cmd') /\ cmd'.pidfile = U.pidfile /\ U.pidfile \in {"none", "path"}
  BY <1>1, <1>2, BuildRunnable
<1>4. ~Engaged
  BY <1>1 DEF BuildFlow, RunInv, Ran
<1>5. verb' = verb /\ unit' = unit /\ UNCHANGED <<daemonize, inter, parent, child>>
  BY <1>3 DEF verb, unit, report
<1>6. FR!ReportInv => FR!ReportInv'
  BY <1>3, ReportSame
<1>7. ~Engaged' /\ (ExecShape => ExecShape')
  BY <1>3, <1>4, <1>5 DEF Engaged, Busy, ExecShape
<1>8. Pc \in {"buildC", "startC"} => Top.svc = Target
  <2>1. SUFFICES ASSUME Pc \in {"buildC", "startC"} PROVE Top.svc = Target
    OBVIOUS
  <2>2. At(Pc) /\ Pc \in StopPcs
    BY <1>1, <2>1 DEF At, Pc, StopPcs
  <2> QED BY <2>2, OfTarget
<1>9. /\ Pc' \in HasCommand => e = ""
      /\ Pc' \in WithFile => e = "" /\ Pc \in {"buildC", "startC"}
      /\ Pc' \in {"buildC", "startC"} => Pc = "buildC"
      /\ Pc' # "fork" /\ Pc' \notin Ran /\ (verb = "reload" /\ Pc' \notin {"none", "ranR"} => Pc \notin {"none", "ranR"})
  <2>1. CASE Pc' \in Plain /\ (verb = "reload" => Pc' = "none")
    BY <2>1 DEF Plain, HasCommand, WithFile, Ran
  <2>2. CASE ~(Pc' \in Plain /\ (verb = "reload" => Pc' = "none"))
    BY <1>1, <2>2 DEF BuildFlow, HasCommand, WithFile, Ran
  <2> QED BY <2>1, <2>2
<1>10. Pc' \in WithFile => cmd'.pidfile = "path" /\ unit[Target].pidfile = "path"
  BY <1>3, <1>8, <1>9 DEF RunInv, U
<1>11. func' = "exec" => ExecShape' /\ (parent' = "done" /\ child' = "none" => fault')
  <2>1. SUFFICES ASSUME func' = "exec" PROVE ExecShape' /\ (parent' = "done" /\ child' = "none" => fault')
    OBVIOUS
  <2>2. ExecShape /\ (parent = "done" /\ child = "none" => fault)
    BY <1>3, <2>1 DEF RunInv
  <2> QED BY <1>3, <1>5, <1>7, <2>2
<1>12. /\ func' \in {"none", "exec", "monitor"} /\ (func' # "none" => FR!ReportInv')
       /\ func' = "none" => parent' = "done" /\ child' = "none" /\ inter' = "none"
  BY <1>3, <1>5, <1>6 DEF RunInv
<1> QED BY <1>3, <1>5, <1>7, <1>9, <1>10, <1>11, <1>12 DEF RunInv

-----------------------------------------------------------------------------
(* command_exec_func() *)

\* The system calls of command_exec_func().
Calls == {"chroot", "chdir", "setregid", "setgroups", "setreuid", "umask", "execve"}

\* What is left of its system calls.
Suffix(q) == q \in Seq(Calls) /\ Len(q) \in 0 .. 7 /\ \A i \in 1 .. Len(q) : q[i] = ExecSteps[i + 7 - Len(q)]

\* A superuser's process p, of the command c, before the last n of them.
Stage(n, p, c) ==
    /\ p.root = IF n > 6 \/ c.rootdir = "none" THEN "/" ELSE c.rootdir
    /\ p.cwd = IF n > 5 \/ c.workdir = "none" THEN "/" ELSE "dir"
    /\ p.gid = IF n > 4 \/ "+" \in c.flags THEN 0 ELSE c.gid
    /\ p.groups = {IF n > 3 \/ "+" \in c.flags THEN 0 ELSE c.gid}
    /\ p.uid = IF n > 2 \/ "+" \in c.flags THEN 0 ELSE c.uid
    /\ n < 2 => p.umask = c.umask

\* Invariant: command_exec_func() has made its calls in their order up to some point,
\* and the process is as they leave it.
ExecInv ==
    /\ func = "exec" => Suffix(todo) /\ (ready <=> Len(todo) = 0) /\ (proc.prog <=> Len(todo) = 0)
    /\ func # "exec" => ~proc.prog
    /\ Engaged /\ self = 0 => Stage(Len(todo), proc, cmd)

\* One call fewer.
LEMMA NextCall ==
    ASSUME NEW q, Suffix(q), Len(q) # 0
    PROVE  Suffix(Tail(q)) /\ Len(q) \in 1 .. 7 /\ Len(Tail(q)) = Len(q) - 1 /\ Head(q) = ExecSteps[8 - Len(q)]
<1> DEFINE n == Len(q)
           t == Tail(q)
<1>1. q \in Seq(Calls) /\ n \in 1 .. 7 /\ q # <<>>
  BY SMT DEF Suffix
<1>2. t \in Seq(Calls) /\ Len(t) = n - 1 /\ \A i \in 1 .. n - 1 : t[i] = q[i + 1]
  BY <1>1, SMT
<1>3. Head(q) = q[1]
  BY <1>1, SMT
<1>4. \A i \in 1 .. n : q[i] = ExecSteps[i + 7 - n]
  BY DEF Suffix
<1> HIDE DEF n, t
<1>5. Head(q) = ExecSteps[8 - n]
  <2>1. 1 \in 1 .. n /\ 1 + 7 - n = 8 - n
    BY <1>1, SMT
  <2> QED BY <1>3, <1>4, <2>1
<1>6. ASSUME NEW i \in 1 .. Len(t) PROVE t[i] = ExecSteps[i + 7 - Len(t)]
  <2>1. i \in 1 .. n - 1 /\ i + 1 \in 1 .. n /\ (i + 1) + 7 - n = i + 7 - Len(t)
    BY <1>1, <1>2, <1>6, SMT
  <2> QED BY <1>2, <1>4, <2>1
<1>7. Len(t) \in 0 .. 7
  BY <1>1, <1>2, SMT
<1> QED BY <1>1, <1>2, <1>5, <1>6, <1>7 DEF Suffix, n, t

\* A call is known from the number of those that are left.
LEMMA CallAt ==
    ASSUME NEW n \in 1 .. 7
    PROVE  \/ n = 7 /\ ExecSteps[8 - n] = "chroot"
           \/ n = 6 /\ ExecSteps[8 - n] = "chdir"
           \/ n = 5 /\ ExecSteps[8 - n] = "setregid"
           \/ n = 4 /\ ExecSteps[8 - n] = "setgroups"
           \/ n = 3 /\ ExecSteps[8 - n] = "setreuid"
           \/ n = 2 /\ ExecSteps[8 - n] = "umask"
           \/ n = 1 /\ ExecSteps[8 - n] = "execve"
<1>1. /\ ExecSteps[1] = "chroot" /\ ExecSteps[2] = "chdir" /\ ExecSteps[3] = "setregid"
      /\ ExecSteps[4] = "setgroups" /\ ExecSteps[5] = "setreuid" /\ ExecSteps[6] = "umask" /\ ExecSteps[7] = "execve"
  BY SMT DEF ExecSteps
<1>2. \E k \in 1 .. 7 : n = 8 - k /\ 8 - n = k
  BY SMT
<1>3. 1 .. 7 = {1, 2, 3, 4, 5, 6, 7}
  BY SMT
<1>4. 8 - 1 = 7 /\ 8 - 2 = 6 /\ 8 - 3 = 5 /\ 8 - 4 = 4 /\ 8 - 5 = 3 /\ 8 - 6 = 2 /\ 8 - 7 = 1
  BY SMT
<1> QED BY <1>1, <1>2, <1>3, <1>4

\* The call that command_exec_func() is about to make.
LEMMA NowAt ==
    ASSUME RunInv, ExecInv, Executing
    PROVE  /\ Suffix(Tail(todo)) /\ Len(Tail(todo)) = Len(todo) - 1 /\ Engaged /\ Runnable(cmd)
           /\ \/ Len(todo) = 7 /\ Head(todo) = "chroot"
              \/ Len(todo) = 6 /\ Head(todo) = "chdir"
              \/ Len(todo) = 5 /\ Head(todo) = "setregid"
              \/ Len(todo) = 4 /\ Head(todo) = "setgroups"
              \/ Len(todo) = 3 /\ Head(todo) = "setreuid"
              \/ Len(todo) = 2 /\ Head(todo) = "umask"
              \/ Len(todo) = 1 /\ Head(todo) = "execve"
<1>1. func = "exec" /\ Suffix(todo) /\ Len(todo) # 0 /\ Engaged
  BY DEF Executing, ExecInv, Engaged, Busy
<1>2. Len(todo) \in 1 .. 7 /\ Head(todo) = ExecSteps[8 - Len(todo)]
  BY <1>1, NextCall
<1>3. Suffix(Tail(todo)) /\ Len(Tail(todo)) = Len(todo) - 1
  BY <1>1, NextCall
<1>4. Runnable(cmd)
  BY <1>1 DEF RunInv, Ran, HasCommand
<1> HIDE DEF Engaged
<1> QED BY <1>1, <1>2, <1>3, <1>4, CallAt

\* What a call changes.
LEMMA AfterFields ==
    ASSUME NEW t
    PROVE  /\ After(t).root = IF t = "chroot" THEN cmd.rootdir ELSE proc.root
           /\ After(t).cwd = IF t = "chroot" THEN "/" ELSE IF t = "chdir" THEN Workdir ELSE proc.cwd
           /\ After(t).uid = IF t = "setreuid" THEN cmd.uid ELSE proc.uid
           /\ After(t).gid = IF t = "setregid" THEN cmd.gid ELSE proc.gid
           /\ After(t).groups = IF t = "setgroups" THEN {cmd.gid} ELSE proc.groups
           /\ After(t).umask = IF t = "umask" THEN cmd.umask ELSE proc.umask
           /\ After(t).prog <=> t = "execve" \/ proc.prog
  BY DEF After

\* It succeeds.
LEMMA ExecStepExec == ASSUME RunInv, ExecInv, ExecStep PROVE ExecInv'
<1>1. Executing /\ func = "exec" /\ func' = func /\ cmd' = cmd /\ self' = self /\ todo' = Tail(todo) /\ ~ready
  BY DEF ExecStep, Executing
<1>2. /\ Suffix(todo') /\ Len(todo') = Len(todo) - 1 /\ Engaged /\ Runnable(cmd)
      /\ \/ Len(todo) = 7 /\ Head(todo) = "chroot"
         \/ Len(todo) = 6 /\ Head(todo) = "chdir"
         \/ Len(todo) = 5 /\ Head(todo) = "setregid"
         \/ Len(todo) = 4 /\ Head(todo) = "setgroups"
         \/ Len(todo) = 3 /\ Head(todo) = "setreuid"
         \/ Len(todo) = 2 /\ Head(todo) = "umask"
         \/ Len(todo) = 1 /\ Head(todo) = "execve"
  BY <1>1, NowAt
<1>3. ~proc.prog /\ (self = 0 => Stage(Len(todo), proc, cmd))
  BY <1>1, <1>2 DEF ExecInv, Executing
<1>4. IF Needed(Head(todo)) THEN proc' = After(Head(todo)) ELSE proc' = proc
  BY DEF ExecStep
<1>5. Head(todo) # "execve" => ready' = ready
  BY DEF ExecStep, report
<1>6. Head(todo) = "execve" => ready' = TRUE
  BY DEF ExecStep, FR!report_ready
<1> SUFFICES /\ ready' <=> Len(todo') = 0
             /\ proc'.prog <=> Len(todo') = 0
             /\ self = 0 => Stage(Len(todo'), proc', cmd)
  BY <1>1, <1>2 DEF ExecInv
<1>7. CASE Len(todo) = 7 /\ Head(todo) = "chroot"
  <2>1. Len(todo') = 6 /\ 6 # 0
    BY <1>2, <1>7, SMT
  <2>2. ready' = ready
    BY <1>5, <1>6, <1>7
  <2>3. IF cmd.rootdir # "none" THEN proc' = After("chroot") ELSE proc' = proc
    BY <1>4, <1>7 DEF Needed
  <2>4. proc'.prog <=> proc.prog
    BY <1>3, <2>3, AfterFields
  <2>5. self = 0 => Stage(6, proc', cmd)
    BY <1>2, <1>3, <1>7, <2>3, AfterFields, SMTT(30) DEF Stage, Runnable, Workdir
  <2> QED BY <1>1, <1>3, <2>1, <2>2, <2>4, <2>5
<1>8. CASE Len(todo) = 6 /\ Head(todo) = "chdir"
  <2>1. Len(todo') = 5 /\ 5 # 0
    BY <1>2, <1>8, SMT
  <2>2. ready' = ready
    BY <1>5, <1>6, <1>8
  <2>3. proc' = After("chdir")
    BY <1>4, <1>8 DEF Needed
  <2>4. proc'.prog <=> proc.prog
    BY <1>3, <2>3, AfterFields
  <2>5. self = 0 => Stage(5, proc', cmd)
    BY <1>2, <1>3, <1>8, <2>3, AfterFields, SMTT(30) DEF Stage, Runnable, Workdir
  <2> QED BY <1>1, <1>3, <2>1, <2>2, <2>4, <2>5
<1>9. CASE Len(todo) = 5 /\ Head(todo) = "setregid"
  <2>1. Len(todo') = 4 /\ 4 # 0
    BY <1>2, <1>9, SMT
  <2>2. ready' = ready
    BY <1>5, <1>6, <1>9
  <2>3. IF cmd.gid # 0 /\ "+" \notin cmd.flags THEN proc' = After("setregid") ELSE proc' = proc
    BY <1>4, <1>9 DEF Needed
  <2>4. proc'.prog <=> proc.prog
    BY <1>3, <2>3, AfterFields
  <2>5. self = 0 => Stage(4, proc', cmd)
    BY <1>2, <1>3, <1>9, <2>3, AfterFields, SMTT(30) DEF Stage, Runnable, Workdir
  <2> QED BY <1>1, <1>3, <2>1, <2>2, <2>4, <2>5
<1>10. CASE Len(todo) = 4 /\ Head(todo) = "setgroups"
  <2>1. Len(todo') = 3 /\ 3 # 0
    BY <1>2, <1>10, SMT
  <2>2. ready' = ready
    BY <1>5, <1>6, <1>10
  <2>3. IF cmd.gid # 0 /\ "+" \notin cmd.flags THEN proc' = After("setgroups") ELSE proc' = proc
    BY <1>4, <1>10 DEF Needed
  <2>4. proc'.prog <=> proc.prog
    BY <1>3, <2>3, AfterFields
  <2>5. self = 0 => Stage(3, proc', cmd)
    BY <1>2, <1>3, <1>10, <2>3, AfterFields, SMTT(30) DEF Stage, Runnable, Workdir
  <2> QED BY <1>1, <1>3, <2>1, <2>2, <2>4, <2>5
<1>11. CASE Len(todo) = 3 /\ Head(todo) = "setreuid"
  <2>1. Len(todo') = 2 /\ 2 # 0
    BY <1>2, <1>11, SMT
  <2>2. ready' = ready
    BY <1>5, <1>6, <1>11
  <2>3. IF cmd.uid # 0 /\ "+" \notin cmd.flags THEN proc' = After("setreuid") ELSE proc' = proc
    BY <1>4, <1>11 DEF Needed
  <2>4. proc'.prog <=> proc.prog
    BY <1>3, <2>3, AfterFields
  <2>5. self = 0 => Stage(2, proc', cmd)
    BY <1>2, <1>3, <1>11, <2>3, AfterFields, SMTT(30) DEF Stage, Runnable, Workdir
  <2> QED BY <1>1, <1>3, <2>1, <2>2, <2>4, <2>5
<1>12. CASE Len(todo) = 2 /\ Head(todo) = "umask"
  <2>1. Len(todo') = 1 /\ 1 # 0
    BY <1>2, <1>12, SMT
  <2>2. ready' = ready
    BY <1>5, <1>6, <1>12
  <2>3. proc' = After("umask")
    BY <1>4, <1>12 DEF Needed
  <2>4. proc'.prog <=> proc.prog
    BY <1>3, <2>3, AfterFields
  <2>5. self = 0 => Stage(1, proc', cmd)
    BY <1>2, <1>3, <1>12, <2>3, AfterFields, SMTT(30) DEF Stage, Runnable, Workdir
  <2> QED BY <1>1, <1>3, <2>1, <2>2, <2>4, <2>5
<1>13. CASE Len(todo) = 1 /\ Head(todo) = "execve"
  <2>1. Len(todo') = 0 /\ 0 = 0
    BY <1>2, <1>13, SMT
  <2>2. ready' = TRUE
    BY <1>5, <1>6, <1>13
  <2>3. proc' = After("execve")
    BY <1>4, <1>13 DEF Needed
  <2>4. proc'.prog
    BY <1>3, <2>3, AfterFields
  <2>5. self = 0 => Stage(0, proc', cmd)
    BY <1>2, <1>3, <1>13, <2>3, AfterFields, SMTT(30) DEF Stage, Runnable, Workdir
  <2> QED BY <1>1, <1>3, <2>1, <2>2, <2>4, <2>5
<1> QED BY <1>2, <1>7, <1>8, <1>9, <1>10, <1>11, <1>12, <1>13

\* Its codes are among those that df_child() may report.
LEMMA CodeKnown == ASSUME RunInv, ExecInv, ExecFails PROVE ExitCode[Head(todo)] \in Codes
<1>1. Executing /\ Head(todo) # "umask"
  BY DEF ExecFails
<1>2. Head(todo) \in {"chroot", "chdir", "setregid", "setgroups", "setreuid", "execve"}
  BY <1>1, NowAt
<1>3. DOMAIN ExitCode = {"chroot", "chdir", "setregid", "setgroups", "setreuid", "execve"}
  BY SMT DEF ExitCode
<1> QED BY <1>2, <1>3, ServiceAssumption

\* A flag that is only ever set.
LEMMA Raised ==
    ASSUME NEW a \in BOOLEAN, NEW b, b = a \/ b = TRUE
    PROVE  b \in BOOLEAN /\ (a => b)
<1>1. CASE b = a
  BY <1>1
<1>2. CASE b = TRUE
  BY <1>2
<1> QED BY <1>1, <1>2

\* Steps of the processes that are forked, and of others.
LEMMA ForkedRun ==
    ASSUME RunInv, ExecInv, Report \/ Exec \/ MonitorChild \/ Program \/ Others
    PROVE  RunInv'
<1>0. fault \in BOOLEAN
  BY DEF RunInv
<1>1. CASE ReportStep /\ UNCHANGED client
  <2>1. ForkStep /\ UNCHANGED <<cmd, func, client>>
    BY <1>1 DEF ReportStep, ForkStep, FR!ChildStep
  <2>2. fault' = (fault \/ (parent = "fork" /\ parent' = "done")
                       \/ (inter = "alive" /\ inter' = "dead" /\ child = "none"))
    BY <1>1 DEF ReportStep
  <2>3. fault' \in BOOLEAN /\ (fault => fault') /\ (parent = "fork" /\ parent' = "done" => fault')
    BY <1>0, <2>2
  <2> QED BY <2>1, <2>3, ForkStepRun
<1>2. ASSUME FR!ChildStep, UNCHANGED <<cmd, func, client>>, fault' \in BOOLEAN, fault => fault' PROVE RunInv'
  <2>1. parent' = parent
    BY <1>2 DEF FR!ChildStep, FR!ChildReports, FR!WritePid, FR!WritePidFails,
       FR!report_ready, FR!Succeed, FR!Fail, FR!ChildExits, FR!Killed, FR!Die
  <2> QED BY <1>2, <2>1, ForkStepRun DEF ForkStep
<1>3. CASE ChildExits /\ UNCHANGED client
  <2>1. FR!ChildStep /\ UNCHANGED <<cmd, func, client>> /\ fault' = fault
    BY <1>3 DEF ChildExits, FR!ChildStep
  <2> QED BY <1>0, <1>2, <2>1
<1>4. CASE ExecStep /\ UNCHANGED client
  <2>1. (FR!ChildStep \/ UNCHANGED report) /\ UNCHANGED <<cmd, func, fault, client>> /\ fault' = fault
    BY <1>4 DEF ExecStep, FR!ChildStep, FR!ChildReports
  <2>2. CASE FR!ChildStep
    <3>1. UNCHANGED <<cmd, func, client>> /\ fault' \in BOOLEAN /\ (fault => fault')
      BY <1>0, <2>1, Raised
    <3> QED BY <1>2, <2>2, <3>1
  <2>3. CASE UNCHANGED report
    BY <2>1, <2>3, SameRun
  <2> QED BY <2>1, <2>2, <2>3
<1>5. CASE ExecFails /\ UNCHANGED client
  <2>1. FR!Fail(ExitCode[Head(todo)]) /\ UNCHANGED <<cmd, func, client>> /\ fault' = (fault \/ ~Refused(Head(todo)))
    BY <1>5 DEF ExecFails
  <2>2. FR!ChildStep
    BY <1>5, <2>1, CodeKnown DEF FR!ChildStep, FR!ChildReports
  <2>3. fault' \in BOOLEAN /\ (fault => fault')
    BY <1>0, <2>1
  <2> QED BY <1>2, <2>1, <2>2, <2>3
<1>6. ASSUME NEW f, f = fault \/ f = TRUE, ChildKilled(f), UNCHANGED client PROVE RunInv'
  <2>1. FR!ChildStep /\ UNCHANGED <<cmd, func, client>> /\ fault' = f
    BY <1>6 DEF ChildKilled, FR!ChildStep
  <2>2. fault' \in BOOLEAN /\ (fault => fault')
    BY <1>0, <1>6, <2>1, Raised
  <2> QED BY <1>2, <2>1, <2>2
<1>7. CASE MonitorBinds
  BY <1>7, SameRun DEF MonitorBinds
<1>8. CASE MonitorReports
  <2>1. FR!ChildStep /\ UNCHANGED <<cmd, func, client>> /\ (fault' = fault \/ fault' = TRUE)
    BY <1>8 DEF MonitorReports, FR!ChildStep, FR!ChildReports
  <2>2. fault' \in BOOLEAN /\ (fault => fault')
    BY <1>0, <2>1, Raised
  <2> QED BY <1>2, <2>1, <2>2
<1>9. CASE MonitorFails
  <2>1. FR!Fail(EXIT_FAILURE) /\ UNCHANGED <<cmd, func, client>> /\ fault' = fault
    BY <1>9 DEF MonitorFails
  <2>2. EXIT_FAILURE \in Codes
    BY ServiceAssumption
  <2>3. FR!ChildStep
    BY <2>1, <2>2 DEF FR!ChildStep, FR!ChildReports
  <2> QED BY <1>0, <1>2, <2>1, <2>3
<1>10. CASE MonitorKilled
  BY <1>6, <1>10 DEF MonitorKilled
<1>11. CASE Program
  <2>1. FR!ChildStep /\ UNCHANGED <<cmd, func, client>> /\ fault' = fault
    BY <1>11 DEF Program, ProgramExits, FR!ChildStep
  <2> QED BY <1>0, <1>2, <2>1
<1>12. CASE Others
  <2>1. UNCHANGED <<cmd, func, report, fault, client>>
    BY <1>12 DEF Others, command
  <2> QED BY <2>1, SameRun
<1>13. CASE func = "exec" /\ ChildKilled(fault) /\ UNCHANGED client
  BY <1>6, <1>13
<1> QED BY <1>1, <1>3, <1>4, <1>5, <1>7, <1>8, <1>9, <1>10, <1>11, <1>12, <1>13
        DEF Report, Exec, MonitorChild

\* All steps of sysvrun are those between commands, and those that make and fork them.
LEMMA ClientParts ==
    ASSUME Client
    PROVE  Between \/ Run \/ (Prerequisites /\ ~Top.bad) \/ \E e \in {"", "ENOENT", "EINVAL"} : Builds(e)
  BY DEF Client, Between

\* Steps of sysvrun.
LEMMA ClientRun == ASSUME StackInv, RunInv, Client PROVE RunInv'
<1>1. UNCHANGED case
  BY DEF Client
<1> QED BY <1>1, ClientParts, BetweenRun, RunRun, ForkRun, BuildsRun

\* ExecInv is not disturbed by what leaves the process alone.
LEMMA SameExec ==
    ASSUME ExecInv, Engaged' => Engaged, UNCHANGED <<func, todo, proc, ready, self>>, Engaged' => cmd' = cmd
    PROVE  ExecInv'
<1>1. func' = func /\ todo' = todo /\ proc' = proc /\ ready' = ready /\ self' = self
  OBVIOUS
<1>2. Engaged' /\ self = 0 => Stage(Len(todo), proc, cmd')
  BY DEF ExecInv
<1>3. func # "exec" => ~proc.prog
  BY DEF ExecInv
<1>4. func = "exec" => Suffix(todo) /\ (ready <=> Len(todo) = 0) /\ (proc.prog <=> Len(todo) = 0)
  BY DEF ExecInv
<1>5. func' # "exec" => ~proc'.prog
  BY <1>1, <1>3
<1>6. func' = "exec" => Suffix(todo') /\ (ready' <=> Len(todo') = 0) /\ (proc'.prog <=> Len(todo') = 0)
  BY <1>1, <1>4, SMT
<1> QED BY <1>1, <1>2, <1>5, <1>6 DEF ExecInv

\* A process that has ended does not come back.
LEMMA EngagedOnly ==
    ASSUME RunInv, func' = func, ForkStep \/ UNCHANGED report
    PROVE  Engaged' => Engaged
<1>1. CASE ForkStep
  <2>1. func # "none"
    BY <1>1, NotForked DEF RunInv
  <2>2. func = "exec" => (Busy' => Busy)
    BY <1>1, <2>1, ExecForkStep DEF RunInv
  <2> QED BY <2>2 DEF Engaged
<1>2. CASE UNCHANGED report
  BY <1>2 DEF Engaged, Busy, report
<1> QED BY <1>1, <1>2

\* What df_parent(), df_inter() and the first report leave alone.
LEMMA ParentSide ==
    ASSUME FR!ReportInv, FR!ParentStep \/ FR!InterStep \/ FR!WritePid
    PROVE  ForkStep /\ ready' = ready /\ code' = code /\ (child' = "dead" <=> child = "dead")
<1>1. CASE FR!Fork
  <2>1. child = "none" /\ (child' = child \/ child' = "born") /\ ready' = ready /\ code' = code
    BY <1>1 DEF FR!Fork, FR!ReportInv
  <2> QED BY <1>1, <2>1 DEF ForkStep, FR!ParentStep
<1>2. CASE FR!ParentStep /\ ~FR!Fork
  <2>1. UNCHANGED <<child, ready, code>>
    BY <1>2 DEF FR!ParentStep, FR!ForkFails, FR!Reap, FR!ReadFirst, FR!ReadSecond, FR!Collect
  <2> QED BY <1>2, <2>1 DEF ForkStep
<1>3. CASE FR!InterStep
  <2>1. UNCHANGED <<ready, code>> /\ (child' = child \/ (child = "none" /\ child' = "born"))
    BY <1>3 DEF FR!InterStep, FR!InterForks, FR!InterExits
  <2> QED BY <1>3, <2>1 DEF ForkStep
<1>4. CASE FR!WritePid
  BY <1>4 DEF FR!WritePid, ForkStep, FR!ChildStep
<1> QED BY <1>1, <1>2, <1>3, <1>4

\* Nothing happens to a process before one is forked.
LEMMA Forked == ASSUME RunInv, ForkStep PROVE func # "none" /\ FR!ReportInv
  BY NotForked DEF RunInv

\* Steps of the processes that are forked, and of others.
LEMMA ForkedExec ==
    ASSUME RunInv, ExecInv, Report \/ Exec \/ MonitorChild \/ Program \/ Others
    PROVE  ExecInv'
<1>0. ASSUME ForkStep \/ UNCHANGED report, UNCHANGED <<self, cmd, func, todo, proc, ready>> PROVE ExecInv'
  <2>1. Engaged' => Engaged
    BY <1>0, EngagedOnly
  <2> QED BY <1>0, <2>1, SameExec
<1>1. CASE ReportStep
  <2>1. (FR!ParentStep \/ FR!InterStep \/ FR!WritePid) /\ UNCHANGED <<self, cmd, func, todo, proc>>
    BY <1>1 DEF ReportStep
  <2>2. ForkStep
    BY <2>1 DEF ForkStep, FR!ChildStep
  <2>3. ready' = ready
    BY <2>1, <2>2, Forked, ParentSide
  <2> QED BY <1>0, <2>1, <2>2, <2>3
<1>2. CASE ChildExits
  <2>1. ForkStep /\ UNCHANGED <<self, cmd, func, todo, proc, ready>>
    BY <1>2 DEF ChildExits, ForkStep, FR!ChildStep, FR!ChildExits, FR!WritePidFails
  <2> QED BY <1>0, <2>1
<1>3. CASE ExecStep
  BY <1>3, ExecStepExec
<1>4. CASE ExecFails
  <2>1. FR!Fail(ExitCode[Head(todo)]) /\ UNCHANGED <<self, cmd, func, todo, proc>>
    BY <1>4 DEF ExecFails
  <2>2. ForkStep
    BY <1>4, <2>1, CodeKnown DEF ForkStep, FR!ChildStep, FR!ChildReports
  <2>3. ready' = ready
    BY <2>1 DEF FR!Fail
  <2> QED BY <1>0, <2>1, <2>2, <2>3
<1>5. ASSUME FR!Killed, UNCHANGED <<self, cmd, func, todo, proc>> PROVE ExecInv'
  <2>1. ForkStep /\ ready' = ready
    BY <1>5 DEF ForkStep, FR!ChildStep, FR!Killed
  <2> QED BY <1>0, <1>5, <2>1
<1>6. CASE func = "exec" /\ ChildKilled(fault)
  BY <1>5, <1>6 DEF ChildKilled
<1>7. CASE Program
  BY <1>5, <1>7 DEF Program, ProgramExits
<1>8. CASE MonitorChild
  <2>1. func = "monitor" /\ func' = func /\ proc' = proc
    BY <1>8 DEF MonitorChild, Starting, MonitorBinds, MonitorReports, MonitorFails, MonitorKilled, ChildKilled
  <2>2. ~Engaged' /\ func' # "exec" /\ ~proc'.prog
    BY <2>1 DEF Engaged, ExecInv
  <2> QED BY <2>2 DEF ExecInv
<1>9. CASE Others
  <2>1. UNCHANGED report /\ UNCHANGED <<self, cmd, func, todo, proc, ready>>
    BY <1>9 DEF Others, command, report
  <2> QED BY <1>0, <2>1
<1> QED BY <1>1, <1>2, <1>3, <1>4, <1>6, <1>7, <1>8, <1>9 DEF Report, Exec

\* The process starts with what sysvrun has.
LEMMA CallStarts ==
    ASSUME self = 0, NEW c
    PROVE  Stage(7, Fresh, c)
<1>1. Fresh.root = "/" /\ Fresh.cwd = "/" /\ Fresh.uid = 0 /\ Fresh.gid = 0 /\ Fresh.groups = {0}
  BY DEF Fresh
<1>2. 7 > 6 /\ 7 > 5 /\ 7 > 4 /\ 7 > 3 /\ 7 > 2 /\ ~(7 < 2)
  BY SMT
<1> QED BY <1>1, <1>2 DEF Stage

\* command_exec_func() begins at the beginning.
LEMMA AllSteps == Suffix(ExecSteps) /\ Len(ExecSteps) = 7
<1>1. Len(ExecSteps) = 7
  BY SMT DEF ExecSteps
<1>4. ExecSteps \in Seq(Calls)
  BY SMT DEF ExecSteps, Calls
<1>2. \A i \in 1 .. 7 : i + 7 - 7 = i
  BY SMT
<1>3. 7 \in 0 .. 7
  BY SMT
<1> QED BY <1>1, <1>2, <1>3, <1>4 DEF Suffix

\* A process is about to be forked.
LEMMA CallExec ==
    ASSUME NEW f \in {"exec", "monitor"}, Call(f), self' = self
    PROVE  ExecInv'
<1>1. func' = f /\ proc' = Fresh /\ ready' = FALSE /\ todo' = (IF f = "exec" THEN ExecSteps ELSE <<>>)
  BY DEF Call
<1>2. ~Fresh.prog
  BY DEF Fresh
<1>3. CASE f = "monitor"
  BY <1>1, <1>2, <1>3 DEF ExecInv, Engaged
<1>4. CASE f = "exec"
  <2>1. todo' = ExecSteps /\ Suffix(todo') /\ Len(todo') = 7
    BY <1>1, <1>4, AllSteps
  <2>4. 7 # 0
    BY SMT
  <2>2. self' = 0 => Stage(7, proc', cmd')
    BY <1>1, CallStarts
  <2>3. ~ready' /\ ~proc'.prog
    BY <1>1, <1>2
  <2> QED BY <1>1, <1>4, <2>1, <2>2, <2>3, <2>4 DEF ExecInv
<1> QED BY <1>3, <1>4

\* Steps of sysvrun.
LEMMA ClientExec == ASSUME StackInv, RunInv, ExecInv, Client PROVE ExecInv'
<1>1. case' = case /\ self' = self
  BY DEF Client
<1>2. CASE Between
  <2>1. UNCHANGED <<func, todo, proc, ready, report>> /\ cmd' = cmd
    BY <1>1, <1>2, BetweenFlow DEF command, report
  <2>2. Engaged' => Engaged
    BY <2>1, EngagedOnly
  <2> QED BY <1>1, <2>1, <2>2, SameExec
<1>3. CASE Run
  BY <1>1, <1>3, CallExec DEF Run
<1>4. CASE Prerequisites /\ ~Top.bad
  BY <1>1, <1>4, CallExec DEF Prerequisites
<1>5. ASSUME NEW e \in {"", "ENOENT", "EINVAL"}, Builds(e) PROVE ExecInv'
  <2>1. BuildFlow(e) /\ \E l \in {U.start, U.stop, U.reload} : Build(l, e)
    BY <1>1, <1>5, BuildsFlow
  <2>2. UNCHANGED <<func, todo, proc, ready, report>>
    BY <2>1 DEF Build, report
  <2>3. ~Engaged
    BY <2>1 DEF BuildFlow, RunInv, Ran
  <2>4. ~Engaged'
    BY <2>2, <2>3, EngagedOnly
  <2> QED BY <1>1, <2>2, <2>4, SameExec
<1> QED BY <1>2, <1>3, <1>4, <1>5, ClientParts
-----------------------------------------------------------------------------
(* How commands end *)

\* Invariant: the status of a command tells how it ended, and a superuser's command that
\* failed to be executed did so for want of the program.
Status ==
    /\ child # "dead" => wstatus = Running
    /\ child = "dead" /\ code # 0 => wstatus = 256 * code
    /\ child = "dead" /\ code = 0 => wstatus \in {9, 256} \/ (wstatus = 0 /\ ready)

\* What its code is, if the unit is to blame.
Unfit(c) == c.where = "missing" \/ c.rootdir = "dir"
Missing == self = 0 /\ ~fault /\ code # 0 /\ (Engaged \/ verb = "reload") => code = EXIT_EXEC /\ Unfit(cmd)

\* Invariant: how the program or its process ended.
StatusInv == func = "exec" => Status /\ Missing

\* Steps that leave the status alone.
LEMMA SameStatus ==
    ASSUME StatusInv, func' = func, case' = case, UNCHANGED <<self, wstatus, code, ready>>,
           child' = "dead" <=> child = "dead", fault => fault',
           Engaged' => Engaged, Engaged' \/ verb = "reload" => cmd' = cmd
    PROVE  StatusInv'
<1>1. verb' = verb
  BY DEF verb
<1>2. SUFFICES ASSUME func = "exec" PROVE Status' /\ Missing'
  BY DEF StatusInv
<1>3. Status /\ Missing
  BY <1>2 DEF StatusInv
<1>4. Status'
  <2>1. wstatus' = wstatus /\ code' = code /\ ready' = ready
    OBVIOUS
  <2>2. CASE child = "dead"
    <3>1. child' = "dead" /\ (code # 0 => wstatus = 256 * code) /\ (code = 0 => wstatus \in {9, 256} \/ (wstatus = 0 /\ ready))
      BY <1>3, <2>2 DEF Status
    <3>2. child' = "dead" /\ (code' # 0 => wstatus' = 256 * code')
      BY <2>1, <3>1
    <3>4. ready => ready'
      BY <2>1, SMT
    <3>3. code' = 0 => wstatus' \in {9, 256} \/ (wstatus' = 0 /\ ready')
      BY <2>1, <3>1, <3>4
    <3> QED BY <3>2, <3>3 DEF Status
  <2>3. CASE child # "dead"
    BY <1>3, <2>1, <2>3 DEF Status
  <2> QED BY <2>2, <2>3
<1>5. Missing'
  <2>1. self' = self /\ code' = code
    OBVIOUS
  <2> QED BY <1>1, <1>3, <2>1 DEF Missing
<1> QED BY <1>4, <1>5

\* The child ends.
LEMMA EndsStatus ==
    ASSUME RunInv, StatusInv, func' = func, case' = case, UNCHANGED <<self, cmd>>, fault => fault',
           FR!Killed \/ FR!ChildExits \/ FR!WritePidFails,
           \/ FR!ChildExits /\ wstatus' = 256 * code
           \/ ~FR!ChildExits /\ (wstatus' \in {9, 256} \/ (wstatus' = 0 /\ ready))
    PROVE  StatusInv'
<1>1. SUFFICES ASSUME func = "exec" PROVE Status' /\ Missing'
  BY DEF StatusInv
<1>2. FR!ReportInv /\ Missing
  BY <1>1 DEF RunInv, StatusInv
<1>3. child' = "dead" /\ code' = code /\ ready' = ready
      /\ (FR!ChildExits => child = "returned") /\ (~FR!ChildExits => child \in {"born", "running"})
  BY DEF FR!Killed, FR!ChildExits, FR!WritePidFails, FR!Die
<1>4. IF FR!ChildExits THEN code # 0 ELSE code = 0
  BY <1>2, <1>3 DEF FR!ReportInv
<1>5. Status'
  BY <1>3, <1>4 DEF Status
<1>6. Engaged' => Engaged
  BY EngagedOnly DEF ForkStep, FR!ChildStep
<1>7. Missing'
  <2>1. verb' = verb /\ self' = self /\ cmd' = cmd
    BY DEF verb
  <2> QED BY <1>2, <1>3, <1>6, <2>1 DEF Missing
<1> QED BY <1>5, <1>7

\* A superuser's call is refused only for want of the program, or of a path to it.
LEMMA RefusedCall ==
    ASSUME RunInv, ExecInv, ExecFails, self = 0, Refused(Head(todo))
    PROVE  ExitCode[Head(todo)] = EXIT_EXEC /\ Unfit(cmd)
<1>1. Executing /\ Head(todo) # "umask" /\ Needed(Head(todo))
  BY DEF ExecFails
<1>2. /\ Engaged /\ Runnable(cmd)
      /\ \/ Len(todo) = 7 /\ Head(todo) = "chroot"
         \/ Len(todo) = 6 /\ Head(todo) = "chdir"
         \/ Len(todo) = 5 /\ Head(todo) = "setregid"
         \/ Len(todo) = 4 /\ Head(todo) = "setgroups"
         \/ Len(todo) = 3 /\ Head(todo) = "setreuid"
         \/ Len(todo) = 1 /\ Head(todo) = "execve"
  BY <1>1, NowAt
<1>3. Stage(Len(todo), proc, cmd)
  BY <1>2 DEF ExecInv
<1>4. Head(todo) \in {"chroot", "setregid", "setgroups", "setreuid"} => proc.uid = 0
  <2>1. proc.uid = IF Len(todo) > 2 \/ "+" \in cmd.flags THEN 0 ELSE cmd.uid
    BY <1>3 DEF Stage
  <2>2. 7 > 2 /\ 5 > 2 /\ 4 > 2 /\ 3 > 2
    BY SMT
  <2> QED BY <1>2, <2>1, <2>2
<1>5. Head(todo) = "chroot" => cmd.rootdir # "gone"
  BY <1>1, <1>2 DEF Needed, Runnable
<1>6. Head(todo) = "execve"
  <2>1. Head(todo) # "chroot"
    BY <1>4, <1>5 DEF Refused
  <2>2. Head(todo) # "chdir"
    BY <1>2 DEF Refused, Runnable
  <2>3. Head(todo) # "setregid"
    BY <1>4 DEF Refused
  <2>4. Head(todo) # "setgroups"
    BY <1>4 DEF Refused
  <2>5. Head(todo) # "setreuid"
    BY <1>4 DEF Refused
  <2> QED BY <1>2, <2>1, <2>2, <2>3, <2>4, <2>5
<1>7. ExitCode["execve"] = EXIT_EXEC
  BY SMT DEF ExitCode
<1>8. cmd.where # "there" \/ proc.root = "dir"
  BY <1>6 DEF Refused
<1>9. proc.root = "dir" => cmd.rootdir = "dir"
  BY <1>2, <1>3, <1>6 DEF Stage
<1> QED BY <1>2, <1>6, <1>7, <1>8, <1>9 DEF Runnable, Unfit

\* Steps of the processes that are forked, and of others.
LEMMA ForkedStatus ==
    ASSUME RunInv, ExecInv, StatusInv, Report \/ Exec \/ MonitorChild \/ Program \/ Others
    PROVE  StatusInv'
<1>0. case' = case /\ self' = self
  BY Elsewhere DEF client
<1>1. CASE ReportStep
  <2>1. (FR!ParentStep \/ FR!InterStep \/ FR!WritePid) /\ UNCHANGED <<self, cmd, func, wstatus>>
    BY <1>1 DEF ReportStep
  <2>2. fault => fault'
    BY <1>1 DEF ReportStep
  <2>3. ForkStep
    BY <2>1 DEF ForkStep, FR!ChildStep
  <2>4. ready' = ready /\ code' = code /\ (child' = "dead" <=> child = "dead")
    BY <2>1, <2>3, Forked, ParentSide
  <2>5. Engaged' => Engaged
    BY <2>1, <2>3, EngagedOnly
  <2> QED BY <1>0, <2>1, <2>2, <2>4, <2>5, SameStatus
<1>2. CASE ChildExits
  <2>1. /\ FR!ChildExits \/ FR!WritePidFails
        /\ wstatus' = IF child = "born" THEN 256 ELSE 256 * code
        /\ UNCHANGED <<self, cmd>> /\ func' = func /\ fault' = fault
    BY <1>2 DEF ChildExits
  <2>2. (FR!ChildExits => child # "born") /\ (~FR!ChildExits => child = "born")
    BY <2>1 DEF FR!ChildExits, FR!WritePidFails
  <2>3. fault => fault'
    BY <2>1
  <2>4. IF FR!ChildExits THEN wstatus' = 256 * code ELSE wstatus' \in {9, 256}
    <3>1. CASE FR!ChildExits
      BY <2>1, <2>2, <3>1
    <3>2. CASE ~FR!ChildExits
      BY <2>1, <2>2, <3>2
    <3> QED BY <3>1, <3>2
  <2> QED BY <1>0, <2>1, <2>3, <2>4, EndsStatus
<1>3. CASE ExecStep
  <2>1. /\ UNCHANGED <<self, cmd, wstatus>> /\ func' = func /\ fault' = fault /\ child = "running"
        /\ FR!report_ready \/ UNCHANGED report
    BY <1>3 DEF ExecStep, Executing
  <2>2. UNCHANGED <<child, code>>
    BY <2>1 DEF FR!report_ready, report
  <2>3. Engaged' => Engaged
    BY <2>1, EngagedOnly DEF ForkStep, FR!ChildStep, FR!ChildReports
  <2>4. SUFFICES ASSUME func = "exec" PROVE Status' /\ Missing'
    BY <2>1 DEF StatusInv
  <2>5. Status'
    BY <2>1, <2>2, <2>4 DEF StatusInv, Status
  <2>6. Missing'
    <3>1. verb' = verb /\ self' = self /\ cmd' = cmd /\ code' = code /\ fault' = fault
      BY <1>0, <2>1, <2>2 DEF verb
    <3>2. Missing
      BY <2>4 DEF StatusInv
    <3> QED BY <2>3, <3>1, <3>2 DEF Missing
  <2> QED BY <2>5, <2>6
<1>4. CASE ExecFails
  <2>1. /\ Executing /\ fault' = (fault \/ ~Refused(Head(todo))) /\ FR!Fail(ExitCode[Head(todo)])
        /\ UNCHANGED <<self, cmd, func, wstatus>>
    BY <1>4 DEF ExecFails
  <2>2. child = "running" /\ child' = "returned" /\ code' = ExitCode[Head(todo)] /\ func = "exec"
    BY <2>1 DEF FR!Fail, Executing
  <2>3. Status'
    BY <2>1, <2>2 DEF StatusInv, Status
  <2>4. self = 0 /\ ~fault' => ExitCode[Head(todo)] = EXIT_EXEC /\ Unfit(cmd)
    BY <1>4, <2>1, RefusedCall
  <2>5. Missing'
    BY <2>1, <2>2, <2>4 DEF Missing
  <2> QED BY <2>3, <2>5 DEF StatusInv
<1>5. CASE func = "exec" /\ ChildKilled(fault)
  <2>1. FR!Killed /\ wstatus' = 9 /\ fault' = fault /\ UNCHANGED <<self, cmd>> /\ func' = func
    BY <1>5 DEF ChildKilled
  <2>2. ~FR!ChildExits
    BY <2>1 DEF FR!Killed, FR!ChildExits
  <2>3. fault => fault'
    BY <2>1
  <2> QED BY <1>0, <2>1, <2>2, <2>3, EndsStatus
<1>6. CASE Program
  <2>1. FR!Killed /\ wstatus' \in {0, 256} /\ ready /\ fault' = fault /\ UNCHANGED <<self, cmd>> /\ func' = func
    BY <1>6 DEF Program, ProgramExits
  <2>2. ~FR!ChildExits
    BY <2>1 DEF FR!Killed, FR!ChildExits
  <2>3. fault => fault'
    BY <2>1
  <2>4. wstatus' \in {9, 256} \/ (wstatus' = 0 /\ ready)
    BY <2>1
  <2> QED BY <1>0, <2>1, <2>2, <2>3, <2>4, EndsStatus
<1>7. CASE MonitorChild
  <2>1. func = "monitor" /\ func' = func
    BY <1>7 DEF MonitorChild, Starting, MonitorBinds, MonitorReports, MonitorFails, MonitorKilled, ChildKilled
  <2> QED BY <2>1 DEF StatusInv
<1>8. CASE Others
  <2>1. UNCHANGED report /\ UNCHANGED <<self, cmd, func, wstatus, code, ready>> /\ child' = child /\ fault' = fault
    BY <1>8 DEF Others, command, report
  <2>2. Engaged' => Engaged
    BY <2>1, EngagedOnly
  <2>3. fault => fault'
    BY <2>1
  <2> QED BY <1>0, <2>1, <2>2, <2>3, SameStatus
<1> QED BY <1>1, <1>2, <1>3, <1>4, <1>5, <1>6, <1>7, <1>8 DEF Report, Exec

\* Steps of sysvrun.
LEMMA ClientStatus == ASSUME StackInv, RunInv, StatusInv, Client PROVE StatusInv'
<1>1. case' = case /\ self' = self
  BY DEF Client
<1>2. CASE Between
  <2>1. UNCHANGED <<wstatus, code, ready, report>> /\ cmd' = cmd /\ func' = func /\ child' = child /\ fault' = fault
    BY <1>1, <1>2, BetweenFlow DEF command, report
  <2>2. Engaged' => Engaged
    BY <2>1, EngagedOnly
  <2>3. fault => fault'
    BY <2>1
  <2> QED BY <1>1, <2>1, <2>2, <2>3, SameStatus
<1>3. CASE Run
  <2>1. child' = "none" /\ wstatus' = Running /\ code' = 0
    BY <1>3 DEF Run, Call
  <2> QED BY <2>1 DEF StatusInv, Status, Missing
<1>4. CASE Prerequisites /\ ~Top.bad
  <2>1. func' = "monitor"
    BY <1>4 DEF Prerequisites, Call
  <2> QED BY <2>1 DEF StatusInv
<1>5. ASSUME NEW e \in {"", "ENOENT", "EINVAL"}, Builds(e) PROVE StatusInv'
  <2>1. BuildFlow(e) /\ stack # <<>>
    BY <1>1, <1>5, BuildsFlow
  <2>2. PICK l \in {U.start, U.stop, U.reload} : Build(l, e)
    BY <1>1, <1>5, BuildsFlow
  <2>3. UNCHANGED <<wstatus, code, ready, report>> /\ func' = func /\ child' = child
    BY <2>2 DEF Build, report
  <2>4. ~Engaged /\ (verb = "reload" => func = "none")
    BY <2>1 DEF BuildFlow, RunInv, Ran
  <2>5. ~Engaged'
    BY <2>3, <2>4, EngagedOnly
  <2>6. fault => fault'
    BY <2>1, <2>2, BuildRunnable
  <2>7. CASE func = "none"
    BY <2>3, <2>7 DEF StatusInv
  <2>8. CASE verb # "reload"
    BY <1>1, <2>3, <2>5, <2>6, <2>8, SameStatus
  <2> QED BY <2>4, <2>7, <2>8
<1> QED BY <1>2, <1>3, <1>4, <1>5, ClientParts

\* All of it.
CommandInv == StackInv /\ RunInv /\ ExecInv /\ StatusInv

\* It does not depend on anything else.
LEMMA CommandStutters == ASSUME CommandInv, UNCHANGED vars PROVE CommandInv'
<1>1. /\ UNCHANGED <<self, cmd, func, todo, proc, wstatus, ready, code, report, fault, client>>
      /\ child' = child /\ case' = case /\ func' = func /\ fault' = fault /\ cmd' = cmd
  BY DEF vars, command, client, report
<1>2. StackInv' /\ RunInv'
  BY <1>1, StackInvNext, SameRun DEF CommandInv
<1>3. Engaged' => Engaged
  BY <1>1, EngagedOnly DEF CommandInv
<1>4. ExecInv'
  BY <1>1, <1>3, SameExec DEF CommandInv
<1>5. fault => fault'
  BY <1>1, SMT
<1>6. StatusInv'
  BY <1>1, <1>3, <1>5, SameStatus DEF CommandInv
<1> QED BY <1>2, <1>4, <1>6 DEF CommandInv

\* It is kept.
LEMMA CommandInvNext == CommandInv /\ [Next]_vars => CommandInv'
<1> SUFFICES ASSUME CommandInv, [Next]_vars PROVE CommandInv'
  OBVIOUS
<1>1. StackInv /\ RunInv /\ ExecInv /\ StatusInv /\ StackInv'
  BY StackInvNext DEF CommandInv
<1>2. CASE Client
  BY <1>1, <1>2, ClientRun, ClientExec, ClientStatus DEF CommandInv
<1>3. CASE Report \/ Exec \/ MonitorChild \/ Program \/ Others
  BY <1>1, <1>3, ForkedRun, ForkedExec, ForkedStatus DEF CommandInv
<1>4. CASE UNCHANGED vars
  BY <1>4, CommandStutters
<1> QED BY <1>2, <1>3, <1>4 DEF Next, Own

\* It holds throughout.
THEOREM CommandSound == Spec => []CommandInv
<1>1. Init => CommandInv
  <2> SUFFICES ASSUME Init PROVE CommandInv
    OBVIOUS
  <2>1. StackInv
    BY StackStarts
  <2>2. /\ func = "none" /\ parent = "done" /\ child = "none" /\ inter = "none" /\ fault = FALSE /\ proc = Fresh
    BY DEF Init, Idle
  <2>3. Pc \in {"start", "stop", "reload", "status"}
    <3>1. stack # <<>> /\ Top.pc = IF verb = "restart" THEN "stop" ELSE verb
      <4>1. stack = <<Frame(Target, IF verb = "restart" THEN "stop" ELSE verb)>>
        BY DEF Init
      <4>2. Top = Frame(Target, IF verb = "restart" THEN "stop" ELSE verb) /\ stack # <<>>
        BY <4>1, SMT DEF Top
      <4> QED BY <4>2, SMTT(30) DEF Frame
    <3>2. verb \in {"start", "stop", "restart", "reload", "status"}
      BY <2>1, ServiceAssumption DEF StackInv, verb
    <3> QED BY <3>1, <3>2 DEF Pc
  <2>4. /\ Pc \notin Ran /\ Pc \notin HasCommand /\ Pc # "fork" /\ Pc \notin {"buildC", "startC"} /\ Pc \notin WithFile
        /\ ~Engaged
    BY <2>2, <2>3 DEF Ran, HasCommand, WithFile, Engaged
  <2>5. RunInv
    BY <2>2, <2>4 DEF RunInv
  <2>6. ~proc.prog
    BY <2>2 DEF Fresh
  <2> QED BY <2>1, <2>2, <2>4, <2>5, <2>6 DEF CommandInv, ExecInv, StatusInv
<1> QED BY <1>1, CommandInvNext, PTL DEF Spec

\* In every command, what the two parents of fork.c return is what became of the function.
THEOREM ReportIsTrue == Spec => []ReportTruth
<1>1. CommandInv => ReportTruth
  <2>1. FR!ReportInv => FR!SuccessTruth /\ FR!FailureTruth
    BY ReportMeans
  <2> QED BY <2>1 DEF CommandInv, RunInv, ReportTruth
<1> QED BY <1>1, CommandSound, PTL

\* A superuser's command runs as the unit asks, whatever it asks.
THEOREM ExecutedAsAsked == Spec => []ExecAsAsked
<1>1. CommandInv => ExecAsAsked
  <2> SUFFICES ASSUME CommandInv, child = "running", proc.prog, self = 0 PROVE ExecAsAsked
    BY DEF ExecAsAsked
  <2>1. func = "exec" /\ Len(todo) = 0 /\ Engaged
    BY DEF CommandInv, ExecInv, Engaged, Busy
  <2>2. Stage(0, proc, cmd)
    BY <2>1 DEF CommandInv, ExecInv
  <2>3. ~(0 > 6) /\ ~(0 > 5) /\ ~(0 > 4) /\ ~(0 > 3) /\ ~(0 > 2) /\ 0 < 2
    BY SMTT(30)
  <2> QED BY <2>2, <2>3 DEF Stage, ExecAsAsked, Plus
<1> QED BY <1>1, CommandSound, PTL

\* If nothing unforeseen happens, it fails to be executed only for want of the program, or
\* because of its root directory, which is put before the path and entered as well.
THEOREM FailsOnlyForReason == Spec => []FailsForReason
<1>1. CommandInv => FailsForReason
  <2> SUFFICES ASSUME CommandInv, func = "exec", parent = "collect", self = 0, ~fault
               PROVE  code = EXIT_EXEC /\ Unfit(cmd)
    BY DEF FailsForReason, Unfit
  <2>1. FR!ReportInv /\ Missing /\ Engaged
    BY DEF CommandInv, RunInv, StatusInv, Engaged, Busy
  <2>2. code # 0
    BY <2>1 DEF FR!ReportInv, FR!Unread
  <2> QED BY <2>1, <2>2 DEF Missing
<1> QED BY <1>1, CommandSound, PTL
-----------------------------------------------------------------------------
(* What a reload comes to *)

\* Invariant: the exit code is that of the command, or says why it was not run.
ReloadInv ==
    verb = "reload" =>
        /\ exit = 0 => st = "starting" \/ (func = "exec" /\ RunReturned /\ RunResult = 0)
        /\ exit = 1 => st = "error" \/ (func = "exec" /\ RunReturned /\ RunResult # 0)

\* What command_run() returned stays what it was.
LEMMA ResultKept ==
    ASSUME RunInv, func = "exec", RunReturned, Report \/ Exec \/ MonitorChild \/ Program \/ Others
    PROVE  func' = func /\ RunReturned' /\ RunResult' = RunResult
<1>1. parent = "done" /\ child \notin {"born", "running"} /\ inter = "none" /\ (result < 0 \/ child = "dead")
  BY ReturnedIdle DEF RunReturned, Engaged, Busy, RunInv, ExecShape
<1>2. CASE ReportStep
  BY <1>1, <1>2 DEF ReportStep, FR!ParentStep, FR!Fork, FR!ForkFails, FR!Reap, FR!ReadFirst, FR!ReadSecond,
     FR!Collect, FR!InterStep, FR!InterForks, FR!InterExits, FR!WritePid
<1>3. CASE ChildExits
  <2>1. FR!ChildExits /\ func' = func
    BY <1>1, <1>3 DEF ChildExits, FR!WritePidFails
  <2>2. child = "returned" /\ result' = result /\ parent' = parent
    BY <2>1 DEF FR!ChildExits
  <2>3. result < 0 /\ result' < 0
    BY <1>1, <2>2
  <2> QED BY <1>1, <2>1, <2>2, <2>3 DEF RunReturned, RunResult
<1>4. CASE Exec \/ Program
  BY <1>1, <1>4 DEF Exec, ExecStep, ExecFails, Executing, ChildKilled, Program, ProgramExits, FR!Killed
<1>5. CASE MonitorChild
  BY <1>5 DEF MonitorChild, MonitorBinds, MonitorReports, MonitorFails, MonitorKilled, Starting
<1>6. CASE Others
  <2>1. UNCHANGED <<func, parent, result, child, wstatus>>
    BY <1>6 DEF Others, command, report
  <2> QED BY <2>1 DEF RunReturned, RunResult
<1> QED BY <1>2, <1>3, <1>4, <1>5, <1>6 DEF Report

\* A reload does only what service_reload() does.
LEMMA ReloadOnly ==
    ASSUME StackInv, Client, verb = "reload"
    PROVE  \/ \E s \in States \cup {"error"} : ReloadAsk(s)
           \/ \E e \in {"", "ENOENT", "EINVAL"} : service_reload(e)
           \/ Run \/ ReloadRan
<1>1. ASSUME NEW p \in StartPcs \cup StopPcs \cup StatusPcs, At(p) PROVE FALSE
  BY <1>1, VerbAt
<1>2. ~At("start") /\ ~At("up") /\ ~At("ending") /\ ~At("build") /\ ~At("required") /\ ~At("fork")
  BY <1>1 DEF StartPcs
<1>3. /\ ~At("stop") /\ ~At("planA") /\ ~At("ran") /\ ~At("await") /\ ~At("planB") /\ ~At("ask") /\ ~At("send")
      /\ ~At("wait") /\ ~At("planC") /\ ~At("buildC") /\ ~At("startC") /\ ~At("ranC") /\ ~At("kill") /\ ~At("rmpid")
  BY <1>1 DEF StopPcs
<1>4. ~At("status") /\ ~At("buildS") /\ ~At("probe")
  BY <1>1 DEF StatusPcs
<1>5. ASSUME NEW s \in States \cup {"error"}, Asks(s) PROVE ReloadAsk(s)
  BY <1>2, <1>3, <1>4, <1>5 DEF Asks, service_start, StartWait, EndWait, service_stop, StopAwait, monitor_control_stop,
     StopWait, service_status
<1>6. ASSUME NEW e \in {"", "ENOENT", "EINVAL"}, Builds(e) PROVE service_reload(e)
  BY <1>2, <1>3, <1>4, <1>6 DEF Builds, StartBuild, PlanA, PlanCBuild, PlanCStart, StatusBuild
<1>7. ~Prerequisite /\ ~Prerequisites /\ ~Monitored /\ ~StopRan /\ ~PlanB /\ ~StopOrder /\ ~PlanC /\ ~PlanCRan
  BY <1>2, <1>3 DEF Prerequisite, Prerequisites, Monitored, StopRan, PlanB, StopOrder, PlanC, PlanCRan
<1>8. ASSUME NEW e \in Errnos PROVE ~PlanCKill(e) /\ ~command_rmpid(e) /\ ~StatusProbe(e)
  BY <1>3, <1>4 DEF PlanCKill, command_rmpid, StatusProbe
<1> QED BY <1>5, <1>6, <1>7, <1>8 DEF Client

\* Steps of sysvrun: service_reload() returns what the command came to.
LEMMA ClientReload == ASSUME CommandInv, Client PROVE ReloadInv'
<1>0. StackInv /\ RunInv /\ case' = case /\ verb' = verb
  BY DEF CommandInv, Client, verb
<1> SUFFICES ASSUME verb = "reload"
             PROVE  /\ exit' = 0 => st' = "starting" \/ (func' = "exec" /\ RunReturned' /\ RunResult' = 0)
                    /\ exit' = 1 => st' = "error" \/ (func' = "exec" /\ RunReturned' /\ RunResult' # 0)
  BY <1>0 DEF ReloadInv
<1>1. 3 # 0 /\ 3 # 1 /\ 7 # 0 /\ 7 # 1 /\ 0 # 1 /\ Pending # 0 /\ Pending # 1
  BY SMT DEF Pending
<1>2. ASSUME NEW q, Goto(q), stack # <<>> PROVE exit' # 0 /\ exit' # 1
  BY <1>0, <1>1, <1>2 DEF Goto, StackInv
<1>3. ASSUME NEW s \in States \cup {"error"}, ReloadAsk(s)
      PROVE  (exit' = 0 => st' = "starting") /\ (exit' = 1 => st' = "error")
  <2>1. At("askR") /\ stack # <<>> /\ st' = s
    BY <1>3 DEF ReloadAsk, At
  <2>2. ASSUME NEW r, Return(r) PROVE exit' = r
    BY <1>0, <2>1, <2>2, LeaveMain DEF ReloadPcs
  <2>3. \/ s = "error" /\ Return(1)
        \/ s = "starting" /\ Return(0)
        \/ Goto("runR")
        \/ Return(7)
    BY <1>3 DEF ReloadAsk, States
  <2> QED BY <1>1, <1>2, <2>1, <2>2, <2>3
<1>4. ASSUME NEW e \in {"", "ENOENT", "EINVAL"}, service_reload(e) PROVE exit' # 0 /\ exit' # 1
  <2>1. At("reload") /\ stack # <<>> /\ (Return(3) \/ Goto("askR"))
    BY <1>4 DEF service_reload, At
  <2>2. Return(3) => exit' = 3
    BY <1>0, <2>1, LeaveMain DEF ReloadPcs
  <2> QED BY <1>1, <1>2, <2>1, <2>2
<1>5. CASE Run
  BY <1>2, <1>5, RunPlaces DEF At
<1>6. CASE ReloadRan
  <2>1. At("ranR") /\ (IF RunResult = 0 THEN Return(0) ELSE Return(1)) /\ RunReturned /\ UNCHANGED command
    BY <1>6 DEF ReloadRan, NoCommandStep
  <2>2. ASSUME NEW r, Return(r) PROVE exit' = r
    BY <1>0, <2>1, <2>2, LeaveMain DEF ReloadPcs
  <2>5. Pc = "ranR" /\ (IF RunResult = 0 THEN exit' = 0 ELSE exit' = 1)
    BY <2>1, <2>2, AtPc DEF Pcs, ReloadPcs
  <2>3. func = "exec"
    BY <1>0, <2>5 DEF RunInv, Ran
  <2>4. func' = func /\ RunReturned' /\ RunResult' = RunResult
    BY <2>1 DEF command, report, RunReturned, RunResult
  <2> QED BY <1>1, <2>3, <2>4, <2>5
<1> QED BY <1>0, <1>3, <1>4, <1>5, <1>6, ReloadOnly

\* The others leave alone what the command came to.
LEMMA ReloadInvNext == CommandInv /\ ReloadInv /\ [Next]_vars => ReloadInv'
<1> SUFFICES ASSUME CommandInv, ReloadInv, [Next]_vars PROVE ReloadInv'
  OBVIOUS
<1>1. CASE Client
  BY <1>1, ClientReload
<1>2. CASE Report \/ Exec \/ MonitorChild \/ Program \/ Others
  <2>1. exit' = exit /\ st' = st /\ verb' = verb
    BY <1>2, Elsewhere DEF client, verb
  <2>2. func = "exec" /\ RunReturned => func' = func /\ RunReturned' /\ RunResult' = RunResult
    BY <1>2, ResultKept DEF CommandInv
  <2> QED BY <2>1, <2>2 DEF ReloadInv
<1>3. CASE UNCHANGED vars
  <2>1. exit' = exit /\ st' = st /\ verb' = verb /\ UNCHANGED <<func, parent, result, child, wstatus>>
    BY <1>3 DEF vars, client, verb, command, report
  <2>2. func' = func /\ (RunReturned => RunReturned') /\ RunResult' = RunResult
    BY <2>1 DEF RunReturned, RunResult
  <2> QED BY <2>1, <2>2 DEF ReloadInv
<1> QED BY <1>1, <1>2, <1>3 DEF Next, Own

\* A reload is reported done only if its command exited with zero or was pointless, and, if
\* nothing unforeseen happens, failed only if the command failed, or could not be executed
\* because it is missing or has a root directory.
THEOREM ReloadIsTrue == Spec => []ReloadTruth
<1>1. Init => ReloadInv
  <2>1. Pending # 0 /\ Pending # 1
    BY SMT DEF Pending
  <2> QED BY <2>1 DEF Init, ReloadInv
<1>2. CommandInv /\ ReloadInv => ReloadTruth
  <2> SUFFICES ASSUME CommandInv, ReloadInv, verb = "reload"
               PROVE  /\ exit = 0 => (proc.prog /\ wstatus = 0) \/ st = "starting"
                      /\ exit = 1 /\ st # "error" /\ ~fault /\ self = 0 => wstatus > 0 \/ Unfit(cmd)
    BY DEF ReloadTruth, Unfit
  <2>1. ASSUME func = "exec", RunReturned
        PROVE  /\ FR!ReportInv /\ Status /\ Missing /\ parent = "done" /\ (child = "none" => fault)
               /\ (ready <=> Len(todo) = 0) /\ (proc.prog <=> Len(todo) = 0)
    BY <2>1 DEF CommandInv, RunInv, ExecInv, StatusInv, RunReturned
  <2>2. ASSUME func = "exec", RunReturned, RunResult = 0 PROVE proc.prog /\ wstatus = 0
    <3>1. ~(result < 0) /\ child = "dead" /\ wstatus = 0
      <4>1. ~(result < 0)
        BY <2>2, SMT DEF RunResult
      <4> QED BY <2>2, <4>1 DEF RunReturned, RunResult
    <3>2. code = 0
      <4>1. code # 0 => wstatus = 256 * code /\ code \in Codes
        BY <2>1, <2>2, <3>1 DEF Status, FR!ReportInv
      <4>2. \A c \in Codes : c # 0 => 256 * c # 0
        BY CodesAssumption, SMTT(30)
      <4> QED BY <3>1, <4>1, <4>2
    <3>3. ready
      <4>1. 0 # 9 /\ 0 # 256
        BY SMT
      <4> QED BY <2>1, <2>2, <3>1, <3>2, <4>1 DEF Status
    <3> QED BY <2>1, <2>2, <3>1, <3>3
  <2>3. ASSUME func = "exec", RunReturned, RunResult # 0, ~fault, self = 0 PROVE wstatus > 0 \/ Unfit(cmd)
    <3>1. CASE code # 0
      BY <2>1, <2>3, <3>1 DEF Missing
    <3>2. CASE code = 0
      <4>1. child = "dead"
        <5>1. child # "none" /\ (result < 0 \/ child = "dead")
          BY <2>1, <2>3 DEF RunReturned
        <5>2. CASE result < 0
          <6>1. result # FR!ChildPid
            BY <5>2, SMT DEF FR!ChildPid
          <6> QED BY <2>1, <2>3, <3>2, <5>1, <6>1 DEF FR!ReportInv, FR!Unread
        <5> QED BY <5>1, <5>2
      <4>2. wstatus \in {9, 256} \/ (wstatus = 0 /\ ready)
        BY <2>1, <2>3, <3>2, <4>1 DEF Status
      <4>3. wstatus # 0
        <5>1. CASE result < 0
          <6>1. result # FR!ChildPid
            BY <5>1, SMT DEF FR!ChildPid
          <6>2. ~ready
            BY <2>1, <2>3, <6>1 DEF FR!ReportInv, FR!Unread
          <6>3. 9 # 0 /\ 256 # 0
            BY SMT
          <6> QED BY <4>2, <6>2, <6>3
        <5>2. CASE ~(result < 0)
          BY <2>3, <5>2 DEF RunResult
        <5> QED BY <5>1, <5>2
      <4>4. wstatus \in {9, 256}
        BY <4>2, <4>3
      <4> QED BY <4>4, SMT
    <3> QED BY <3>1, <3>2
  <2> QED BY <2>2, <2>3 DEF ReloadInv
<1> QED BY <1>1, <1>2, CommandSound, ReloadInvNext, PTL DEF Spec

-----------------------------------------------------------------------------
(* What others do *)

\* Invariant: what is the case now was the case at some moment of the command.
WorldInv ==
    /\ mon \in [Services -> States] /\ down \in BOOLEAN /\ gone \in BOOLEAN
    /\ \A s \in Required : mon[s] = "running" => s \in wasup
    /\ mon[Target] = "stopped" => down
    /\ pidf \in {"absent", "zero"} \/ (pidf = "pid" /\ ~alive) => gone

\* Monitors that are told by sysvrun, and the rest.
LEMMA ClientMon == ASSUME Client PROVE mon' = mon \/ PlanB \/ StopOrder
<1> USE DEF Quiet, world
<1>1. ASSUME NEW s \in States \cup {"error"}, Asks(s) PROVE mon' = mon
  BY <1>1 DEF Asks, service_start, StartWait, EndWait, service_stop, StopAwait, monitor_control_stop,
     StopWait, ReloadAsk, service_status
<1>2. ASSUME NEW e, Builds(e) PROVE mon' = mon
  BY <1>2 DEF Builds, StartBuild, PlanA, PlanCBuild, PlanCStart, service_reload, StatusBuild
<1>3. CASE Prerequisite \/ Prerequisites \/ Monitored \/ Run \/ StopRan \/ PlanC \/ PlanCRan \/ ReloadRan
  BY <1>3 DEF Prerequisite, Prerequisites, Monitored, Run, StopRan, PlanC, PlanCRan, ReloadRan
<1>4. ASSUME NEW e, PlanCKill(e) \/ command_rmpid(e) \/ StatusProbe(e) PROVE mon' = mon
  BY <1>4 DEF PlanCKill, command_rmpid, StatusProbe
<1> QED BY <1>1, <1>2, <1>3, <1>4 DEF Client

\* A monitor's state becomes another.
LEMMA MonSet ==
    ASSUME mon \in [Services -> States], NEW s, NEW n \in States, mon' = [mon EXCEPT ![s] = n]
    PROVE  mon' \in [Services -> States]
  OBVIOUS

\* A monitor is always in one of its states.
LEMMA MonStates == ASSUME mon \in [Services -> States], Next PROVE mon' \in [Services -> States]
<1> USE DEF States
<1>1. CASE mon' = mon
  BY <1>1
<1>2. CASE PlanB
  BY <1>2, MonSet DEF PlanB
<1>3. CASE StopOrder
  BY <1>3, MonSet DEF StopOrder
<1>4. CASE MonitorBinds
  BY <1>4, MonSet DEF MonitorBinds
<1>5. CASE MonitorReports
  BY <1>5, MonSet DEF MonitorReports
<1>6. CASE MonitorFails \/ MonitorKilled
  BY <1>6, MonSet DEF MonitorFails, MonitorKilled
<1>7. ASSUME NEW s \in Services, MonitorActs(s) PROVE mon' \in [Services -> States]
  <2>1. mon[s] \in States
    BY SMT
  <2>2. CASE mon[s] = "stopped"
    BY <1>7, <2>2, MonSet DEF MonitorActs
  <2>3. CASE mon[s] = "starting"
    BY <1>7, <2>3, MonSet DEF MonitorActs
  <2>4. CASE mon[s] = "running"
    BY <1>7, <2>4, MonSet DEF MonitorActs
  <2>5. CASE mon[s] = "stopping"
    BY <1>7, <2>5, MonSet DEF MonitorActs
  <2> QED BY <2>1, <2>2, <2>3, <2>4, <2>5
<1>8. CASE Report \/ Exec \/ Program
  BY <1>1, <1>8 DEF Report, Exec, Program, world
<1>9. CASE Others
  BY <1>1, <1>7, <1>9 DEF Others, ProcessActs
<1> QED BY <1>1, <1>2, <1>3, <1>4, <1>5, <1>6, <1>8, <1>9, ClientMon DEF Next, Own, MonitorChild

\* It is kept.
LEMMA WorldInvNext == WorldInv /\ [Next]_vars => WorldInv'
<1> SUFFICES ASSUME WorldInv, [Next]_vars PROVE WorldInv'
  OBVIOUS
<1>1. CASE UNCHANGED vars
  BY <1>1 DEF vars, world, history, client, WorldInv, Required, unit
<1>2. CASE Next
  <2>1. mon' \in [Services -> States]
    BY <1>2, MonStates DEF WorldInv
  <2>2. case' = case
    BY <1>2, Elsewhere DEF Next, Own, Client, client
  <2>3. Required' = Required
    BY <2>2 DEF Required, unit
  <2>4. /\ wasup' = wasup \cup {s \in Required : mon'[s] = "running"}
        /\ down' = (down \/ mon'[Target] = "stopped")
        /\ gone' = (gone \/ pidf' \in {"absent", "zero"} \/ (pidf' = "pid" /\ ~alive'))
    BY <1>2 DEF Next, Witness
  <2>5. down' \in BOOLEAN /\ (mon'[Target] = "stopped" => down')
    BY <2>4
  <2>6. gone' \in BOOLEAN /\ (pidf' \in {"absent", "zero"} \/ (pidf' = "pid" /\ ~alive') => gone')
    BY <2>4
  <2>7. \A s \in Required : mon'[s] = "running" => s \in wasup'
    BY <2>4
  <2> QED BY <2>1, <2>3, <2>5, <2>6, <2>7 DEF WorldInv
<1> QED BY <1>1, <1>2

\* History is not undone.
LEMMA Remembered ==
    ASSUME WorldInv, Next
    PROVE  (down => down') /\ (gone => gone') /\ wasup \subseteq wasup'
  BY DEF Next, Witness

\* It holds at first.
LEMMA WorldStarts == ASSUME Init PROVE WorldInv
<1>1. mon \in [Services -> States]
  BY DEF Init
<1>2. down = (mon[Target] = "stopped") /\ gone = (pidf \in {"absent", "zero"} \/ (pidf = "pid" /\ ~alive))
  BY DEF Init
<1>3. down \in BOOLEAN /\ (mon[Target] = "stopped" => down)
  BY <1>2
<1>4. gone \in BOOLEAN /\ (pidf \in {"absent", "zero"} \/ (pidf = "pid" /\ ~alive) => gone)
  BY <1>2
<1>5. \A s \in Required : mon[s] = "running" => s \in wasup
  BY DEF Init
<1> QED BY <1>1, <1>3, <1>4, <1>5 DEF WorldInv

-----------------------------------------------------------------------------
(* What a stop comes to *)

\* What stop comes to if it reports success.
KillMode == unit[Target].killmode
Accounted ==
    \/ down \/ unit[Target].old
    \/ unit[Target].pidfile = "path" /\ (gone \/ told # "no" \/ KillMode = "none")

\* Plan C up to the signal.
PlanCPcs == {"planC", "buildC", "startC", "runC", "ranC", "kill"}

\* Invariant: what service_stop() takes for a success is one, at each of its plans.
StopInv ==
    /\ Pc = "send" => st # "stopped"
    /\ Pc \in PlanCPcs /\ st = "stopped" => down \/ unit[Target].old
    /\ Pc = "rmpid" /\ st = "stopped" => Accounted
    /\ Pc = "rmpid" /\ pidf = "pid" /\ alive => told # "no" \/ KillMode = "none" \/ self # 0
    /\ verb = "stop" /\ exit = 0 => Accounted

\* Steps that lead elsewhere.
LEMMA StopElsewhere ==
    ASSUME Pc' \notin PlanCPcs \cup {"send", "rmpid"}, verb' = "stop" => exit' # 0
    PROVE  StopInv'
  BY DEF StopInv

\* Outside service_stop() no stop is reported.
LEMMA NotStopping ==
    ASSUME StackInv, Client, Pc \notin StopPcs
    PROVE  verb # "stop" /\ Pc' \notin StopPcs
<1>1. case' = case
  BY DEF Client
<1>2. /\ Pc # "none" /\ Pc' \notin StopPcs
  <2>1. CASE Between
    BY <1>1, <2>1, BetweenFlow DEF Flow
  <2>2. ASSUME NEW e \in {"", "ENOENT", "EINVAL"}, Builds(e) PROVE Pc # "none" /\ Pc' \notin StopPcs
    BY <1>1, <2>2, BuildsFlow DEF BuildFlow
  <2>3. CASE Run
    <3>1. ~At("run") /\ ~At("runC")
      BY AtPc DEF Pcs, StopPcs
    <3>2. At("runR") /\ Goto("ranR")
      BY <2>3, <3>1, RunPlaces
    <3>3. Pc = "runR" /\ Pc' = "ranR"
      BY <1>1, <3>2, Jump DEF Pcs, Kin, ReloadPcs
    <3> QED BY <3>3 DEF StopPcs
  <2>4. CASE Prerequisites /\ ~Top.bad
    <3>1. At("required") /\ Goto("fork")
      BY <2>4 DEF Prerequisites
    <3>2. Pc = "required" /\ Pc' = "fork"
      BY <1>1, <3>1, Jump DEF Pcs, Kin, StartPcs
    <3> QED BY <3>2 DEF StopPcs
  <2> QED BY <2>1, <2>2, <2>3, <2>4, ClientParts
<1>3. verb # "stop"
  <2>1. stack # <<>> /\ Pc = Top.pc
    BY <1>2 DEF Pc
  <2>2. Top \in Frames
    BY <2>1, SMT DEF StackInv, Top
  <2>3. Top.pc \in Pcs
    BY <2>2, SMT DEF Frames
  <2> QED BY <2>1, <2>3 DEF StackInv, Fits, Pcs
<1> QED BY <1>2, <1>3

\* What service_stop() does.
LEMMA StopOnly ==
    ASSUME StackInv, Client, Pc \in StopPcs
    PROVE  \/ \E s \in States \cup {"error"} : service_stop(s) \/ StopAwait(s) \/ monitor_control_stop(s) \/ StopWait(s)
           \/ \E e \in {"", "ENOENT", "EINVAL"} : PlanA(e) \/ PlanCBuild(e) \/ PlanCStart(e)
           \/ (At("run") /\ Goto("ran") /\ Run) \/ (At("runC") /\ Goto("ranC") /\ Run)
           \/ StopRan \/ PlanB \/ StopOrder \/ PlanC \/ PlanCRan
           \/ \E e \in Errnos : PlanCKill(e) \/ command_rmpid(e)
<1>1. ASSUME NEW p \in StartPcs \cup ReloadPcs \cup StatusPcs, At(p) PROVE FALSE
  <2>1. Pc = p
    BY <1>1 DEF At, Pc
  <2> QED BY <2>1 DEF StartPcs, StopPcs, ReloadPcs, StatusPcs
<1>2. ~At("start") /\ ~At("up") /\ ~At("ending") /\ ~At("build") /\ ~At("required") /\ ~At("fork")
  BY <1>1 DEF StartPcs
<1>3. ~At("reload") /\ ~At("askR") /\ ~At("runR") /\ ~At("ranR")
  BY <1>1 DEF ReloadPcs
<1>4. ~At("status") /\ ~At("buildS") /\ ~At("probe")
  BY <1>1 DEF StatusPcs
<1>5. ASSUME NEW s \in States \cup {"error"}, Asks(s)
      PROVE  service_stop(s) \/ StopAwait(s) \/ monitor_control_stop(s) \/ StopWait(s)
  BY <1>2, <1>3, <1>4, <1>5 DEF Asks, service_start, StartWait, EndWait, ReloadAsk, service_status
<1>6. ASSUME NEW e \in {"", "ENOENT", "EINVAL"}, Builds(e) PROVE PlanA(e) \/ PlanCBuild(e) \/ PlanCStart(e)
  BY <1>2, <1>3, <1>4, <1>6 DEF Builds, StartBuild, service_reload, StatusBuild
<1>7. ~Prerequisite /\ ~Prerequisites /\ ~Monitored /\ ~ReloadRan
  BY <1>2, <1>3 DEF Prerequisite, Prerequisites, Monitored, ReloadRan
<1>8. ASSUME NEW e \in Errnos PROVE ~StatusProbe(e)
  BY <1>4 DEF StatusProbe
<1>9. Run => (At("run") /\ Goto("ran")) \/ (At("runC") /\ Goto("ranC"))
  BY <1>3, RunPlaces
<1> QED BY <1>5, <1>6, <1>7, <1>8, <1>9 DEF Client

\* Within plan C.
LEMMA PlanCGoes ==
    ASSUME StopInv, WorldInv, Next, case' = case, Pc \in PlanCPcs, Pc' \in PlanCPcs, st' = st,
           verb = "stop" => exit' # 0
    PROVE  StopInv'
<1>1. verb' = verb /\ unit' = unit /\ (down => down')
  BY Remembered DEF verb, unit
<1>2. st' = "stopped" => down' \/ unit'[Target].old
  BY <1>1 DEF StopInv
<1>3. Pc' # "send" /\ Pc' # "rmpid"
  BY DEF PlanCPcs
<1> QED BY <1>1, <1>2, <1>3 DEF StopInv

\* Into plan C.
LEMMA PlanCEntered ==
    ASSUME case' = case, Pc' = "planC", st' = "stopped" => down' \/ unit[Target].old, verb = "stop" => exit' # 0
    PROVE  StopInv'
<1>1. verb' = verb /\ unit' = unit
  BY DEF verb, unit
<1>2. Pc' # "send" /\ Pc' # "rmpid"
  OBVIOUS
<1> QED BY <1>1, <1>2 DEF StopInv

\* service_stop() reports a success.
LEMMA StopReported ==
    ASSUME StackInv, case' = case, NEW p \in StopPcs, At(p), NEW res, NEW e, StopReturns(res, e),
           res = 0 => Accounted'
    PROVE  StopInv'
<1>1. Pc' \notin PlanCPcs \cup {"send", "rmpid"}
  <2>1. Pc' \in {"none", "start"}
    BY StopLeave
  <2> QED BY <2>1 DEF PlanCPcs
<1>2. verb' = verb
  BY DEF verb
<1>3. verb = "stop" => exit' = res
  BY StopLeave
<1> QED BY <1>1, <1>2, <1>3 DEF StopInv

\* A monitor that is gone.
LEMMA FoundDown ==
    ASSUME StackInv, WorldInv, Next, NEW p \in StopPcs, At(p), NEW s, s \in Answers, s = "stopped"
    PROVE  down /\ down'
<1>1. Top.svc = Target
  BY OfTarget
<1>2. mon[Target] = "stopped"
  BY <1>1 DEF Answers
<1> QED BY <1>2, Remembered DEF WorldInv

\* A jump reports nothing.
LEMMA NoneReported == ASSUME StackInv, stack # <<>>, NEW q, Goto(q) PROVE exit' # 0
<1>1. Pending # 0
  BY SMT DEF Pending
<1> QED BY <1>1 DEF Goto, StackInv

\* The signal of plan C.
LEMMA KillStop ==
    ASSUME StackInv, RunInv, WorldInv, StopInv, Next, case' = case, self' = self, NEW e \in Errnos, PlanCKill(e)
    PROVE  StopInv'
<1>1. At("kill") /\ Goto("rmpid") /\ pidf' = pidf /\ alive' = alive
  BY DEF PlanCKill
<1>2. Pc = "kill" /\ Pc' = "rmpid" /\ stack # <<>> /\ Top.svc = Target
  BY <1>1, Jump, OfTarget DEF Pcs, Kin, StopPcs
<1>3. U.killmode = KillMode /\ unit' = unit /\ verb' = verb /\ KillMode' = KillMode /\ exit' # 0
  BY <1>1, <1>2, NoneReported DEF U, KillMode, unit, verb
<1>4. cmd.pidfile = "path" /\ unit[Target].pidfile = "path"
  BY <1>2 DEF RunInv, WithFile
<1>5. (down => down') /\ (gone => gone')
  BY Remembered
<1>6. /\ st' = (IF e \in {"", "ENOENT", "ESRCH"} THEN "stopped" ELSE st)
      /\ KillMode # "none" => command_kill(pidf, alive, e) /\ told' = (IF e = "" THEN "sent" ELSE told)
  BY <1>3 DEF PlanCKill
<1>7. ASSUME KillMode # "none" PROVE \/ pidf \in {"absent", "zero"}
                                     \/ pidf = "pid" /\ ~alive
                                     \/ e \in {"", "EINVAL"}
                                     \/ e = "EPERM" /\ self # 0
  BY <1>4, <1>6, <1>7 DEF command_kill
<1>8. st' = "stopped" => Accounted'
  <2>1. CASE KillMode = "none"
    BY <1>3, <1>4, <2>1 DEF Accounted
  <2>2. CASE KillMode # "none" /\ pidf \in {"absent", "zero"}
    <3>1. gone'
      BY <1>5, <2>2 DEF WorldInv
    <3> QED BY <1>3, <1>4, <3>1 DEF Accounted
  <2>3. CASE KillMode # "none" /\ pidf = "pid" /\ ~alive
    <3>1. gone'
      BY <1>5, <2>3 DEF WorldInv
    <3> QED BY <1>3, <1>4, <3>1 DEF Accounted
  <2>4. CASE KillMode # "none" /\ e = ""
    <3>1. told' # "no"
      BY <1>6, <2>4
    <3> QED BY <1>3, <1>4, <3>1 DEF Accounted
  <2>5. CASE e \in {"EINVAL", "EPERM"}
    <3>1. st' = st
      BY <1>6, <2>5
    <3>2. st = "stopped" => down' \/ unit'[Target].old
      BY <1>2, <1>3, <1>5 DEF StopInv, PlanCPcs
    <3> QED BY <3>1, <3>2 DEF Accounted
  <2> QED BY <1>7, <2>1, <2>2, <2>3, <2>4, <2>5
<1>9. pidf' = "pid" /\ alive' => told' # "no" \/ KillMode' = "none" \/ self' # 0
  <2>1. SUFFICES ASSUME pidf = "pid", alive, KillMode # "none", self = 0 PROVE told' # "no"
    BY <1>1, <1>3
  <2>2. e = ""
    BY <1>4, <1>6, <2>1 DEF command_kill
  <2> QED BY <1>6, <2>1, <2>2
<1>10. Pc' # "send" /\ Pc' \notin PlanCPcs
  BY <1>2 DEF PlanCPcs
<1> QED BY <1>3, <1>8, <1>9, <1>10 DEF StopInv

\* Steps of sysvrun.
LEMMA ClientStop ==
    ASSUME StackInv, RunInv, WorldInv, StopInv, Next, Client
    PROVE  StopInv'
<1>0. case' = case /\ self' = self /\ verb' = verb /\ unit' = unit
  BY DEF Client, verb, unit
<1>00. 1 # 0
  BY SMT
<1>1. CASE Pc \notin StopPcs
  <2>1. verb # "stop" /\ Pc' \notin StopPcs
    BY <1>1, NotStopping
  <2>2. Pc' \notin PlanCPcs \cup {"send", "rmpid"}
    BY <2>1 DEF StopPcs, PlanCPcs
  <2> QED BY <1>0, <2>1, <2>2, StopElsewhere
<1>2. ASSUME NEW p \in StopPcs, At(p), NEW q \in StopPcs, Goto(q) PROVE Pc = p /\ Pc' = q /\ exit' # 0 /\ stack # <<>>
  <2>1. p \in Pcs /\ q \in Pcs /\ Kin(p, q)
    BY <1>2 DEF Pcs, Kin
  <2>2. Pc = p /\ Pc' = q /\ stack # <<>>
    BY <1>0, <1>2, <2>1, Jump
  <2> QED BY <1>2, <2>2, NoneReported
<1> USE DEF StopPcs
<1>3. ASSUME NEW p \in StopPcs, At(p), NEW q \in {"planA", "ran", "await", "planB", "ask", "wait", "run"}, Goto(q)
      PROVE  StopInv'
  <2>1. q \in StopPcs /\ q \notin PlanCPcs \cup {"send", "rmpid"}
    BY <1>3 DEF PlanCPcs
  <2> HIDE DEF StopPcs
  <2>2. Pc' = q /\ exit' # 0
    BY <1>2, <1>3, <2>1
  <2> QED BY <2>1, <2>2, StopElsewhere
<1>4. ASSUME NEW s \in States \cup {"error"}, service_stop(s) PROVE StopInv'
  <2>1. At("stop") /\ s \in Answers /\ (Goto("planA") \/ (s = "stopped" /\ StopReturns(0, "")))
    BY <1>4 DEF service_stop
  <2>2. s = "stopped" => Accounted'
    BY <2>1, FoundDown DEF Accounted
  <2>3. CASE Goto("planA")
    BY <1>3, <2>1, <2>3
  <2>4. CASE s = "stopped" /\ StopReturns(0, "")
    BY <1>0, <2>1, <2>2, <2>4, StopReported
  <2> QED BY <2>1, <2>3, <2>4
<1>5. ASSUME NEW s \in States \cup {"error"}, StopAwait(s) PROVE StopInv'
  <2>1. /\ At("await") /\ s \in Answers
        /\ Goto("planB") \/ (s = "stopped" /\ StopReturns(0, "")) \/ StopReturns(1, "EPERM")
    BY <1>5 DEF StopAwait
  <2>2. s = "stopped" => Accounted'
    BY <2>1, FoundDown DEF Accounted
  <2>3. CASE Goto("planB")
    BY <1>3, <2>1, <2>3
  <2>4. CASE s = "stopped" /\ StopReturns(0, "")
    BY <1>0, <2>1, <2>2, <2>4, StopReported
  <2>5. CASE StopReturns(1, "EPERM")
    BY <1>0, <1>00, <2>1, <2>5, StopReported
  <2> QED BY <2>1, <2>3, <2>4, <2>5
<1>6. ASSUME NEW s \in States \cup {"error"}, monitor_control_stop(s) PROVE StopInv'
  <2>1. /\ At("ask") /\ s \in Answers /\ st' = s
        /\ Goto("planC") \/ Goto("wait") \/ (Goto("send") /\ s # "stopped")
    BY <1>6 DEF monitor_control_stop
  <2>2. s = "stopped" => down'
    BY <2>1, FoundDown
  <2>3. CASE Goto("planC")
    <3>1. Pc' = "planC" /\ exit' # 0
      BY <1>2, <2>1, <2>3
    <3> QED BY <1>0, <2>1, <2>2, <3>1, PlanCEntered
  <2>4. CASE Goto("wait")
    BY <1>3, <2>1, <2>4
  <2>5. CASE Goto("send") /\ s # "stopped"
    <3>1. Pc' = "send" /\ exit' # 0
      BY <1>2, <2>1, <2>5
    <3>2. Pc' \notin PlanCPcs /\ Pc' # "rmpid"
      BY <3>1 DEF PlanCPcs
    <3> QED BY <2>1, <2>5, <3>1, <3>2 DEF StopInv
  <2> QED BY <2>1, <2>3, <2>4, <2>5
<1>7. ASSUME NEW s \in States \cup {"error"}, StopWait(s) PROVE StopInv'
  <2>1. At("wait") /\ s \in Answers /\ st' = (IF s = "stopped" THEN s ELSE "error") /\ Goto("planC")
    BY <1>7 DEF StopWait
  <2>2. st' = "stopped" => down'
    BY <2>1, FoundDown
  <2>3. Pc' = "planC" /\ exit' # 0
    BY <1>2, <2>1
  <2> QED BY <1>0, <2>2, <2>3, PlanCEntered
<1>8. ASSUME NEW e \in {"", "ENOENT", "EINVAL"}, PlanA(e) PROVE StopInv'
  <2>1. At("planA") /\ (Goto("planB") \/ StopReturns(1, e) \/ Goto("run"))
    BY <1>8 DEF PlanA
  <2>2. CASE Goto("planB") \/ Goto("run")
    BY <1>3, <2>1, <2>2
  <2>3. CASE StopReturns(1, e)
    BY <1>0, <1>00, <2>1, <2>3, StopReported
  <2> QED BY <2>1, <2>2, <2>3
<1>9. ASSUME NEW e \in {"", "ENOENT", "EINVAL"}, PlanCBuild(e) PROVE StopInv'
  <2>1. At("buildC") /\ (Goto("runC") \/ Goto("startC")) /\ st' = st
    BY <1>9 DEF PlanCBuild, Quiet
  <2>2. Pc = "buildC" /\ Pc' \in {"runC", "startC"} /\ exit' # 0
    BY <1>2, <2>1
  <2> QED BY <1>0, <2>1, <2>2, PlanCGoes DEF PlanCPcs
<1>10. ASSUME NEW e \in {"", "ENOENT", "EINVAL"}, PlanCStart(e) PROVE StopInv'
  <2>1. At("startC") /\ (Goto("kill") \/ StopReturns(1, e)) /\ st' = st
    BY <1>10 DEF PlanCStart, Quiet
  <2>2. CASE Goto("kill")
    <3>1. Pc = "startC" /\ Pc' = "kill" /\ exit' # 0
      BY <1>2, <2>1, <2>2
    <3> QED BY <1>0, <2>1, <3>1, PlanCGoes DEF PlanCPcs
  <2>3. CASE StopReturns(1, e)
    BY <1>0, <1>00, <2>1, <2>3, StopReported
  <2> QED BY <2>1, <2>2, <2>3
<1>11. CASE At("run") /\ Goto("ran") /\ Run
  BY <1>3, <1>11
<1>12. CASE At("runC") /\ Goto("ranC") /\ Run
  <2>1. Pc = "runC" /\ Pc' = "ranC" /\ exit' # 0 /\ st' = st
    BY <1>2, <1>12 DEF Run, Quiet
  <2> QED BY <1>0, <2>1, PlanCGoes DEF PlanCPcs
<1>13. CASE StopRan
  BY <1>3, <1>13 DEF StopRan
<1>14. CASE PlanB
  <2>1. At("planB") /\ ((U.old /\ st' = "stopped" /\ Goto("planC")) \/ Goto("ask"))
    BY <1>14 DEF PlanB
  <2>2. CASE Goto("ask")
    BY <1>3, <2>1, <2>2
  <2>3. CASE U.old /\ Goto("planC")
    <3>1. Pc' = "planC" /\ exit' # 0
      BY <1>2, <2>1, <2>3
    <3>2. unit[Target].old
      BY <2>1, <2>3, OfTarget DEF U
    <3> QED BY <1>0, <3>1, <3>2, PlanCEntered
  <2> QED BY <2>1, <2>2, <2>3
<1>15. CASE StopOrder
  <2>1. At("send") /\ (Goto("wait") \/ (Goto("planC") /\ st' \in {st, "error"}))
    BY <1>15 DEF StopOrder
  <2>2. CASE Goto("wait")
    BY <1>3, <2>1, <2>2
  <2>3. CASE Goto("planC") /\ st' \in {st, "error"}
    <3>1. Pc = "send" /\ Pc' = "planC" /\ exit' # 0
      BY <1>2, <2>1, <2>3
    <3>2. st' # "stopped"
      BY <2>3, <3>1 DEF StopInv
    <3> QED BY <1>0, <3>1, <3>2, PlanCEntered
  <2> QED BY <2>1, <2>2, <2>3
<1>16. CASE PlanC
  <2>1. At("planC") /\ (StopReturns(IF st = "stopped" THEN 0 ELSE 1, "ENOENT") \/ Goto("buildC")) /\ st' = st
    BY <1>16 DEF PlanC, Quiet
  <2>2. CASE Goto("buildC")
    <3>1. Pc = "planC" /\ Pc' = "buildC" /\ exit' # 0
      BY <1>2, <2>1, <2>2
    <3> QED BY <1>0, <2>1, <3>1, PlanCGoes DEF PlanCPcs
  <2>3. CASE StopReturns(IF st = "stopped" THEN 0 ELSE 1, "ENOENT")
    <3> DEFINE r == IF st = "stopped" THEN 0 ELSE 1
    <3>1. r = 0 => st = "stopped"
      BY SMT
    <3>2. Pc = "planC"
      BY <2>1, AtPc DEF Pcs
    <3>3. r = 0 => Accounted'
      BY <1>0, <3>1, <3>2, Remembered DEF StopInv, PlanCPcs, Accounted
    <3>4. StopReturns(r, "ENOENT")
      BY <2>3
    <3> HIDE DEF r
    <3> QED BY <1>0, <2>1, <3>3, <3>4, StopReported
  <2> QED BY <2>1, <2>2, <2>3
<1>17. CASE PlanCRan
  <2>1. At("ranC") /\ Goto("kill") /\ st' = st
    BY <1>17 DEF PlanCRan, Quiet
  <2>2. Pc = "ranC" /\ Pc' = "kill" /\ exit' # 0
    BY <1>2, <2>1
  <2> QED BY <1>0, <2>1, <2>2, PlanCGoes DEF PlanCPcs
<1>18. ASSUME NEW e \in Errnos, command_rmpid(e) PROVE StopInv'
  <2> DEFINE r == IF st = "stopped" THEN 0 ELSE 1
  <2>1. At("rmpid") /\ StopReturns(r, e) /\ told' = told
    BY <1>18 DEF command_rmpid
  <2>2. r = 0 => st = "stopped"
    BY SMTT(30)
  <2>3. Pc = "rmpid"
    BY <2>1, AtPc DEF Pcs
  <2>4. r = 0 => Accounted'
    <3>1. st = "stopped" => Accounted
      BY <2>3 DEF StopInv
    <3>2. KillMode' = KillMode
      BY <1>0 DEF KillMode
    <3>3. Accounted => Accounted'
      BY <1>0, <2>1, <3>2, Remembered DEF Accounted
    <3> QED BY <2>2, <3>1, <3>3
  <2> HIDE DEF r
  <2> QED BY <1>0, <2>1, <2>4, StopReported
<1> QED BY <1>0, <1>1, <1>4, <1>5, <1>6, <1>7, <1>8, <1>9, <1>10, <1>11, <1>12, <1>13, <1>14, <1>15, <1>16,
           <1>17, <1>18, StopOnly, KillStop

\* The PID file and its process, in the steps that are not sysvrun's.
LEMMA FileElsewhere ==
    ASSUME Report \/ Exec \/ MonitorChild \/ Program \/ Others
    PROVE  \/ UNCHANGED <<pidf, alive, told>>
           \/ stack # <<>> /\ told' = told /\ pidf' = pidf /\ alive' = FALSE
           \/ stack # <<>> /\ pidf' = "pid" /\ told' = (IF At("rmpid") THEN "new" ELSE "no")
<1>1. CASE Report \/ Exec \/ Program
  BY <1>1 DEF Report, Exec, Program, world
<1>2. CASE MonitorChild
  BY <1>2 DEF MonitorChild, MonitorBinds, MonitorReports, MonitorFails, MonitorKilled
<1>3. CASE Others
  BY <1>3 DEF Others, MonitorActs, ProcessActs
<1> QED BY <1>1, <1>2, <1>3

\* Steps of the processes that are forked, and of others.
LEMMA OthersStop ==
    ASSUME StackInv, WorldInv, StopInv, Next, Report \/ Exec \/ MonitorChild \/ Program \/ Others
    PROVE  StopInv'
<1>1. case' = case /\ stack' = stack /\ st' = st /\ exit' = exit /\ self' = self
  BY Elsewhere DEF client
<1>2. Pc' = Pc /\ verb' = verb /\ unit' = unit /\ KillMode' = KillMode
  BY <1>1 DEF Pc, Top, verb, unit, KillMode
<1>3. (down => down') /\ (gone => gone')
  BY Remembered
<1>4. Pc = "rmpid" => At("rmpid")
  BY DEF At, Pc
<1>5. stack # <<>> => exit # 0
  <2>1. Pending # 0
    BY SMT DEF Pending
  <2> QED BY <2>1 DEF StackInv
<1>6. CASE UNCHANGED <<pidf, alive, told>>
  <2>1. Accounted => Accounted'
    BY <1>2, <1>3, <1>6 DEF Accounted
  <2> QED BY <1>1, <1>2, <1>3, <1>6, <2>1 DEF StopInv
<1>7. CASE stack # <<>> /\ told' = told /\ pidf' = pidf /\ alive' = FALSE
  <2>1. Accounted => Accounted'
    BY <1>2, <1>3, <1>7 DEF Accounted
  <2> QED BY <1>1, <1>2, <1>3, <1>7, <2>1 DEF StopInv
<1>8. CASE stack # <<>> /\ pidf' = "pid" /\ told' = (IF At("rmpid") THEN "new" ELSE "no")
  <2>1. Pc = "rmpid" => told' # "no"
    BY <1>4, <1>8
  <2>2. Pc = "rmpid" /\ Accounted => Accounted'
    BY <1>2, <1>3, <2>1 DEF Accounted
  <2> QED BY <1>1, <1>2, <1>3, <1>5, <1>8, <2>1, <2>2 DEF StopInv
<1> QED BY <1>6, <1>7, <1>8, FileElsewhere

\* It is kept.
LEMMA StopInvNext == CommandInv /\ WorldInv /\ StopInv /\ [Next]_vars => StopInv'
<1> SUFFICES ASSUME CommandInv, WorldInv, StopInv, [Next]_vars PROVE StopInv'
  OBVIOUS
<1>1. CASE UNCHANGED vars
  <2>1. UNCHANGED <<case, stack, st, exit, self, pidf, alive, told, down, gone>>
    BY <1>1 DEF vars, client, world, history
  <2>2. Pc' = Pc /\ verb' = verb /\ unit' = unit /\ KillMode' = KillMode
    BY <2>1 DEF Pc, Top, verb, unit, KillMode
  <2>3. (down => down') /\ (gone => gone')
    BY <2>1 DEF WorldInv
  <2>4. Accounted => Accounted'
    BY <2>1, <2>2, <2>3 DEF Accounted
  <2> QED BY <2>1, <2>2, <2>3, <2>4 DEF StopInv
<1>2. CASE Next /\ Client
  BY <1>2, ClientStop DEF CommandInv
<1>3. CASE Next /\ (Report \/ Exec \/ MonitorChild \/ Program \/ Others)
  BY <1>3, OthersStop DEF CommandInv
<1> QED BY <1>1, <1>2, <1>3 DEF Next, Own

\* Where a command begins.
LEMMA FirstPc == ASSUME Init PROVE Pc \in {"start", "stop", "reload", "status"}
<1>1. stack # <<>> /\ Top.pc = IF verb = "restart" THEN "stop" ELSE verb
  <2>1. stack = <<Frame(Target, IF verb = "restart" THEN "stop" ELSE verb)>>
    BY DEF Init
  <2>2. Top = Frame(Target, IF verb = "restart" THEN "stop" ELSE verb) /\ stack # <<>>
    BY <2>1, SMT DEF Top
  <2> QED BY <2>2, SMT DEF Frame
<1>2. verb \in {"start", "stop", "restart", "reload", "status"}
  BY ServiceAssumption DEF Init, verb
<1> QED BY <1>1, <1>2 DEF Pc

\* It holds at first.
LEMMA StopStarts == ASSUME Init PROVE StopInv
<1>1. Pc \in {"start", "stop", "reload", "status"}
  BY FirstPc
<1>2. exit # 0
  <2>1. Pending # 0
    BY SMT DEF Pending
  <2> QED BY <2>1 DEF Init
<1> QED BY <1>1, <1>2 DEF StopInv, PlanCPcs

\* If stop reports success, the monitor was gone at some moment, or was an old one that was
\* signalled, or else plan C was carried out.
THEOREM StopIsAccounted == Spec => []StopAccounted
<1>1. Init => WorldInv /\ StopInv
  BY WorldStarts, StopStarts
<1>2. StopInv => StopAccounted
  BY DEF StopInv, StopAccounted, Accounted, KillMode
<1> QED BY <1>1, <1>2, CommandSound, WorldInvNext, StopInvNext, PTL DEF Spec

\* Only command_rmpid() removes the PID file.
LEMMA OnlyRemoved == ASSUME Next, pidf # "absent", pidf' = "absent" PROVE At("rmpid") /\ self' = self
<1>1. CASE Client
  <2> USE DEF Quiet, world
  <2>1. ASSUME NEW s \in States \cup {"error"}, Asks(s) PROVE pidf' = pidf
    BY <2>1 DEF Asks, service_start, StartWait, EndWait, service_stop, StopAwait, monitor_control_stop,
       StopWait, ReloadAsk, service_status
  <2>2. ASSUME NEW e, Builds(e) PROVE pidf' = pidf
    BY <2>2 DEF Builds, StartBuild, PlanA, PlanCBuild, PlanCStart, service_reload, StatusBuild
  <2>3. ASSUME Prerequisite \/ Prerequisites \/ Monitored \/ Run \/ StopRan \/ PlanB \/ StopOrder \/ PlanC
               \/ PlanCRan \/ ReloadRan
        PROVE  pidf' = pidf
    BY <2>3 DEF Prerequisite, Prerequisites, Monitored, Run, StopRan, PlanB, StopOrder, PlanC, PlanCRan, ReloadRan
  <2>4. ASSUME NEW e, PlanCKill(e) \/ StatusProbe(e) PROVE pidf' = pidf
    BY <2>4 DEF PlanCKill, StatusProbe
  <2>5. ASSUME NEW e, command_rmpid(e) PROVE At("rmpid")
    BY <2>5 DEF command_rmpid
  <2> QED BY <1>1, <2>1, <2>2, <2>3, <2>4, <2>5 DEF Client
<1>2. CASE Report \/ Exec \/ MonitorChild \/ Program \/ Others
  BY <1>2, FileElsewhere
<1> QED BY <1>1, <1>2 DEF Next, Own, Client

\* The PID file of a live process is removed only after the process was sent SIGTERM, unless
\* the unit or the kernel forbids that, or the process came after the signal.
THEOREM PidFileIsKept == Spec => PidFileKept
<1>1. Init => WorldInv /\ StopInv
  BY WorldStarts, StopStarts
<1>2. StopInv /\ [Next]_vars =>
        [(pidf = "pid" /\ alive /\ pidf' = "absent") => told # "no" \/ unit[Target].killmode = "none" \/ self # 0]_vars
  <2> SUFFICES ASSUME StopInv, Next, pidf = "pid", alive, pidf' = "absent"
               PROVE  told # "no" \/ unit[Target].killmode = "none" \/ self # 0
    BY DEF vars, world
  <2>1. At("rmpid")
    BY OnlyRemoved
  <2>2. Pc = "rmpid"
    BY <2>1 DEF At, Pc
  <2> QED BY <2>2 DEF StopInv, KillMode
<1> QED BY <1>1, <1>2, CommandSound, WorldInvNext, StopInvNext, PTL DEF Spec, PidFileKept

-----------------------------------------------------------------------------
(* What a service requires *)

\* What an activation has asked for was up at some moment, or it knows better.
Met(u, f, w) == ~f.bad => \A j \in 1 .. f.next - 1 : u[f.svc].requires[j] \in w

\* What the report pipe says of the monitor that is being forked.
Vouched ==
    /\ Pc = "fork" /\ ready /\ Top.svc \in Required => Top.svc \in wasup
    /\ Pc = "fork" /\ ~ready /\ child = "dead" /\ code = 0 =>
         (parent \in {"fork", "reap", "first"} /\ pipe = <<>>) \/ (parent = "done" /\ result < 0)

\* Invariant: as long as nothing unforeseen happens, each activation of service_start()
\* has seen the services running that it has started.
GroundInv == ~fault => (\A i \in 1 .. Len(stack) : Met(unit, stack[i], wasup)) /\ Vouched

\* A service is found running, or its monitor has been forked.
Up == mon[Top.svc] = "running" \/ (Pc = "fork" /\ parent = "done" /\ ~(result < 0))

\* What sysvrun does to its stack.
Moves ==
    \/ \E q : Goto(q)
    \/ \E r : stack' = Append(stack, Frame(r, "start"))
    \/ \E res : Return(res) /\ (res = 0 /\ Len(stack) > 1 => Up)

\* A function that is not service_start() has the only activation.
LEMMA AloneMoves ==
    ASSUME StackInv, NEW p \in StopPcs \cup ReloadPcs \cup StatusPcs, At(p),
           (\E q : Goto(q)) \/ (\E res : Return(res))
    PROVE  Moves
  BY OfTarget DEF Moves

\* Where command_run() is called from.
LEMMA RunGoes ==
    ASSUME StackInv, UNCHANGED case, Run
    PROVE  Pc \in {"run", "runC", "runR"} /\ Pc' \in {"ran", "ranC", "ranR"}
<1> USE DEF Pcs, Kin, StopPcs, ReloadPcs
<1>1. CASE At("run") /\ Goto("ran")
  BY <1>1, Jump
<1>2. CASE At("runC") /\ Goto("ranC")
  BY <1>2, Jump
<1>3. CASE At("runR") /\ Goto("ranR")
  BY <1>3, Jump
<1> QED BY <1>1, <1>2, <1>3, RunPlaces

\* What df_parent() returns is a number.
LEMMA ResultInt == ASSUME RunInv, Pc = "fork", parent = "done" PROVE result \in Int
<1>1. FR!ReportInv
  BY DEF RunInv
<1>2. \/ result = FR!ChildPid
      \/ result = -FR!Abs(code)
      \/ result = -FR!EXIT_FAILURE
  BY <1>1 DEF FR!ReportInv, FR!Unread
<1>3. code \in Codes \cup {0}
  BY <1>1 DEF FR!ReportInv
<1> QED BY <1>2, <1>3, CodesAssumption, SMTT(30) DEF FR!ChildPid, FR!Abs, FR!EXIT_FAILURE

\* All steps of sysvrun.
LEMMA ClientMoves == ASSUME StackInv, RunInv, Client PROVE Moves
<1>0. 1 # 0
  BY SMT
<1>1. ASSUME NEW s \in States \cup {"error"}, Asks(s) PROVE Moves
  <2>1. CASE service_start(s)
    <3>1. (\E q : Goto(q)) \/ (s = "running" /\ Return(0))
      BY <2>1 DEF service_start, States
    <3>2. s \in {mon[Top.svc], "error"}
      BY <2>1 DEF service_start, Answers
    <3> QED BY <3>1, <3>2 DEF Moves, Up
  <2>2. CASE StartWait(s)
    <3>1. (\E q : Goto(q)) \/ (s = "running" /\ Return(0)) \/ Return(1)
      BY <2>2 DEF StartWait, States
    <3>2. s \in {mon[Top.svc], "error"}
      BY <2>2 DEF StartWait, Answers
    <3> QED BY <1>0, <3>1, <3>2 DEF Moves, Up
  <2>3. CASE EndWait(s)
    <3>1. (\E q : Goto(q)) \/ Return(1)
      BY <2>3 DEF EndWait
    <3> QED BY <1>0, <3>1 DEF Moves
  <2>4. CASE service_stop(s)
    <3>1. At("stop") /\ ((\E q : Goto(q)) \/ (\E res : Return(res)))
      BY <2>4 DEF service_stop, StopReturns
    <3> QED BY <3>1, AloneMoves DEF StopPcs
  <2>5. CASE StopAwait(s)
    <3>1. At("await") /\ ((\E q : Goto(q)) \/ (\E res : Return(res)))
      BY <2>5 DEF StopAwait, StopReturns
    <3> QED BY <3>1, AloneMoves DEF StopPcs
  <2>6. CASE monitor_control_stop(s) \/ StopWait(s)
    BY <2>6 DEF monitor_control_stop, StopWait, Moves
  <2>7. CASE ReloadAsk(s)
    <3>1. At("askR") /\ ((\E q : Goto(q)) \/ (\E res : Return(res)))
      BY <2>7 DEF ReloadAsk, States
    <3> QED BY <3>1, AloneMoves DEF ReloadPcs
  <2>8. CASE service_status(s)
    <3>1. At("status") /\ ((\E q : Goto(q)) \/ (\E res : Return(res)))
      BY <2>8 DEF service_status
    <3> QED BY <3>1, AloneMoves DEF StatusPcs
  <2> QED BY <1>1, <2>1, <2>2, <2>3, <2>4, <2>5, <2>6, <2>7, <2>8 DEF Asks
<1>2. ASSUME NEW e \in {"", "ENOENT", "EINVAL"}, Builds(e) PROVE Moves
  <2>1. CASE StartBuild(e)
    <3>1. (\E q : Goto(q)) \/ Return(1)
      BY <2>1 DEF StartBuild
    <3> QED BY <1>0, <3>1 DEF Moves
  <2>2. CASE PlanA(e)
    <3>1. At("planA") /\ ((\E q : Goto(q)) \/ (\E res : Return(res)))
      BY <2>2 DEF PlanA, StopReturns
    <3> QED BY <3>1, AloneMoves DEF StopPcs
  <2>3. CASE PlanCBuild(e)
    <3>1. Goto("runC") \/ Goto("startC")
      BY <2>3 DEF PlanCBuild
    <3> QED BY <3>1 DEF Moves
  <2>4. CASE PlanCStart(e)
    <3>1. At("startC") /\ ((\E q : Goto(q)) \/ (\E res : Return(res)))
      BY <2>4 DEF PlanCStart, StopReturns
    <3> QED BY <3>1, AloneMoves DEF StopPcs
  <2>5. CASE service_reload(e)
    <3>1. At("reload") /\ ((\E q : Goto(q)) \/ (\E res : Return(res)))
      BY <2>5 DEF service_reload
    <3> QED BY <3>1, AloneMoves DEF ReloadPcs
  <2>6. CASE StatusBuild(e)
    <3>1. At("buildS") /\ ((\E q : Goto(q)) \/ (\E res : Return(res)))
      BY <2>6 DEF StatusBuild
    <3> QED BY <3>1, AloneMoves DEF StatusPcs
  <2> QED BY <1>2, <2>1, <2>2, <2>3, <2>4, <2>5, <2>6 DEF Builds
<1>3. CASE Prerequisite
  <2>1. Return(1) \/ \E r : stack' = Append(stack, Frame(r, "start"))
    BY <1>3 DEF Prerequisite
  <2> QED BY <1>0, <2>1 DEF Moves
<1>4. CASE Prerequisites
  <2>1. Return(1) \/ Goto("fork")
    BY <1>4 DEF Prerequisites
  <2>2. CASE Return(1)
    BY <1>0, <2>2 DEF Moves
  <2>3. CASE Goto("fork")
    BY <2>3 DEF Moves
  <2> QED BY <2>1, <2>2, <2>3
<1>5. CASE Monitored
  <2> DEFINE r == IF result < 0 THEN -result ELSE 0
  <2>1. At("fork") /\ parent = "done" /\ Return(r)
    BY <1>5 DEF Monitored
  <2>2. CASE ~(result < 0)
    BY <2>1, <2>2, AtPc DEF Moves, Up, Pcs, StartPcs
  <2>3. CASE result < 0
    <3>1. result \in Int => r # 0
      BY <2>3, SMT
    <3>2. result \in Int
      BY <2>1, AtPc, ResultInt DEF Pcs, StartPcs
    <3> HIDE DEF r
    <3> QED BY <2>1, <3>1, <3>2 DEF Moves
  <2> QED BY <2>2, <2>3
<1>6. CASE Run
  BY <1>6, RunPlaces DEF Moves
<1>7. CASE StopRan \/ PlanB \/ StopOrder \/ PlanCRan
  BY <1>7 DEF StopRan, PlanB, StopOrder, PlanCRan, Moves
<1>8. CASE PlanC
  <2>1. At("planC") /\ ((\E q : Goto(q)) \/ (\E res : Return(res)))
    BY <1>8 DEF PlanC, StopReturns
  <2> QED BY <2>1, AloneMoves DEF StopPcs
<1>9. CASE ReloadRan
  <2>1. At("ranR") /\ \E res : Return(res)
    BY <1>9 DEF ReloadRan
  <2> QED BY <2>1, AloneMoves DEF ReloadPcs
<1>10. ASSUME NEW e \in Errnos, PlanCKill(e) PROVE Moves
  BY <1>10 DEF PlanCKill, Moves
<1>11. ASSUME NEW e \in Errnos, command_rmpid(e) PROVE Moves
  <2>1. At("rmpid") /\ ((\E q : Goto(q)) \/ (\E res : Return(res)))
    BY <1>11 DEF command_rmpid, StopReturns
  <2> QED BY <2>1, AloneMoves DEF StopPcs
<1>12. ASSUME NEW e \in Errnos, StatusProbe(e) PROVE Moves
  <2>1. At("probe") /\ \E res : Return(res)
    BY <1>12 DEF StatusProbe
  <2> QED BY <2>1, AloneMoves DEF StatusPcs
<1> QED BY <1>1, <1>2, <1>3, <1>4, <1>5, <1>6, <1>7, <1>8, <1>9, <1>10, <1>11, <1>12 DEF Client

\* A jump leaves what was asked for alone.
LEMMA GotoMet ==
    ASSUME StackInv, stack # <<>>, NEW q, Goto(q), unit' = unit, wasup \subseteq wasup',
           \A i \in 1 .. Len(stack) : Met(unit, stack[i], wasup)
    PROVE  \A i \in 1 .. Len(stack') : Met(unit', stack'[i], wasup')
<1> DEFINE n == Len(stack)
           f == Moved(stack[n], q)
<1>1. stack \in Seq(Frames) /\ stack' = [stack EXCEPT ![n] = f]
  BY DEF StackInv, Goto, Top
<1>2. f.svc = stack[n].svc /\ f.next = stack[n].next /\ f.bad = stack[n].bad
  BY SMT DEF Moved
<1> HIDE DEF f
<1>3. n \in 1 .. n /\ Len(stack') = n /\ stack'[n] = f /\ \A i \in 1 .. n : i # n => stack'[i] = stack[i]
  BY <1>1, SMT
<1>4. ASSUME NEW i \in 1 .. n PROVE Met(unit', stack'[i], wasup')
  <2>1. Met(unit, stack[i], wasup)
    BY <1>4
  <2>2. CASE i = n
    BY <1>2, <1>3, <2>1, <2>2 DEF Met
  <2>3. CASE i # n
    <3>1. stack'[i] = stack[i]
      BY <1>3, <1>4, <2>3
    <3> QED BY <2>1, <3>1 DEF Met
  <2> QED BY <2>2, <2>3
<1> QED BY <1>3, <1>4

\* A new activation has asked for nothing.
LEMMA PushMet ==
    ASSUME StackInv, NEW r, stack' = Append(stack, Frame(r, "start")), unit' = unit, wasup \subseteq wasup',
           \A i \in 1 .. Len(stack) : Met(unit, stack[i], wasup)
    PROVE  \A i \in 1 .. Len(stack') : Met(unit', stack'[i], wasup')
<1> DEFINE n == Len(stack)
           f == Frame(r, "start")
<1>1. stack \in Seq(Frames) /\ stack' = Append(stack, f) /\ n \in Nat
  BY SMTT(30) DEF StackInv
<1>2. 1 .. f.next - 1 = {}
  BY SMTT(30) DEF Frame
<1> HIDE DEF f
<1>3. Len(stack') = n + 1 /\ stack'[n + 1] = f /\ \A i \in 1 .. n : stack'[i] = stack[i]
  BY <1>1, SMT
<1>4. ASSUME NEW i \in 1 .. n + 1 PROVE Met(unit', stack'[i], wasup')
  <2>1. CASE i = n + 1
    BY <1>2, <1>3, <2>1 DEF Met
  <2>2. CASE i \in 1 .. n
    <3>1. Met(unit, stack[i], wasup) /\ stack'[i] = stack[i]
      BY <1>3, <2>2
    <3> QED BY <3>1 DEF Met
  <2>3. i = n + 1 \/ i \in 1 .. n
    BY <1>1, <1>4, SMTT(30)
  <2> QED BY <2>1, <2>2, <2>3
<1> QED BY <1>3, <1>4

\* A return adds to it a service that was up, unless it failed.
LEMMA ReturnMet ==
    ASSUME StackInv, stack # <<>>, NEW res, Return(res), unit' = unit, wasup \subseteq wasup',
           \A i \in 1 .. Len(stack) : Met(unit, stack[i], wasup),
           res = 0 /\ Len(stack) > 1 => Top.svc \in wasup'
    PROVE  \A i \in 1 .. Len(stack') : Met(unit', stack'[i], wasup')
<1> DEFINE n == Len(stack) - 1
<1>0. Return(res) <=> IF n = 0 THEN stack' = <<>> /\ exit' = res
                     ELSE stack' = [SubSeq(stack, 1, n) EXCEPT ![n] = Advanced(stack[n], res)] /\ UNCHANGED exit
  BY DEF Return
<1>1. stack \in Seq(Frames) /\ Len(stack) \in Nat /\ n \in Nat /\ Len(stack) = n + 1
  BY SMT DEF StackInv
<1> HIDE DEF n
<1>2. CASE n = 0
  <2>1. stack' = <<>>
    BY <1>0, <1>2
  <2>2. \A i \in 1 .. Len(<<>>) : FALSE
    BY SMT
  <2> QED BY <2>1, <2>2
<1>3. CASE n # 0
  <2>1. stack' = [SubSeq(stack, 1, n) EXCEPT ![n] = Advanced(stack[n], res)]
    BY <1>0, <1>3
  <2>2. /\ Len(stack') = n /\ stack'[n].svc = stack[n].svc
        /\ stack'[n].next = stack[n].next + 1 /\ (stack'[n].bad <=> stack[n].bad \/ res # 0)
        /\ \A i \in 1 .. n - 1 : stack'[i] = stack[i]
    BY <1>1, <1>3, <2>1, Returned
  <2>3. n \in 1 .. Len(stack) - 1 /\ n \in 1 .. Len(stack) /\ Len(stack) > 1 /\ n \in DOMAIN stack
    BY <1>1, <1>3, SMTT(30)
  <2>4. unit[stack[n].svc].requires[stack[n].next] = Top.svc
    <3>1. Waits(unit, stack[n], stack[n + 1])
      BY <2>3 DEF StackInv
    <3> QED BY <1>1, <3>1 DEF Waits, Top
  <2>5. Met(unit', stack'[n], wasup')
    <3> SUFFICES ASSUME ~stack'[n].bad, NEW j \in 1 .. stack'[n].next - 1
                 PROVE  unit[stack[n].svc].requires[j] \in wasup'
      BY <2>2 DEF Met
    <3>1. ~stack[n].bad /\ res = 0
      BY <2>2
    <3>2. stack[n] \in Frames
      BY <1>1, <2>3, SMTT(30)
    <3>3. stack[n].next \in Nat
      BY <3>2, SMTT(30) DEF Frames
    <3>4. j = stack[n].next \/ j \in 1 .. stack[n].next - 1
      BY <2>2, <3>3, SMTT(30)
    <3>5. CASE j = stack[n].next
      BY <2>3, <2>4, <3>1, <3>5
    <3>6. CASE j \in 1 .. stack[n].next - 1
      BY <2>3, <3>1, <3>6 DEF Met
    <3> QED BY <3>4, <3>5, <3>6
  <2>6. ASSUME NEW i \in 1 .. n PROVE Met(unit', stack'[i], wasup')
    <3>1. CASE i = n
      BY <2>5, <3>1
    <3>2. CASE i # n
      <4>1. i \in 1 .. n - 1 /\ i \in 1 .. Len(stack)
        BY <1>1, <2>6, <3>2, SMTT(30)
      <4>2. Met(unit, stack[i], wasup) /\ stack'[i] = stack[i]
        BY <2>2, <4>1
      <4> QED BY <4>2 DEF Met
    <3> QED BY <3>1, <3>2
  <2> QED BY <2>2, <2>6
<1> QED BY <1>2, <1>3

\* A service that is started for another is one that is required.
LEMMA TopRequired == ASSUME StackInv, Len(stack) > 1 PROVE Top.svc \in Required
<1> DEFINE n == Len(stack) - 1
<1>1. stack \in Seq(Frames) /\ n \in 1 .. Len(stack) - 1 /\ n + 1 = Len(stack) /\ n \in DOMAIN stack /\ stack # <<>>
  BY SMTT(30) DEF StackInv
<1>2. stack[n] \in Frames /\ Top \in Frames
  BY <1>1, SMTT(30) DEF Top
<1> HIDE DEF n
<1>3. stack[n].svc \in Services /\ Top.svc \in Services /\ stack[n].next \in Nat \ {0}
  BY <1>2, SMTT(30) DEF Frames
<1>4. Waits(unit, stack[n], Top)
  BY <1>1 DEF StackInv, Top
<1> DEFINE q == unit[stack[n].svc].requires
<1>5. q \in Seq(Elements(q))
  BY <1>3, ServiceAssumption DEF StackInv, unit
<1>6. stack[n].next <= Len(q) /\ q[stack[n].next] = Top.svc
  BY <1>4 DEF Waits
<1>7. stack[n].next \in 1 .. Len(q)
  <2> HIDE DEF q
  <2> QED BY <1>3, <1>5, <1>6, SMTT(30)
<1>8. Top.svc \in Elements(q)
  BY <1>6, <1>7 DEF Elements
<1> DEFINE S == {Elements(unit[s].requires) : s \in Services}
<1>9. Elements(q) \in S
  BY <1>3
<1>10. Required = (UNION S) \cap Services
  BY DEF Required
<1> HIDE DEF q, S
<1> QED BY <1>3, <1>8, <1>9, <1>10

\* What is up was up.
LEMMA UpWas ==
    ASSUME StackInv, RunInv, WorldInv, Vouched, Up, Len(stack) > 1
    PROVE  Top.svc \in wasup
<1>1. Top.svc \in Required
  BY TopRequired
<1>2. CASE mon[Top.svc] = "running"
  BY <1>1, <1>2 DEF WorldInv
<1>3. CASE Pc = "fork" /\ parent = "done" /\ ~(result < 0)
  <2>1. FR!ReportInv
    BY <1>3 DEF RunInv
  <2>2. ready \/ (child = "dead" /\ code = 0)
    BY <1>3, <2>1, ReportMeans DEF FR!SuccessTruth, FR!FailureTruth
  <2>3. ready
    BY <1>3, <2>2 DEF Vouched
  <2> QED BY <1>1, <1>3, <2>3 DEF Vouched
<1> QED BY <1>2, <1>3 DEF Up

\* Steps of sysvrun after which no monitor is being forked, or one only begins to be.
LEMMA ClientVouched ==
    ASSUME StackInv, RunInv, Client
    PROVE  Vouched' /\ (fault => fault')
<1>1. case' = case /\ fault \in BOOLEAN
  BY DEF Client, RunInv
<1>2. ASSUME Pc' # "fork" PROVE Vouched'
  BY <1>2 DEF Vouched
<1>3. CASE Between
  <2>1. Flow /\ fault' = fault
    BY <1>1, <1>3, BetweenFlow
  <2>2. Pc' # "fork"
    BY <2>1 DEF Flow, Plain
  <2>3. fault => fault'
    BY <1>1, <2>1, Raised
  <2> QED BY <1>2, <2>2, <2>3
<1>4. CASE Run
  <2>1. Pc' \in {"ran", "ranC", "ranR"}
    BY <1>1, <1>4, RunGoes
  <2>2. fault => fault'
    BY <1>1, <1>4, Raised DEF Run
  <2> QED BY <1>2, <2>1, <2>2
<1>5. CASE Prerequisites /\ ~Top.bad
  <2>1. ready' = FALSE /\ child' = "none" /\ fault' = fault
    BY <1>5 DEF Prerequisites, Call
  <2>2. Vouched'
    BY <2>1 DEF Vouched
  <2>3. fault => fault'
    BY <1>1, <2>1, Raised
  <2> QED BY <2>2, <2>3
<1>6. ASSUME NEW e \in {"", "ENOENT", "EINVAL"}, Builds(e) PROVE Vouched' /\ (fault => fault')
  <2>1. BuildFlow(e) /\ stack # <<>> /\ \E l \in {U.start, U.stop, U.reload} : Build(l, e)
    BY <1>1, <1>6, BuildsFlow
  <2>2. Pc' # "fork"
    BY <2>1 DEF BuildFlow, Plain
  <2>3. fault => fault'
    BY <2>1, BuildRunnable
  <2> QED BY <1>2, <2>2, <2>3
<1> QED BY <1>3, <1>4, <1>5, <1>6, ClientParts

\* Steps of sysvrun.
LEMMA ClientGround ==
    ASSUME StackInv, RunInv, WorldInv, GroundInv, Next, Client
    PROVE  GroundInv'
<1>1. Vouched' /\ (fault => fault')
  BY ClientVouched
<1> SUFFICES ASSUME ~fault PROVE \A i \in 1 .. Len(stack') : Met(unit', stack'[i], wasup')
  BY <1>1 DEF GroundInv
<1>2. (\A i \in 1 .. Len(stack) : Met(unit, stack[i], wasup)) /\ Vouched
  BY DEF GroundInv
<1>3. unit' = unit /\ wasup \subseteq wasup'
  BY Remembered DEF Client, unit
<1>4. stack # <<>>
  <2>1. Pc # "none"
    <3>1. case' = case
      BY DEF Client
    <3>2. CASE Between
      BY <3>1, <3>2, BetweenFlow DEF Flow
    <3>3. CASE Run
      BY <3>1, <3>3, RunGoes
    <3>4. CASE Prerequisites /\ ~Top.bad
      BY <3>1, <3>4, ForkRun
    <3>5. ASSUME NEW e \in {"", "ENOENT", "EINVAL"}, Builds(e) PROVE Pc # "none"
      BY <3>1, <3>5, BuildsFlow DEF BuildFlow
    <3> QED BY <3>2, <3>3, <3>4, <3>5, ClientParts
  <2> QED BY <2>1 DEF Pc
<1>5. CASE \E q : Goto(q)
  BY <1>2, <1>3, <1>4, <1>5, GotoMet
<1>6. CASE \E r : stack' = Append(stack, Frame(r, "start"))
  BY <1>2, <1>3, <1>6, PushMet
<1>7. CASE \E res : Return(res) /\ (res = 0 /\ Len(stack) > 1 => Up)
  <2>1. PICK res : Return(res) /\ (res = 0 /\ Len(stack) > 1 => Up)
    BY <1>7
  <2>2. res = 0 /\ Len(stack) > 1 => Top.svc \in wasup'
    BY <1>2, <1>3, <2>1, UpWas
  <2> QED BY <1>2, <1>3, <1>4, <2>1, <2>2, ReturnMet
<1> QED BY <1>5, <1>6, <1>7, ClientMoves DEF Moves

\* df_parent() and df_inter() do not make a dead child look alive.
LEMMA ReportVouched ==
    ASSUME FR!ReportInv, FR!ParentStep \/ FR!InterStep \/ FR!WritePid,
           child = "dead" /\ ~ready /\ code = 0 =>
             (parent \in {"fork", "reap", "first"} /\ pipe = <<>>) \/ (parent = "done" /\ result < 0),
           child' = "dead", ~ready', code' = 0
    PROVE  (parent' \in {"fork", "reap", "first"} /\ pipe' = <<>>) \/ (parent' = "done" /\ result' < 0)
<1>0. ready' = ready /\ code' = code /\ (child' = "dead" <=> child = "dead")
  BY ParentSide
<1>1. child = "dead" /\ ~ready /\ code = 0
  BY <1>0
<1>2. CASE parent \in {"fork", "reap", "first"} /\ pipe = <<>>
  <2>1. parent # "fork"
    BY <1>1 DEF FR!ReportInv
  <2>2. -FR!EXIT_FAILURE < 0
    BY CodesAssumption, SMTT(30) DEF FR!EXIT_FAILURE
  <2>3. ASSUME FR!ParentStep PROVE (parent' = "first" /\ pipe' = <<>>) \/ (parent' = "done" /\ result' = -FR!EXIT_FAILURE)
    BY <1>2, <2>1, <2>3 DEF FR!ParentStep, FR!Fork, FR!ForkFails, FR!Reap, FR!ReadFirst, FR!ReadSecond, FR!Collect, FR!Return
  <2>4. ASSUME FR!InterStep PROVE parent' = parent /\ pipe' = pipe
    BY <2>4 DEF FR!InterStep, FR!InterForks, FR!InterExits
  <2>5. ~FR!WritePid
    BY <1>1 DEF FR!WritePid
  <2> QED BY <1>2, <2>2, <2>3, <2>4, <2>5
<1>3. CASE parent = "done" /\ result < 0
  <2>1. ~FR!ParentStep
    BY <1>3 DEF FR!ParentStep, FR!Fork, FR!ForkFails, FR!Reap, FR!ReadFirst, FR!ReadSecond, FR!Collect
  <2>2. FR!InterStep \/ FR!WritePid => parent' = parent /\ result' = result
    BY DEF FR!InterStep, FR!InterForks, FR!InterExits, FR!WritePid
  <2> QED BY <1>3, <2>1, <2>2
<1> QED BY <1>1, <1>2, <1>3

\* A child that cannot write its PID has not been read from.
LEMMA BornUnread ==
    ASSUME FR!ReportInv, child = "born"
    PROVE  parent \in {"fork", "reap", "first"} /\ pipe = <<>>
<1>1. ~ready /\ code = 0 /\ FR!Unread /\ parent \in FR!ParentPCs
  BY DEF FR!ReportInv
<1> QED BY <1>1 DEF FR!Unread, FR!ParentPCs

\* Steps of the processes that are forked, and of others.
LEMMA ForkedGround ==
    ASSUME StackInv, RunInv, WorldInv, GroundInv, Next, Report \/ Exec \/ MonitorChild \/ Program \/ Others
    PROVE  GroundInv'
<1>0. fault \in BOOLEAN
  BY DEF RunInv
<1> SUFFICES ASSUME ~fault' PROVE (\A i \in 1 .. Len(stack') : Met(unit', stack'[i], wasup')) /\ Vouched'
  BY DEF GroundInv
<1>1. case' = case /\ stack' = stack
  BY Elsewhere DEF client
<1>2. unit' = unit /\ Pc' = Pc /\ Top' = Top /\ Required' = Required
  BY <1>1 DEF unit, Pc, Top, Required
<1>3. ~fault
  <2>1. CASE ReportStep
    <3>1. fault' = (fault \/ (parent = "fork" /\ parent' = "done")
                         \/ (inter = "alive" /\ inter' = "dead" /\ child = "none"))
      BY <2>1 DEF ReportStep
    <3> QED BY <1>0, <3>1
  <2>2. CASE ChildExits \/ ExecStep \/ Program \/ MonitorBinds \/ MonitorFails \/ Others
    <3>1. fault' = fault
      BY <2>2 DEF ChildExits, ExecStep, Program, ProgramExits, MonitorBinds, MonitorFails, Others
    <3> QED BY <1>0, <3>1
  <2>3. CASE ExecFails
    <3>1. fault' = (fault \/ ~Refused(Head(todo)))
      BY <2>3 DEF ExecFails
    <3> QED BY <1>0, <3>1
  <2>4. CASE func = "exec" /\ ChildKilled(fault)
    <3>1. fault' = fault
      BY <2>4 DEF ChildKilled
    <3> QED BY <1>0, <3>1
  <2>5. CASE MonitorReports
    <3>1. fault' = fault \/ fault' = TRUE
      BY <2>5 DEF MonitorReports
    <3> QED BY <1>0, <3>1
  <2>6. ~MonitorKilled
    BY DEF MonitorKilled, ChildKilled
  <2> QED BY <2>1, <2>2, <2>3, <2>4, <2>5, <2>6 DEF Report, Exec, MonitorChild
<1>4. (\A i \in 1 .. Len(stack) : Met(unit, stack[i], wasup)) /\ Vouched
  BY <1>3 DEF GroundInv
<1>5. wasup \subseteq wasup' /\ wasup' = wasup \cup {s \in Required : mon'[s] = "running"}
  BY Remembered DEF Next, Witness
<1>6. ASSUME NEW i \in 1 .. Len(stack') PROVE Met(unit', stack'[i], wasup')
  <2>1. Met(unit, stack[i], wasup)
    BY <1>1, <1>4, <1>6
  <2> QED BY <1>1, <1>2, <1>5, <2>1 DEF Met
<1>7. ASSUME Pc = "fork" PROVE Vouched'
  <2>1. func = "monitor" /\ FR!ReportInv
    BY <1>7 DEF RunInv
  <2>2. ASSUME UNCHANGED report PROVE Vouched'
    <3>1. UNCHANGED <<ready, child, code, parent, pipe, result>>
      BY <2>2 DEF report
    <3> QED BY <1>2, <1>4, <1>5, <3>1 DEF Vouched
  <2>3. ~(func = "exec") /\ ~Executing
    BY <2>1 DEF Executing
  <2>4. ~Exec /\ ~Program
    BY <2>3 DEF Exec, ExecStep, ExecFails, Program, ProgramExits
  <2>5. CASE ReportStep
    <3>1. FR!ParentStep \/ FR!InterStep \/ FR!WritePid
      BY <2>5 DEF ReportStep
    <3>2. ready' = ready
      BY <2>1, <3>1, ParentSide
    <3>3. Pc' = "fork" /\ ready' /\ Top'.svc \in Required' => Top'.svc \in wasup'
      BY <1>2, <1>4, <1>5, <3>2 DEF Vouched
    <3>4. ASSUME child' = "dead", ~ready', code' = 0
          PROVE  (parent' \in {"fork", "reap", "first"} /\ pipe' = <<>>) \/ (parent' = "done" /\ result' < 0)
      <4>1. child = "dead" /\ ~ready /\ code = 0 =>
              (parent \in {"fork", "reap", "first"} /\ pipe = <<>>) \/ (parent = "done" /\ result < 0)
        BY <1>4, <1>7 DEF Vouched
      <4> QED BY <2>1, <3>1, <3>4, <4>1, ReportVouched
    <3> QED BY <3>3, <3>4 DEF Vouched
  <2>6. CASE ChildExits
    <3>1. CASE FR!ChildExits
      <4>1. code' = code /\ ready' = ready /\ code # 0
        BY <2>1, <3>1 DEF FR!ChildExits, FR!ReportInv
      <4> QED BY <1>2, <1>4, <1>5, <4>1 DEF Vouched
    <3>2. CASE FR!WritePidFails
      <4>1. child = "born" /\ UNCHANGED <<parent, pipe, ready>>
        BY <3>2 DEF FR!WritePidFails
      <4>2. parent' \in {"fork", "reap", "first"} /\ pipe' = <<>>
        BY <2>1, <4>1, BornUnread
      <4> QED BY <1>2, <1>4, <1>5, <4>1, <4>2 DEF Vouched
    <3> QED BY <2>6, <3>1, <3>2 DEF ChildExits
  <2>7. CASE MonitorBinds
    BY <2>2, <2>7 DEF MonitorBinds
  <2>8. CASE MonitorReports
    <3>1. mon' = [mon EXCEPT ![Top.svc] = "running"] /\ FR!report_ready
      BY <2>8 DEF MonitorReports
    <3>2. ready'
      BY <3>1 DEF FR!report_ready
    <3>3. Top.svc \in Required => mon'[Top.svc] = "running"
      <4>1. Top.svc \in Required => Top.svc \in Services
        BY DEF Required
      <4>2. DOMAIN mon = Services
        BY DEF WorldInv
      <4> QED BY <3>1, <4>1, <4>2
    <3>4. Top.svc \in Required => Top.svc \in wasup'
      BY <1>5, <3>3
    <3> QED BY <1>2, <3>2, <3>4 DEF Vouched
  <2>9. CASE MonitorFails
    <3>1. child' = "returned" /\ ready' = ready
      BY <2>9 DEF MonitorFails, FR!Fail
    <3>2. child' # "dead"
      BY <3>1
    <3> QED BY <1>2, <1>4, <1>5, <3>1, <3>2 DEF Vouched
  <2>10. ~MonitorKilled
    BY DEF MonitorKilled, ChildKilled
  <2>11. CASE Others
    BY <2>2, <2>11 DEF Others, command
  <2> QED BY <2>4, <2>5, <2>6, <2>7, <2>8, <2>9, <2>10, <2>11 DEF Report, MonitorChild
<1>8. ASSUME Pc # "fork" PROVE Vouched'
  BY <1>2, <1>8 DEF Vouched
<1> QED BY <1>6, <1>7, <1>8

\* It is kept.
LEMMA GroundInvNext == CommandInv /\ WorldInv /\ GroundInv /\ [Next]_vars => GroundInv'
<1> SUFFICES ASSUME CommandInv, WorldInv, GroundInv, [Next]_vars PROVE GroundInv'
  OBVIOUS
<1>1. CASE UNCHANGED vars
  <2>1. UNCHANGED <<case, stack, wasup, ready, child, code, parent, pipe, result, fault>>
    BY <1>1 DEF vars, client, history, command, report
  <2>2. unit' = unit /\ Pc' = Pc /\ Top' = Top /\ Required' = Required
    BY <2>1 DEF unit, Pc, Top, Required
  <2>3. Vouched => Vouched'
    BY <2>1, <2>2 DEF Vouched
  <2>4. fault => fault'
    BY <2>1, Raised DEF CommandInv, RunInv
  <2> QED BY <2>1, <2>2, <2>3, <2>4 DEF GroundInv
<1>2. CASE Next /\ Client
  BY <1>2, ClientGround DEF CommandInv
<1>3. CASE Next /\ (Report \/ Exec \/ MonitorChild \/ Program \/ Others)
  BY <1>3, ForkedGround DEF CommandInv
<1> QED BY <1>1, <1>2, <1>3 DEF Next, Own

\* It holds at first.
LEMMA GroundStarts == ASSUME Init PROVE GroundInv
<1> DEFINE f == Frame(Target, IF verb = "restart" THEN "stop" ELSE verb)
<1>1. stack = <<f>>
  BY DEF Init
<1>2. 1 .. f.next - 1 = {}
  BY SMT DEF Frame
<1> HIDE DEF f
<1>3. ASSUME NEW i \in 1 .. Len(stack) PROVE Met(unit, stack[i], wasup)
  <2>1. stack[i] = f
    BY <1>1, <1>3, SMTT(30)
  <2> QED BY <1>2, <2>1 DEF Met
<1>4. Vouched
  BY FirstPc DEF Vouched
<1> QED BY <1>3, <1>4 DEF GroundInv

\* A monitor is forked only after each service that its own requires was seen running, unless
\* something unforeseen has happened.
THEOREM StartsAreGrounded == Spec => Grounded
<1>1. Init => WorldInv /\ GroundInv
  BY WorldStarts, GroundStarts
<1>2. CommandInv /\ GroundInv /\ [Next]_vars =>
        [(~At("fork") /\ stack' # <<>> /\ stack'[Len(stack')].pc = "fork" /\ ~fault) =>
            Elements(unit[Top.svc].requires) \subseteq wasup]_vars
  <2> SUFFICES ASSUME CommandInv, GroundInv, Next, ~At("fork"), stack' # <<>>, stack'[Len(stack')].pc = "fork", ~fault
               PROVE  Elements(unit[Top.svc].requires) \subseteq wasup
    BY DEF vars, client
  <2>1. Pc' = "fork" /\ Pc # "fork" /\ StackInv /\ RunInv
    BY DEF Pc, Top, At, CommandInv
  <2>2. Client
    <3>1. ASSUME Report \/ Exec \/ MonitorChild \/ Program \/ Others PROVE FALSE
      <4>1. stack' = stack
        BY <3>1, Elsewhere DEF client
      <4>2. Pc' = Pc
        BY <4>1 DEF Pc, Top
      <4> QED BY <2>1, <4>2
    <3> QED BY <3>1 DEF Next, Own
  <2>3. Prerequisites /\ ~Top.bad
    <3>1. case' = case
      BY <2>2 DEF Client
    <3>2. ~Between
      <4> SUFFICES ASSUME Between PROVE FALSE
        OBVIOUS
      <4>1. Flow
        BY <2>1, <3>1, BetweenFlow
      <4> QED BY <2>1, <4>1 DEF Flow, Plain
    <3>3. ~Run
      <4> SUFFICES ASSUME Run PROVE FALSE
        OBVIOUS
      <4>1. Pc' \in {"ran", "ranC", "ranR"}
        BY <2>1, <3>1, RunGoes
      <4> QED BY <2>1, <4>1
    <3>4. ASSUME NEW e \in {"", "ENOENT", "EINVAL"}, Builds(e) PROVE FALSE
      <4>1. BuildFlow(e)
        BY <2>1, <3>1, <3>4, BuildsFlow
      <4> QED BY <2>1, <4>1 DEF BuildFlow, Plain
    <3> QED BY <2>2, <3>2, <3>3, <3>4, ClientParts
  <2> DEFINE q == unit[Top.svc].requires
             n == Len(stack)
  <2>4. stack # <<>> /\ Top.next > Len(q)
    BY <2>3 DEF Prerequisites, At, U
  <2>5. stack \in Seq(Frames) /\ n \in 1 .. n /\ Top \in Frames
    BY <2>1, <2>4, SMTT(30) DEF StackInv, Top
  <2>6. Top.svc \in Services /\ Top.next \in Nat
    BY <2>5, SMTT(30) DEF Frames
  <2>7. Len(q) \in Nat
    <3>1. q \in Seq(Elements(q))
      BY <2>1, <2>6, ServiceAssumption DEF StackInv, unit
    <3> HIDE DEF q
    <3> QED BY <3>1, SMTT(30)
  <2>8. Met(unit, Top, wasup)
    BY <2>5 DEF GroundInv, Top
  <2>9. ASSUME NEW j \in 1 .. Len(q) PROVE q[j] \in wasup
    <3>1. j \in 1 .. Top.next - 1
      <4> HIDE DEF q
      <4> QED BY <2>4, <2>6, <2>7, <2>9, SMTT(30)
    <3> QED BY <2>3, <2>8, <3>1 DEF Met
  <2> QED BY <2>9 DEF Elements
<1> QED BY <1>1, <1>2, CommandSound, WorldInvNext, GroundInvNext, PTL DEF Spec, Grounded
=============================================================================
