---------------------------- MODULE ControlProofs ----------------------------
(***************************************************************************)
(* Control, for any set of clients, units, commands and faults: there is   *)
(* one monitor at a time, and start, stop and restart report the truth.    *)
(***************************************************************************)
EXTENDS Control, TLAPS

USE ZenonT(30)

\* A monitor that has bound the control socket and not exited.
Alive(l) == l.state \notin {"none", "idle"} /\ l.phase # "gone"

\* What ControlInv says of one monitor's life.
Sane(l) ==
    /\ ML!Serving(l) => l.state \notin ML!Final \cup {"idle"}
    /\ l.phase = "wait" => l.state \in {"restarting", "remaining"}

\* The lives before and after bind() and after the exit, field by field.
LEMMA Forms ==
    /\ Unbound = [type |-> unit.type, state |-> "idle", phase |-> "busy"]
    /\ ML!Born(unit.type) = [type |-> unit.type, state |-> "starting", phase |-> "busy"]
    /\ Unbound \in Lives /\ ML!Born(unit.type) \in Lives
<1>1. ML!Born(unit.type) = [type |-> unit.type, state |-> "starting", phase |-> "busy"]
  BY DEF ML!Born
<1>2. Unbound = [type |-> unit.type, state |-> "idle", phase |-> "busy"]
  BY <1>1, SMT DEF Unbound
<1> QED
  BY <1>1, <1>2, SMT DEF Lives, ML!States, ML!Phases

\* monitor_func() exits: only the phase changes.
LEMMA GoneForm ==
    ASSUME NEW l \in Lives
    PROVE  Gone(l) \in Lives /\ Gone(l).state = l.state /\ Gone(l).phase = "gone"
BY DEF Gone, Lives, ML!Phases

\* OneMonitor speaks of the lives that are Alive.
LEMMA AliveForm ==
    ASSUME NEW l \in Lives \cup {Unborn}, Sane(l)
    PROVE  (l \notin {Unborn, Unbound} /\ l.phase # "gone") <=> Alive(l)
<1>1. CASE l = Unborn
  BY <1>1 DEF Unborn, Alive
<1>2. CASE l \in Lives
  <2>1. l # Unborn /\ l.state # "none"
    BY <1>2, SMT DEF Lives, Unborn, ML!States, ML!Final
  <2>2. l = Unbound <=> l.state = "idle" /\ l.phase = "busy"
    BY <1>2, Forms, SMT DEF Lives
  <2>3. l.state = "idle" => l.phase \in {"busy", "gone"}
    BY <1>2 DEF Sane, ML!Serving, Lives, ML!Phases
  <2> QED
    BY <2>1, <2>2, <2>3 DEF Alive
<1> QED
  BY <1>1, <1>2

\* monitor_func(): the lives a step leads from and to.
LEMMA StepForm ==
    ASSUME NEW l \in Lives, NEW n \in Lives, Sane(l), ML!Step(l, n)
    PROVE  /\ Sane(n) /\ n.state # "idle"
           /\ n.phase = "gone" => Launched(l)
           /\ n.state = "running" => n.phase = "watch"
           /\ Launched(n) /\ ~Launched(l) => n.phase = "watch" \/ ML!LaunchFails(l, n)
<1> USE DEF Lives, Sane, Launched, ML!At, ML!Serving, ML!States, ML!Phases, ML!Final
<1>1. CASE ML!Launch(l, n)
  BY <1>1 DEF ML!Launch
<1>2. CASE ML!LaunchFails(l, n)
  BY <1>2 DEF ML!LaunchFails
<1>3. CASE ML!Ready(l, n)
  BY <1>3 DEF ML!Ready
<1>4. CASE ML!Leave(l, n)
  BY <1>4, SMT DEF ML!Leave, ML!Decided
<1>5. CASE ML!Die(l, n)
  BY <1>5 DEF ML!Die
<1>6. CASE ML!Delay(l, n)
  BY <1>6 DEF ML!Delay
<1>7. CASE ML!DelayOver(l, n)
  BY <1>7 DEF ML!DelayOver
<1>8. CASE ML!GiveUp(l, n)
  BY <1>8 DEF ML!GiveUp
<1>9. CASE ML!Stopped(l, n)
  BY <1>9 DEF ML!Stopped
<1>10. CASE ML!Close(l, n)
  BY <1>10 DEF ML!Close
<1> QED
  BY <1>1, <1>2, <1>3, <1>4, <1>5, <1>6, <1>7, <1>8, <1>9, <1>10 DEF ML!Step

\* monitor_control_stop() reaches a monitor that serves, and does not end it.
LEMMA OrderForm ==
    ASSUME NEW l \in Lives, NEW n \in Lives, Sane(l), ML!Order(l, n, "stop")
    PROVE  Sane(n) /\ Alive(n) /\ Launched(l) /\ Halting(n)
BY SMT DEF Lives, Sane, Alive, Launched, Halting, ML!At, ML!Serving, ML!States, ML!Phases, ML!Final, ML!Order, ML!StateAfter
-----------------------------------------------------------------------------
\* What the history keeps: nobody who has seen something forgets it.
LEMMA WitnessForm ==
    ASSUME ControlInv, Witness
    PROVE  /\ down' \in [Clients -> BOOLEAN] /\ up' \in [Clients -> BOOLEAN] /\ again' \in [Clients -> BOOLEAN]
           /\ \A c \in Clients : pc'[c] # "idle" =>
                /\ down[c] \/ bound' = NoMon => down'[c]
                /\ up[c] \/ (\E m \in Monitors : Up(life'[m])) => up'[c]
<1>1. down' = [c \in Clients |-> pc'[c] # "idle" /\ (down[c] \/ bound' = NoMon)]
  BY DEF Witness
<1>2. up' = [c \in Clients |-> pc'[c] # "idle" /\ (up[c] \/ (\E m \in Monitors : Up(life'[m])))]
  BY DEF Witness
<1>3. again' = [c \in Clients |-> again[c] \/ (down[c] /\ (\E m \in Monitors : Up(life'[m])))]
  BY DEF Witness
<1>4. again' \in [Clients -> BOOLEAN]
  BY <1>3, Zenon
<1> QED
  BY <1>1, <1>2, <1>4, Zenon

\* TypeOK after a step, from the variables that the step may change.
LEMMA TypeForm ==
    ASSUME ControlInv, Witness, UNCHANGED <<unit, faults, verb>>,
           life' \in [Monitors -> Lives' \cup {Unborn}], bound' \in Monitors \cup {NoMon},
           report' \in [Monitors -> {"open", "closed", "failed"}],
           pc' \in [Clients -> PCs], st' \in [Clients -> Heard], code' \in [Clients -> Results],
           \A c \in Clients : (code'[c] = Pending) <=> (pc'[c] # "done")
    PROVE  TypeOK'
<1>1. down' \in [Clients -> BOOLEAN] /\ up' \in [Clients -> BOOLEAN] /\ again' \in [Clients -> BOOLEAN]
  BY WitnessForm
<1>2. unit' \in Units /\ faults' \in Faults /\ verb' \in [Clients -> Verbs]
  BY DEF ControlInv, TypeOK
<1> QED
  BY <1>1, <1>2 DEF TypeOK

\* What was seen of a command that has returned stays seen, so its report stays true.
LEMMA TruthForm ==
    ASSUME ControlInv, Witness, UNCHANGED <<unit, faults, verb, code>>,
           \A c \in Clients : pc[c] = "done" => pc'[c] # "idle"
    PROVE  StopTruth' /\ StartTruth'
<1>1. ASSUME NEW c \in Clients, code[c] = 0
      PROVE  (down[c] => down'[c]) /\ (up[c] => up'[c])
  <2>1. pc[c] = "done"
    BY <1>1, SMT DEF ControlInv, TypeOK, Pending
  <2> QED
    BY <2>1, WitnessForm
<1>2. StopTruth'
  BY <1>1 DEF ControlInv, StopTruth, Done
<1>3. StartTruth'
  BY <1>1 DEF ControlInv, StartTruth, Done
<1> QED
  BY <1>2, <1>3


\* A client's step that leaves the monitors alone: it hears s, goes to l, and its exit
\* code is res.
Quiet(c, s, l, res) ==
    /\ UNCHANGED <<life, bound, report, verb>>
    /\ st' = [st EXCEPT ![c] = s] /\ pc' = [pc EXCEPT ![c] = l] /\ code' = [code EXCEPT ![c] = res]
    /\ pc[c] # "done" /\ l \notin {"idle", "report"} /\ l \in Plan(verb[c])
    /\ pc[c] = "report" => l = "done"
    /\ res = Pending <=> l # "done"
    /\ s = "stopped" => st[c] = "stopped" \/ bound = NoMon
    /\ res = 0 /\ verb[c] = "stop" => unit.pidfile \/ s = "stopped"
    /\ res = 0 /\ verb[c] = "start" /\ "exec" \notin faults => up[c] \/ \E m \in Monitors : Up(life[m])

\* Such a step keeps the invariant.
LEMMA QuietKeeps ==
    ASSUME ControlInv, NEW c \in Clients, NEW s \in Heard, NEW l \in PCs, NEW res \in Results,
           Quiet(c, s, l, res), Witness, UNCHANGED <<unit, faults>>
    PROVE  ControlInv'
<1>1. Lives' = Lives /\ Unbound' = Unbound
  BY DEF Lives, Unbound
<1>2. \A d \in Clients : pc[d] # "idle" => pc'[d] # "idle"
  BY DEF Quiet, ControlInv, TypeOK
<1>3. TypeOK'
  BY <1>1, WitnessForm, SMTT(30) DEF Quiet, ControlInv, TypeOK
<1>4. OneMonitor'
  BY <1>1 DEF Quiet, ControlInv, OneMonitor
<1>5. StopTruth'
  BY <1>2, WitnessForm, SMTT(30) DEF Quiet, ControlInv, TypeOK, StopTruth, Done, Pending
<1>6. StartTruth'
  BY <1>2, WitnessForm, SMTT(30) DEF Quiet, ControlInv, TypeOK, StartTruth, Done, Pending
<1>7. ASSUME NEW d \in Clients
      PROVE  (/\ pc[d] \in Plan(verb[d])
              /\ pc[d] \notin {"report", "done"} => life[d] = Unborn
              /\ st[d] = "stopped" => down[d]
              /\ pc[d] = "idle" => st[d] = "none"
              /\ "exec" \notin faults /\ pc[d] = "report" /\ (Launched(life[d]) \/ report[d] = "closed") => up[d])'
  <2>1. CASE d = c
    BY <2>1, <1>2, WitnessForm, SMTT(30) DEF Quiet, ControlInv, TypeOK
  <2>2. CASE d # c
    BY <2>2, <1>2, WitnessForm, SMTT(30) DEF Quiet, ControlInv, TypeOK
  <2> QED
    BY <2>1, <2>2
<1> QED
  BY <1>3, <1>4, <1>5, <1>6, <1>7 DEF Quiet, ControlInv
-----------------------------------------------------------------------------
\* monitor_control_get_state(): "stopped" is heard only where there is no monitor.
LEMMA AnswersForm ==
    ASSUME ControlInv, Answered, NEW s \in Answers
    PROVE  /\ s \in Heard
           /\ s = "stopped" => bound = NoMon
           /\ s \in {"running", "remaining"} => \E m \in Monitors : Up(life[m])
<1>1. CASE bound = NoMon
  BY <1>1 DEF Answers, Heard
<1>2. CASE bound # NoMon
  <2>1. bound \in Monitors /\ ML!Serving(life[bound])
    BY <1>2 DEF ControlInv, TypeOK, Answered
  <2>2. life[bound] \in Lives
    BY <2>1, SMT DEF ControlInv, TypeOK, OneMonitor
  <2>3. life[bound].state \notin ML!Final \cup {"idle"}
    BY <2>1 DEF ControlInv
  <2>4. life[bound].state \in Heard \ {"none", "error", "stopped"}
    BY <2>2, <2>3 DEF Lives, ML!States, ML!Final, Heard
  <2>5. life[bound].state \in {"running", "remaining"} => Up(life[bound])
    BY <2>1 DEF ControlInv, ML!Serving, Up
  <2> QED
    BY <1>2, <2>1, <2>4, <2>5 DEF Answers, Heard
<1> QED
  BY <1>1, <1>2

\* The commands start and stop keep to their own steps.
LEMMA PlanForm ==
    ASSUME NEW v \in Verbs, NEW l \in Plan(v)
    PROVE  /\ "done" \in Plan(v)
           /\ v = "restart" => Plan(v) = PCs
           /\ l \in {"stop", "cmd", "cmdwait", "identify", "ask", "send", "wait", "kill"} =>
                v # "start" /\ {"cmd", "cmdwait", "identify", "ask", "send", "wait", "kill"} \subseteq Plan(v)
           /\ l \in {"start", "up", "ending", "fork", "report"} =>
                v # "stop" /\ {"up", "ending", "fork", "report"} \subseteq Plan(v)
           /\ l \in {"status", "reload"} => v # "start" /\ v # "stop"
           /\ l = "idle" => (IF v = "restart" THEN "stop" ELSE v) \in Plan(v) \ {"idle", "report", "done"}
BY ControlAssumption DEF Plan, PCs

\* Whoever asks for the state of the service leaves the monitors alone.
LEMMA QueryIsQuiet ==
    ASSUME ControlInv, NEW c \in Clients, NEW s \in Answers, Query(c, s), UNCHANGED verb
    PROVE  s \in Heard /\ \E l \in PCs, res \in Results : Quiet(c, s, l, res)
<1>1. Answered
  BY DEF Query, service_start, StartWait, StopAwait, service_stop, StopCommandWait, monitor_control_stop,
         StopWait, service_status, service_reload
<1>2. /\ s \in Heard
      /\ s = "stopped" => bound = NoMon
      /\ s \in {"running", "remaining"} => \E m \in Monitors : Up(life[m])
  BY <1>1, AnswersForm
<1>3. verb[c] \in Verbs /\ pc[c] \in Plan(verb[c]) /\ code[c] \in Results
      /\ (code[c] = Pending <=> pc[c] # "done") /\ code = [code EXCEPT ![c] = code[c]] /\ pc = [pc EXCEPT ![c] = pc[c]]
  BY DEF ControlInv, TypeOK
<1>p. /\ "done" \in Plan(verb[c])
      /\ verb[c] = "restart" => Plan(verb[c]) = PCs
      /\ pc[c] \in {"stop", "cmd", "cmdwait", "identify", "ask", "send", "wait", "kill"} =>
            verb[c] # "start" /\ {"cmd", "cmdwait", "identify", "ask", "send", "wait", "kill"} \subseteq Plan(verb[c])
      /\ pc[c] \in {"start", "up", "ending", "fork", "report"} =>
            verb[c] # "stop" /\ {"up", "ending", "fork", "report"} \subseteq Plan(verb[c])
      /\ pc[c] \in {"status", "reload"} => verb[c] # "start" /\ verb[c] # "stop"
  BY <1>3, PlanForm
<1> USE <1>2, <1>3, <1>p DEF Told, Exit, Goto, Idle, monitors, Quiet, Results, Pending, PCs, Heard
<1>4. CASE service_start(c, s)
  BY <1>4, SMTT(30) DEF service_start
<1>5. CASE StartWait(c, s)
  BY <1>5, SMT DEF StartWait
<1>6. CASE StopAwait(c, s)
  BY <1>6, SMTT(30) DEF StopAwait
<1>7. CASE service_stop(c, s)
  BY <1>7, SMTT(30) DEF service_stop, Stopped
<1>8. CASE StopCommandWait(c, s)
  BY <1>8, SMTT(30) DEF StopCommandWait, Stopped
<1>9. CASE monitor_control_stop(c, s)
  <2>1. pc[c] = "ask" /\ Told(c, s) /\ Idle
    BY <1>9 DEF monitor_control_stop
  <2>2. Goto(c, "kill") \/ Goto(c, "wait") \/ Goto(c, "send")
    BY <1>9 DEF monitor_control_stop
  <2>3. CASE Goto(c, "kill")
    BY <2>1, <2>3, SMTT(30)
  <2>4. CASE Goto(c, "wait")
    BY <2>1, <2>4, SMTT(30)
  <2>5. CASE Goto(c, "send")
    BY <2>1, <2>5, SMTT(30)
  <2> QED
    BY <2>2, <2>3, <2>4, <2>5
<1>10. CASE StopWait(c, s)
  BY <1>10, SMTT(30) DEF StopWait
<1>11. CASE service_status(c, s)
  <2>1. \E res \in {0, 1, 3, 4, 7} : Exit(c, res)
    <3>1. CASE s = "error"
      BY <1>11, <3>1 DEF service_status
    <3>2. CASE s \in {"running", "remaining"}
      BY <1>11, <3>2 DEF service_status
    <3>3. CASE s \in {"starting", "restarting"}
      BY <1>11, <3>3 DEF service_status
    <3>4. CASE s = "stopped"
      BY <1>11, <3>4 DEF service_status
    <3>5. CASE s \in {"none", "stopping"}
      BY <1>11, <3>5 DEF service_status
    <3> QED
      BY <3>1, <3>2, <3>3, <3>4, <3>5
  <2>r. PICK res \in {0, 1, 3, 4, 7} : Exit(c, res)
    BY <2>1
  <2>2. Quiet(c, s, "done", res)
    <3>1. pc[c] = "status" /\ Told(c, s) /\ Idle
      BY <1>11 DEF service_status
    <3> QED
      BY <2>r, <3>1, SMT
  <2>3. s \in Heard /\ "done" \in PCs /\ res \in Results
    OBVIOUS
  <2> HIDE DEF Quiet, PCs, Results, Heard
  <2> QED
    BY <2>2, <2>3, SMT
<1>12. CASE service_reload(c, s)
  <2>1. \E res \in {0, 1, 3, 4, 7} : Exit(c, res)
    <3>1. CASE s = "error"
      BY <1>12, <3>1 DEF service_reload
    <3>2. CASE s \in {"running", "remaining"}
      BY <1>12, <3>2 DEF service_reload
    <3>3. CASE s \in {"starting", "restarting"}
      BY <1>12, <3>3 DEF service_reload
    <3>4. CASE s = "stopped"
      BY <1>12, <3>4 DEF service_reload
    <3>5. CASE s \in {"none", "stopping"}
      BY <1>12, <3>5 DEF service_reload
    <3> QED
      BY <3>1, <3>2, <3>3, <3>4, <3>5
  <2>r. PICK res \in {0, 1, 3, 4, 7} : Exit(c, res)
    BY <2>1
  <2>2. Quiet(c, s, "done", res)
    <3>1. pc[c] = "reload" /\ Told(c, s) /\ Idle
      BY <1>12 DEF service_reload
    <3> QED
      BY <2>r, <3>1, SMT
  <2>3. s \in Heard /\ "done" \in PCs /\ res \in Results
    OBVIOUS
  <2> HIDE DEF Quiet, PCs, Results, Heard
  <2> QED
    BY <2>2, <2>3
<1> QED
  BY <1>4, <1>5, <1>6, <1>7, <1>8, <1>9, <1>10, <1>11, <1>12 DEF Query

\* A client's other steps that leave the monitors alone.
OwnStep(c) ==
    \/ Begin(c) \/ CannotStart(c) \/ Started(c) \/ StartTimeout(c)
    \/ StopCommand(c) \/ StopCommandTimeout(c) \/ Identify(c)
    \/ StopUnanswered(c) \/ StopTimeout(c) \/ StopEnd(c)

\* They are quiet steps.
LEMMA OwnStepIsQuiet ==
    ASSUME ControlInv, NEW c \in Clients, OwnStep(c), UNCHANGED verb
    PROVE  \E s \in Heard, l \in PCs, res \in Results : Quiet(c, s, l, res)
<1>1. verb[c] \in Verbs /\ pc[c] \in Plan(verb[c]) /\ code[c] \in Results /\ st[c] \in Heard
      /\ (code[c] = Pending <=> pc[c] # "done") /\ code = [code EXCEPT ![c] = code[c]] /\ st = [st EXCEPT ![c] = st[c]]
  BY DEF ControlInv, TypeOK
<1>2. /\ "done" \in Plan(verb[c])
      /\ verb[c] = "restart" => Plan(verb[c]) = PCs
      /\ pc[c] \in {"stop", "cmd", "cmdwait", "identify", "ask", "send", "wait", "kill"} =>
            verb[c] # "start" /\ {"cmd", "cmdwait", "identify", "ask", "send", "wait", "kill"} \subseteq Plan(verb[c])
      /\ pc[c] \in {"start", "up", "ending", "fork", "report"} =>
            verb[c] # "stop" /\ {"up", "ending", "fork", "report"} \subseteq Plan(verb[c])
      /\ pc[c] = "idle" => (IF verb[c] = "restart" THEN "stop" ELSE verb[c]) \in Plan(verb[c]) \ {"idle", "report", "done"}
  BY <1>1, PlanForm
<1>3. Plan(verb[c]) \subseteq PCs
  BY DEF Plan, PCs
<1>4. "exec" \notin faults /\ pc[c] = "report" /\ report[c] = "closed" => up[c]
  BY DEF ControlInv
<1>w. /\ {"cmdwait", "identify", "ask", "kill", "start", "done"} \subseteq PCs
      /\ "error" \in Heard /\ 0 \in Results /\ 1 \in Results /\ Pending \notin {0, 1}
  BY SMT DEF PCs, Heard, Results, Pending
<1>e. StopEnd(c) => \/ Exit(c, 1) \/ (Goto(c, "start") /\ verb[c] = "restart")
                    \/ Exit(c, 0) /\ (unit.pidfile \/ st[c] = "stopped")
  BY DEF StopEnd, Stopped
<1> USE <1>1, <1>2, <1>3, <1>4 DEF Told, Exit, Goto, Idle, monitors
<1>5. CASE Begin(c)
  <2> DEFINE l == IF verb[c] = "restart" THEN "stop" ELSE verb[c]
  <2>1. Quiet(c, st[c], l, code[c])
    BY <1>5, <1>w DEF Begin, Quiet
  <2>2. l \in PCs
    BY <1>5 DEF Begin
  <2> HIDE DEF l
  <2> QED
    BY <2>1, <2>2
<1>6. CASE CannotStart(c)
  <2>1. Quiet(c, st[c], "done", 1)
    BY <1>6, <1>w, SMTT(30) DEF CannotStart, Quiet
  <2> QED
    BY <2>1, <1>w
<1>7. CASE Started(c)
  <2>1. Quiet(c, st[c], "done", IF report[c] = "closed" THEN 0 ELSE 1)
    BY <1>7, <1>w, SMTT(30) DEF Started, Quiet
  <2> QED
    BY <2>1, <1>w
<1>8. CASE StartTimeout(c)
  <2>1. Quiet(c, "error", "done", 1)
    BY <1>8, <1>w, SMTT(30) DEF StartTimeout, Quiet
  <2> QED
    BY <2>1, <1>w
<1>9. CASE StopCommand(c)
  <2>1. Quiet(c, st[c], "cmdwait", code[c])
    BY <1>9, <1>w DEF StopCommand, Quiet
  <2> QED
    BY <2>1, <1>w
<1>10. CASE StopCommandTimeout(c)
  <2>1. Quiet(c, "error", "identify", code[c])
    BY <1>10, <1>w DEF StopCommandTimeout, Quiet
  <2> QED
    BY <2>1, <1>w
<1>11. CASE Identify(c)
  <2>1. Quiet(c, st[c], "ask", code[c])
    BY <1>11, <1>w DEF Identify, Quiet
  <2> QED
    BY <2>1, <1>w
<1>12. CASE StopUnanswered(c)
  <2>1. pc[c] = "send" /\ Goto(c, "kill") /\ Idle
    BY <1>12 DEF StopUnanswered
  <2>2. st' = [st EXCEPT ![c] = st[c]] \/ st' = [st EXCEPT ![c] = "error"]
    BY <1>12 DEF StopUnanswered
  <2>3. Quiet(c, st[c], "kill", code[c]) \/ Quiet(c, "error", "kill", code[c])
    BY <2>1, <2>2, <1>w DEF Quiet
  <2> QED
    BY <2>3, <1>w
<1>13. CASE StopTimeout(c)
  <2>1. Quiet(c, "error", "kill", code[c])
    BY <1>13, <1>w DEF StopTimeout, Quiet
  <2> QED
    BY <2>1, <1>w
<1>14. CASE StopEnd(c)
  <2>1. pc[c] = "kill" /\ st' = [st EXCEPT ![c] = st[c]] /\ Idle
    BY <1>14 DEF StopEnd
  <2>2. \/ Exit(c, 1) \/ (Goto(c, "start") /\ verb[c] = "restart")
        \/ Exit(c, 0) /\ (unit.pidfile \/ st[c] = "stopped")
    BY <1>14, <1>e
  <2>3. CASE Exit(c, 1)
    <3>1. Quiet(c, st[c], "done", 1)
      BY <2>1, <2>3, <1>w, SMTT(30) DEF Quiet
    <3> QED
      BY <3>1, <1>w
  <2>4. CASE Goto(c, "start") /\ verb[c] = "restart"
    <3>1. Quiet(c, st[c], "start", code[c])
      BY <2>1, <2>4, <1>w DEF Quiet, PCs
    <3> QED
      BY <3>1, <1>w
  <2>5. CASE Exit(c, 0) /\ (unit.pidfile \/ st[c] = "stopped")
    <3>1. Quiet(c, st[c], "done", 0)
      BY <2>1, <2>5, <1>w DEF Quiet
    <3> QED
      BY <3>1, <1>w
  <2> QED
    BY <2>2, <2>3, <2>4, <2>5
<1> QED
  BY <1>5, <1>6, <1>7, <1>8, <1>9, <1>10, <1>11, <1>12, <1>13, <1>14 DEF OwnStep
-----------------------------------------------------------------------------
\* Of monitor m only: its life becomes n, its report r.
Changed(m, n, r) ==
    /\ life' = [life EXCEPT ![m] = n] /\ report' = [report EXCEPT ![m] = r]
    /\ Sane(n) /\ bound' \in Monitors \cup {NoMon}
    /\ bound' = m <=> Alive(n)
    /\ \A k \in Monitors \ {m} : bound' = k <=> bound = k

\* OneMonitor and what is said of lives hold after such a change.
LEMMA ChangedKeeps ==
    ASSUME ControlInv, NEW m \in Monitors, NEW n \in Lives, NEW r \in {"open", "closed", "failed"},
           Changed(m, n, r), UNCHANGED unit
    PROVE  /\ life' \in [Monitors -> Lives' \cup {Unborn}] /\ report' \in [Monitors -> {"open", "closed", "failed"}]
           /\ \A k \in Monitors : Sane(life'[k])
           /\ OneMonitor'
<1>1. Lives' = Lives /\ Unbound' = Unbound
  BY DEF Lives, Unbound
<1>2. life' \in [Monitors -> Lives' \cup {Unborn}] /\ report' \in [Monitors -> {"open", "closed", "failed"}]
  BY <1>1 DEF Changed, ControlInv, TypeOK
<1>3. \A k \in Monitors : Sane(life[k])
  BY DEF ControlInv, Sane
<1>4. \A k \in Monitors : Sane(life'[k])
  BY <1>3 DEF Changed, ControlInv, TypeOK
<1>5. ASSUME NEW k \in Monitors PROVE (bound' = k) <=> Alive(life'[k])
  <2>1. CASE k = m
    BY <2>1 DEF Changed, ControlInv, TypeOK
  <2>2. CASE k # m
    <3>1. life'[k] = life[k] /\ life[k] \in Lives \cup {Unborn}
      BY <2>2 DEF Changed, ControlInv, TypeOK
    <3>2. (bound = k) <=> Alive(life[k])
      BY <1>3, <3>1, AliveForm DEF ControlInv, OneMonitor
    <3> QED
      BY <2>2, <3>1, <3>2 DEF Changed
  <2> QED
    BY <2>1, <2>2
<1>6. ASSUME NEW k \in Monitors
      PROVE  (life'[k] \notin {Unborn, Unbound} /\ life'[k].phase # "gone") <=> Alive(life'[k])
  BY <1>1, <1>2, <1>4, AliveForm
<1>7. OneMonitor'
  BY <1>1, <1>5, <1>6 DEF OneMonitor
<1> QED
  BY <1>2, <1>4, <1>7

\* A monitor's own step keeps the invariant if whoever started the monitor has seen the
\* service once it is launched or reported.
LEMMA MonitorKeeps ==
    ASSUME ControlInv, NEW m \in Monitors, NEW n \in Lives, NEW r \in {"open", "closed", "failed"},
           Changed(m, n, r), life[m] # Unborn, UNCHANGED clients, Witness, UNCHANGED <<unit, faults>>,
           m \in Clients /\ "exec" \notin faults /\ pc[m] = "report" /\ (Launched(n) \/ r = "closed") => up[m] \/ Up(n)
    PROVE  ControlInv'
<1>1. life'[m] = n /\ report'[m] = r
  BY DEF Changed, ControlInv, TypeOK
<1>2. \A k \in Monitors \ {m} : life'[k] = life[k] /\ report'[k] = report[k]
  BY SMTT(30) DEF Changed, ControlInv, TypeOK
<1>3. \A c \in Clients : c \in Monitors
  BY DEF Monitors
<1>4. TypeOK'
  <2>1. life' \in [Monitors -> Lives' \cup {Unborn}] /\ report' \in [Monitors -> {"open", "closed", "failed"}]
    BY ChangedKeeps
  <2>2. bound' \in Monitors \cup {NoMon}
    BY DEF Changed
  <2>3. /\ pc \in [Clients -> PCs] /\ st \in [Clients -> Heard] /\ code \in [Clients -> Results]
        /\ \A c \in Clients : (code[c] = Pending) <=> (pc[c] # "done")
    BY DEF ControlInv, TypeOK
  <2>4. UNCHANGED <<pc, st, code, verb>>
    BY DEF clients
  <2> QED
    BY <2>1, <2>2, <2>3, <2>4, TypeForm
<1>5. StopTruth' /\ StartTruth'
  <2>1. UNCHANGED <<pc, code, verb>>
    BY DEF clients
  <2> QED
    BY <2>1, TruthForm
<1>6. ASSUME NEW c \in Clients
      PROVE  (/\ pc[c] \in Plan(verb[c])
              /\ pc[c] \notin {"report", "done"} => life[c] = Unborn
              /\ st[c] = "stopped" => down[c]
              /\ pc[c] = "idle" => st[c] = "none")'
  BY <1>2, <1>3, WitnessForm DEF ControlInv, clients
<1>7. ASSUME NEW c \in Clients, "exec" \notin faults, pc[c] = "report", Launched(life'[c]) \/ report'[c] = "closed"
      PROVE  up'[c]
  <2>1. up[c] \/ \E k \in Monitors : Up(life'[k])
    BY <1>1, <1>2, <1>3, <1>7 DEF ControlInv
  <2> QED
    BY <1>7, <2>1, WitnessForm DEF clients
<1> QED
  BY <1>4, <1>5, <1>6, <1>7, ChangedKeeps DEF ControlInv, clients, Sane

\* monitor_control_listen(): of several new monitors one binds the socket, the others
\* exit.
LEMMA ListenKeeps ==
    ASSUME ControlInv, NEW m \in Monitors, Listen(m), UNCHANGED clients, Witness, UNCHANGED <<unit, faults>>
    PROVE  ControlInv'
<1>1. life[m] = Unbound /\ bound # m /\ Unbound # Unborn
  <2>1. life[m] = Unbound
    BY DEF Listen
  <2>2. bound # m
    BY <2>1 DEF ControlInv, OneMonitor
  <2>3. Unbound.state = "idle" /\ Unborn.state = "none"
    BY Forms DEF Unborn
  <2> QED
    BY <2>1, <2>2, <2>3
<1>2. \A k \in Monitors : k # NoMon
  BY ControlAssumption DEF Monitors
<1>3. CASE bound = NoMon
  <2> DEFINE n == ML!Born(unit.type)
  <2>1. life' = [life EXCEPT ![m] = n] /\ bound' = m /\ UNCHANGED report
    BY <1>3 DEF Listen
  <2>2. n \in Lives /\ Sane(n) /\ Alive(n) /\ ~Launched(n)
    BY Forms, SMT DEF Sane, Alive, Launched, ML!Serving
  <2>3. report[m] \in {"open", "closed", "failed"} /\ report = [report EXCEPT ![m] = report[m]]
    BY DEF ControlInv, TypeOK
  <2> HIDE DEF n
  <2>4. Changed(m, n, report[m])
    BY <1>2, <1>3, <2>1, <2>2, <2>3 DEF Changed
  <2>5. m \in Clients /\ "exec" \notin faults /\ pc[m] = "report" /\ report[m] = "closed" => up[m]
    BY DEF ControlInv
  <2> QED
    BY <1>1, <2>2, <2>3, <2>4, <2>5, MonitorKeeps
<1>4. CASE bound # NoMon
  <2> DEFINE n == Gone(Unbound)
  <2>1. life' = [life EXCEPT ![m] = n] /\ report' = [report EXCEPT ![m] = "failed"] /\ UNCHANGED bound
    BY <1>1, <1>4 DEF Listen
  <2>2. n \in Lives /\ Sane(n) /\ ~Alive(n) /\ ~Launched(n)
    BY Forms, GoneForm DEF Sane, Alive, Launched, ML!Serving
  <2> HIDE DEF n
  <2>3. Changed(m, n, "failed")
    BY <1>1, <2>1, <2>2 DEF Changed, ControlInv, TypeOK
  <2> QED
    BY <1>1, <2>2, <2>3, MonitorKeeps
<1> QED
  BY <1>3, <1>4

\* A monitor that cannot be set up frees the socket if it has bound it.
LEMMA SetupKeeps ==
    ASSUME ControlInv, NEW m \in Monitors, SetupFails(m), UNCHANGED clients, Witness, UNCHANGED <<unit, faults>>
    PROVE  ControlInv'
<1> DEFINE n == Gone(life[m])
<1>1. life[m] \in Lives /\ life[m] # Unborn /\ life[m].state \in {"idle", "starting"}
  <2>1. life[m] \in {Unbound, ML!Born(unit.type)}
    BY DEF SetupFails
  <2>2. Unborn.state = "none"
    BY DEF Unborn
  <2>3. Unbound.state = "idle"
    BY Forms
  <2>4. ML!Born(unit.type).state = "starting"
    BY Forms, SMT
  <2>5. Unbound \in Lives /\ ML!Born(unit.type) \in Lives
    BY Forms
  <2> QED
    BY <2>1, <2>2, <2>3, <2>4, <2>5
<1>2. n \in Lives /\ Sane(n) /\ ~Alive(n) /\ ~Launched(n)
  BY <1>1, GoneForm DEF Sane, Alive, Launched, ML!Serving
<1>3. life' = [life EXCEPT ![m] = n] /\ report' = [report EXCEPT ![m] = "failed"]
  BY DEF SetupFails
<1>4. /\ bound' \in Monitors \cup {NoMon} /\ bound' # m
      /\ \A k \in Monitors \ {m} : bound' = k <=> bound = k
  BY ControlAssumption, SMTT(30) DEF SetupFails, ControlInv, TypeOK, Monitors
<1> HIDE DEF n
<1>5. Changed(m, n, "failed")
  BY <1>2, <1>3, <1>4 DEF Changed
<1> QED
  BY <1>1, <1>2, <1>5, MonitorKeeps

\* monitor_func(): whatever the monitor does, it is still the one that is bound, or
\* the socket is free.
LEMMA StepKeeps ==
    ASSUME ControlInv, NEW m \in Monitors, NEW n \in Lives, MonitorStep(m, n), UNCHANGED clients, Witness,
           UNCHANGED <<unit, faults>>
    PROVE  ControlInv'
<1>1. /\ bound = m /\ ML!Step(life[m], n) /\ life' = [life EXCEPT ![m] = n]
      /\ ML!LaunchFails(life[m], n) => "exec" \in faults
      /\ bound' = IF n.phase = "gone" THEN NoMon ELSE bound
  BY DEF MonitorStep
<1>2. PICK r \in IF report[m] = "open" THEN Reported(life[m], n) ELSE {report[m]} :
            report' = [report EXCEPT ![m] = r]
  BY DEF MonitorStep
<1>3. life[m] \in Lives /\ life[m] # Unborn /\ Sane(life[m])
  BY <1>1 DEF ControlInv, TypeOK, OneMonitor, Sane
<1>4. /\ Sane(n) /\ n.state # "idle"
      /\ n.phase = "gone" => Launched(life[m])
      /\ n.state = "running" => n.phase = "watch"
      /\ Launched(n) /\ ~Launched(life[m]) => n.phase = "watch" \/ ML!LaunchFails(life[m], n)
  BY <1>1, <1>3, StepForm
<1>5. n.state # "none"
  BY DEF Lives, ML!States, ML!Final
<1>6. r \in {"open", "closed", "failed"}
  BY <1>2 DEF Reported, ControlInv, TypeOK
<1>7. Changed(m, n, r)
  BY <1>1, <1>2, <1>4, <1>5, ControlAssumption DEF Changed, Alive, Monitors
<1>8. ASSUME m \in Clients, "exec" \notin faults, pc[m] = "report", Launched(n) \/ r = "closed"
      PROVE  up[m] \/ Up(n)
  <2>1. Launched(life[m]) \/ report[m] = "closed" => up[m]
    BY <1>8 DEF ControlInv
  <2>2. CASE Launched(n)
    BY <1>1, <1>4, <1>8, <2>1, <2>2 DEF Up
  <2>3. CASE r = "closed" /\ report[m] # "closed"
    <3>1. n.state = "running" \/ n.phase = "gone" \/ life[m].phase = "watch"
      BY <1>2, <2>3 DEF Reported, ML!Leave
    <3>2. life[m].phase = "watch" => Launched(life[m])
      BY <1>3 DEF Sane, Launched, ML!Serving, Lives, ML!States, ML!Final
    <3> QED
      BY <1>4, <2>1, <3>1, <3>2 DEF Up
  <2> QED
    BY <1>8, <2>1, <2>2, <2>3
<1> QED
  BY <1>3, <1>6, <1>7, <1>8, MonitorKeeps

\* command_monitor(): the new monitor competes for the socket, and has not got it.
LEMMA ForkKeeps ==
    ASSUME ControlInv, NEW c \in Clients, command_monitor(c), UNCHANGED verb, Witness, UNCHANGED <<unit, faults>>
    PROVE  ControlInv'
<1>1. /\ pc[c] = "fork" /\ life' = [life EXCEPT ![c] = Unbound] /\ report' = [report EXCEPT ![c] = "open"]
      /\ pc' = [pc EXCEPT ![c] = "report"] /\ UNCHANGED <<bound, st, code>>
  BY DEF command_monitor, Goto
<1>2. c \in Monitors /\ life[c] = Unborn /\ bound # c
  BY <1>1 DEF ControlInv, OneMonitor, Monitors
<1>3. Unbound \in Lives /\ Sane(Unbound) /\ ~Alive(Unbound) /\ ~Launched(Unbound)
  BY Forms DEF Sane, Alive, Launched, ML!Serving
<1>4. Changed(c, Unbound, "open")
  BY <1>1, <1>2, <1>3 DEF Changed, ControlInv, TypeOK
<1>5. /\ life' \in [Monitors -> Lives' \cup {Unborn}] /\ report' \in [Monitors -> {"open", "closed", "failed"}]
      /\ \A k \in Monitors : Sane(life'[k])
      /\ OneMonitor'
  BY <1>2, <1>3, <1>4, ChangedKeeps
<1>6. pc' \in [Clients -> PCs] /\ pc'[c] = "report" /\ \A d \in Clients \ {c} : pc'[d] = pc[d]
  BY <1>1, SMT DEF ControlInv, TypeOK, PCs
<1>7. "report" \in Plan(verb[c])
  BY <1>1, PlanForm DEF ControlInv, TypeOK
<1>8. TypeOK'
  <2>1. bound \in Monitors \cup {NoMon} /\ st \in [Clients -> Heard] /\ code \in [Clients -> Results]
    BY DEF ControlInv, TypeOK
  <2>2. \A d \in Clients : (code[d] = Pending) <=> (pc'[d] # "done")
    BY <1>1, <1>6 DEF ControlInv, TypeOK
  <2> QED
    BY <1>1, <1>5, <1>6, <2>1, <2>2, TypeForm
<1>9. StopTruth' /\ StartTruth'
  <2>1. \A d \in Clients, v \in {"start", "stop"} : Done(d, v)' => Done(d, v) /\ pc'[d] # "idle"
    <3>1. \A d \in Clients : code[d] = 0 => pc[d] = "done" /\ d # c
      BY <1>1, SMT DEF ControlInv, TypeOK, Pending
    <3> QED
      BY <1>1, <1>6, <3>1 DEF Done
  <2>2. \A d \in Clients : pc'[d] # "idle" => (down[d] => down'[d]) /\ (up[d] => up'[d])
    BY WitnessForm
  <2> QED
    BY <2>1, <2>2 DEF ControlInv, StopTruth, StartTruth
<1>10. ASSUME NEW d \in Clients
       PROVE  (/\ pc[d] \in Plan(verb[d])
               /\ pc[d] \notin {"report", "done"} => life[d] = Unborn
               /\ st[d] = "stopped" => down[d]
               /\ pc[d] = "idle" => st[d] = "none"
               /\ "exec" \notin faults /\ pc[d] = "report" /\ (Launched(life[d]) \/ report[d] = "closed") => up[d])'
  <2>1. CASE d = c
    <3>1. life'[c] = Unbound /\ report'[c] = "open"
      BY <1>1, <1>2 DEF ControlInv, TypeOK
    <3> QED
      BY <1>1, <1>3, <1>6, <1>7, <2>1, <3>1, WitnessForm DEF ControlInv
  <2>2. CASE d # c
    <3>1. life'[d] = life[d] /\ report'[d] = report[d]
      BY <1>1, <2>2 DEF ControlInv, TypeOK, Monitors
    <3> QED
      BY <1>1, <1>6, <2>2, <3>1, WitnessForm DEF ControlInv
  <2> QED
    BY <2>1, <2>2
<1> QED
  BY <1>5, <1>8, <1>9, <1>10 DEF ControlInv, Sane

\* monitor_control_stop(): the order is taken by the monitor that is bound, which stays
\* so until it has carried it out.
LEMMA OrderKeeps ==
    ASSUME ControlInv, NEW c \in Clients, StopOrder(c), UNCHANGED verb, Witness, UNCHANGED <<unit, faults>>
    PROVE  ControlInv'
<1>1. pc[c] = "send" /\ bound \in Monitors /\ UNCHANGED <<bound, report, code>>
  <2>1. pc[c] = "send" /\ bound # NoMon /\ UNCHANGED <<bound, report>>
    BY DEF StopOrder
  <2>2. bound \in Monitors \cup {NoMon}
    BY DEF ControlInv, TypeOK
  <2>3. UNCHANGED code
    BY DEF StopOrder, Goto
  <2> QED
    BY <2>1, <2>2, <2>3
<1>2. PICK n \in Lives : ML!Order(life[bound], n, "stop") /\ life' = [life EXCEPT ![bound] = n]
  BY DEF StopOrder
<1>3. PICK l \in {"wait", "kill"}, s \in {"stopping", "error", st[c]} :
        pc' = [pc EXCEPT ![c] = l] /\ st' = [st EXCEPT ![c] = s]
  <2>1. CASE Goto(c, "wait") /\ Told(c, "stopping")
    BY <2>1 DEF Goto, Told
  <2>2. CASE Goto(c, "kill") /\ st' \in {st, [st EXCEPT ![c] = "error"]}
    <3>1. st = [st EXCEPT ![c] = st[c]]
      BY DEF ControlInv, TypeOK
    <3> QED
      BY <2>2, <3>1 DEF Goto
  <2> QED
    BY <2>1, <2>2 DEF StopOrder
<1>4. life[bound] \in Lives /\ Sane(life[bound])
  BY <1>1 DEF ControlInv, TypeOK, OneMonitor, Sane
<1>5. Sane(n) /\ Alive(n) /\ Launched(life[bound])
  BY <1>2, <1>4, OrderForm
<1>6. report[bound] \in {"open", "closed", "failed"} /\ Changed(bound, n, report[bound])
  BY <1>1, <1>2, <1>5 DEF Changed, ControlInv, TypeOK
<1>7. /\ life' \in [Monitors -> Lives' \cup {Unborn}] /\ report' \in [Monitors -> {"open", "closed", "failed"}]
      /\ \A k \in Monitors : Sane(life'[k])
      /\ OneMonitor'
  BY <1>1, <1>6, ChangedKeeps
<1>8. pc' \in [Clients -> PCs] /\ pc'[c] = l /\ \A d \in Clients \ {c} : pc'[d] = pc[d]
  BY <1>3 DEF ControlInv, TypeOK, PCs
<1>9. st' \in [Clients -> Heard] /\ st'[c] = s /\ \A d \in Clients \ {c} : st'[d] = st[d]
  BY <1>3, SMTT(30) DEF ControlInv, TypeOK, Heard
<1>10. l \in Plan(verb[c])
  BY <1>1, PlanForm DEF ControlInv, TypeOK
<1>11. TypeOK'
  <2>1. bound' \in Monitors \cup {NoMon}
    BY <1>1
  <2>2. code' \in [Clients -> Results] /\ \A d \in Clients : (code'[d] = Pending) <=> (pc[d] # "done")
    BY <1>1 DEF ControlInv, TypeOK
  <2>3. \A d \in Clients : (pc'[d] = "done") <=> (pc[d] = "done")
    BY <1>1, <1>8
  <2> QED
    BY <1>7, <1>8, <1>9, <2>1, <2>2, <2>3, TypeForm
<1>12. StopTruth' /\ StartTruth'
  <2>1. \A d \in Clients : pc[d] = "done" => pc'[d] # "idle"
    BY <1>1, <1>8
  <2> QED
    BY <1>1, <2>1, TruthForm
<1>13. ASSUME NEW d \in Clients
       PROVE  (/\ pc[d] \in Plan(verb[d])
               /\ pc[d] \notin {"report", "done"} => life[d] = Unborn
               /\ st[d] = "stopped" => down[d]
               /\ pc[d] = "idle" => st[d] = "none"
               /\ "exec" \notin faults /\ pc[d] = "report" /\ (Launched(life[d]) \/ report[d] = "closed") => up[d])'
  <2>1. d \in Monitors /\ (life[d] = Unborn => d # bound)
    BY DEF ControlInv, OneMonitor, Monitors
  <2>2. life[d] = Unborn => life'[d] = Unborn
    BY <1>1, <1>2, <2>1 DEF ControlInv, TypeOK
  <2>3. Launched(life'[d]) => Launched(life[d])
    BY <1>1, <1>2, <1>5, <2>1 DEF ControlInv, TypeOK
  <2>4. CASE d = c
    BY <1>1, <1>3, <1>8, <1>9, <1>10, <2>2, <2>4, WitnessForm DEF ControlInv
  <2>5. CASE d # c
    BY <1>1, <1>8, <1>9, <2>2, <2>3, <2>5, WitnessForm DEF ControlInv
  <2> QED
    BY <2>4, <2>5
<1> QED
  BY <1>7, <1>11, <1>12, <1>13 DEF ControlInv, Sane
-----------------------------------------------------------------------------
\* At first there is the monitor that was started earlier, or none.
LEMMA ControlInvInit == Init => ControlInv
<1> SUFFICES ASSUME Init PROVE ControlInv
  OBVIOUS
<1>1. PICK l \in {Unborn, ML!Born(unit.type)} : life = [m \in Monitors |-> IF m = Boot THEN l ELSE Unborn]
  BY DEF Init
<1>2. Boot \in Monitors /\ NoMon \notin Monitors /\ (\A c \in Clients : c \in Monitors /\ c # Boot)
  BY ControlAssumption DEF Monitors
<1>3. life[Boot] = l /\ \A m \in Monitors : m # Boot => life[m] = Unborn
  BY <1>1, <1>2
<1>4. l \in Lives \cup {Unborn} /\ Sane(l) /\ Sane(Unborn) /\ ~Alive(Unborn) /\ (l # Unborn => Alive(l))
  BY Forms, SMT DEF Sane, Alive, Unborn, ML!Serving
<1>5. life \in [Monitors -> Lives \cup {Unborn}] /\ \A m \in Monitors : Sane(life[m])
  BY <1>1, <1>3, <1>4
<1>6. TypeOK
  BY <1>2, <1>5 DEF Init, TypeOK, Heard, Results, Pending, PCs
<1>7. \A m \in Monitors : (bound = m) <=> Alive(life[m])
  BY <1>2, <1>3, <1>4 DEF Init
<1>8. OneMonitor
  BY <1>5, <1>7, AliveForm DEF OneMonitor
<1>9. StartTruth /\ StopTruth
  BY SMT DEF Init, StartTruth, StopTruth, Done, Pending
<1>10. ~Launched(Unborn)
  BY DEF Launched, Unborn
<1>11. \A v \in Verbs : "idle" \in Plan(v)
  BY DEF Plan, PCs
<1> QED
  BY <1>2, <1>3, <1>5, <1>6, <1>8, <1>9, <1>10, <1>11 DEF Init, ControlInv, Sane

\* Every step, of a client or of a monitor, keeps the invariant.
LEMMA ControlInvNext == ControlInv /\ [Next]_vars => ControlInv'
<1> SUFFICES ASSUME ControlInv, [Next]_vars PROVE ControlInv'
  OBVIOUS
<1>1. CASE UNCHANGED vars
  BY <1>1 DEF vars, monitors, clients, ControlInv, TypeOK, OneMonitor, StartTruth, StopTruth, Done, Lives, Unbound
<1>2. ASSUME NEW c \in Clients, ClientStep(c), Witness, UNCHANGED <<unit, faults>> PROVE ControlInv'
  <2>1. UNCHANGED verb
    BY <1>2 DEF ClientStep
  <2>2. ASSUME NEW s \in Answers, Query(c, s) PROVE ControlInv'
    BY <1>2, <2>1, <2>2, QueryIsQuiet, QuietKeeps
  <2>3. ASSUME OwnStep(c) PROVE ControlInv'
    BY <1>2, <2>1, <2>3, OwnStepIsQuiet, QuietKeeps
  <2>4. CASE command_monitor(c)
    BY <1>2, <2>1, <2>4, ForkKeeps
  <2>5. CASE StopOrder(c)
    BY <1>2, <2>1, <2>5, OrderKeeps
  <2> QED
    BY <1>2, <2>2, <2>3, <2>4, <2>5 DEF ClientStep, OwnStep
<1>3. ASSUME NEW m \in Monitors, Run(m), Witness, UNCHANGED <<unit, faults>> PROVE ControlInv'
  BY <1>3, ListenKeeps, SetupKeeps, StepKeeps DEF Run
<1> QED
  BY <1>1, <1>2, <1>3 DEF Next

\* The invariant holds throughout.
THEOREM ControlInvariance == Spec => []ControlInv
  BY ControlInvInit, ControlInvNext, PTL DEF Spec

\* Whatever commands any number of clients give, and whichever of the monitors they
\* start fail, at most one monitor is at work, the one that has bound the control socket.
THEOREM OneMonitorAtATime == Spec => []OneMonitor
<1>1. ControlInv => OneMonitor
  BY DEF ControlInv
<1> QED
  BY <1>1, ControlInvariance, PTL

\* service_start() reports success only if the service was launched meanwhile.
THEOREM StartIsTrue == Spec => []StartTruth
<1>1. ControlInv => StartTruth
  BY DEF ControlInv
<1> QED
  BY <1>1, ControlInvariance, PTL

\* service_stop() reports success only if there was no monitor at some time meanwhile,
\* or if there is a PID file.
THEOREM StopIsTrue == Spec => []StopTruth
<1>1. ControlInv => StopTruth
  BY DEF ControlInv
<1> QED
  BY <1>1, ControlInvariance, PTL

\* Every state is well typed; in particular a command has an exit code exactly when
\* it has ended.
THEOREM ControlTypeCorrect == Spec => []TypeOK
<1>1. ControlInv => TypeOK
  BY DEF ControlInv
<1> QED
  BY <1>1, ControlInvariance, PTL
-----------------------------------------------------------------------------
(* Restarts, of simple and notify services and without faults. *)

\* When RestartInv says something.
Orderly == faults = {} /\ unit.type \in {"simple", "notify"}

\* What the history keeps of a restart: the service was seen after a moment without a
\* monitor.
LEMMA AgainForm ==
    ASSUME Witness, NEW c \in Clients, again[c] \/ (down[c] /\ \E m \in Monitors : Up(life'[m]))
    PROVE  again'[c]
<1>1. again' = [d \in Clients |-> again[d] \/ (down[d] /\ (\E m \in Monitors : Up(life'[m])))]
  BY DEF Witness
<1> QED
  BY <1>1, Zenon

\* A command that goes on has not succeeded.
LEMMA PendingForm ==
    ASSUME ControlInv, NEW c \in Clients, pc[c] # "done"
    PROVE  code[c] # 0
<1>1. code[c] = Pending
  BY DEF ControlInv, TypeOK
<1> QED
  BY <1>1, SMT DEF Pending

\* A client that does nothing itself.
LEMMA AsideKeeps ==
    ASSUME ControlInv, Witness, NEW c \in Clients, Restarted(c), pc'[c] = pc[c], code'[c] = code[c],
           bound # NoMon /\ Halting(life[bound]) => bound' = NoMon \/ Halting(life'[bound']),
           pc[c] = "report" /\ (Launched(life'[c]) \/ report'[c] = "closed") =>
                again[c] \/ (down[c] /\ \E m \in Monitors : Up(life'[m]))
    PROVE  Restarted(c)'
<1>1. pc[c] # "idle" => (down[c] \/ bound' = NoMon => down'[c])
  BY WitnessForm
<1>2. pc[c] \in {"wait", "kill", "start", "up", "ending"} =>
            down'[c] \/ (bound' # NoMon /\ Halting(life'[bound']))
  BY <1>1 DEF Restarted
<1>3. pc[c] \in {"fork", "report"} => down'[c]
  BY <1>1 DEF Restarted
<1>4. pc[c] = "report" /\ (Launched(life'[c]) \/ report'[c] = "closed") => again'[c]
  BY AgainForm
<1>5. code[c] = 0 => again'[c]
  BY AgainForm DEF Restarted
<1> QED
  BY <1>2, <1>3, <1>4, <1>5 DEF Restarted

\* A client goes on to l with exit code res: to wait for a monitor only if that halts,
\* to fork only after a moment without one.
Onward(c, l, res) ==
    /\ UNCHANGED <<life, bound, report>>
    /\ pc' = [pc EXCEPT ![c] = l] /\ code' = [code EXCEPT ![c] = res]
    /\ l \notin {"idle", "status", "reload", "report"}
    /\ l \in {"wait", "kill", "start", "up", "ending"} =>
            down[c] \/ bound = NoMon \/ Halting(life[bound])
    /\ l = "fork" => down[c] \/ bound = NoMon
    /\ res = 0 => again[c] \/ (down[c] /\ \E m \in Monitors : Up(life[m]))

\* Such a step keeps what is said of the client.
LEMMA OnwardKeeps ==
    ASSUME ControlInv, Witness, NEW c \in Clients, NEW l \in PCs, NEW res \in Results, Onward(c, l, res)
    PROVE  Restarted(c)'
<1>1. pc'[c] = l /\ code'[c] = res
  BY DEF Onward, ControlInv, TypeOK
<1>2. l # "idle" /\ (down[c] \/ bound' = NoMon => down'[c])
  BY <1>1, WitnessForm DEF Onward
<1>3. l \in {"wait", "kill", "start", "up", "ending"} =>
            down'[c] \/ (bound' # NoMon /\ Halting(life'[bound']))
  BY <1>2 DEF Onward
<1>4. l = "fork" => down'[c]
  BY <1>2 DEF Onward
<1>5. res = 0 => again'[c]
  BY AgainForm DEF Onward
<1> QED
  BY <1>1, <1>3, <1>4, <1>5 DEF Onward, Restarted

\* Without faults, a request is answered with the state of the monitor, or "stopped".
LEMMA AnswerHonest ==
    ASSUME ControlInv, Orderly, Answered, NEW s \in Answers
    PROVE  /\ s # "error"
           /\ bound = NoMon <=> s = "stopped"
           /\ bound # NoMon => s = life[bound].state /\ (Halting(life[bound]) <=> s = "stopping")
<1>1. CASE bound = NoMon
  BY <1>1 DEF Answers
<1>2. CASE bound # NoMon
  <2>1. s = life[bound].state
    BY <1>2 DEF Answers, Orderly
  <2>2. bound \in Monitors /\ ML!Serving(life[bound])
    BY <1>2 DEF ControlInv, TypeOK, Answered
  <2>3. life[bound] \in Lives
    BY <2>2 DEF ControlInv, TypeOK, OneMonitor
  <2>4. s \in ML!States \ ML!Final
    BY <2>1, <2>2, <2>3 DEF ControlInv, Lives
  <2> QED
    BY <1>2, <2>1, <2>4 DEF ML!States, ML!Final, Halting
<1> QED
  BY <1>1, <1>2

\* Whoever restarts the service and asks for its state goes onward.
LEMMA QueryOnward ==
    ASSUME ControlInv, Orderly, NEW c \in Clients, verb[c] = "restart", Restarted(c),
           NEW s \in Answers, Query(c, s)
    PROVE  \E l \in PCs, res \in Results : Onward(c, l, res)
<1>1. Answered
  BY DEF Query, service_start, StartWait, StopAwait, service_stop, StopCommandWait, monitor_control_stop,
         StopWait, service_status, service_reload
<1>2. /\ s # "error" /\ (bound = NoMon <=> s = "stopped")
      /\ bound # NoMon => s = life[bound].state /\ (Halting(life[bound]) <=> s = "stopping")
  BY <1>1, AnswerHonest
<1>3. s \in {"running", "remaining"} => \E m \in Monitors : Up(life[m])
  BY <1>1, AnswersForm
<1>4. /\ pc[c] \in PCs /\ code[c] \in Results /\ (code[c] = Pending <=> pc[c] # "done")
      /\ code = [code EXCEPT ![c] = code[c]] /\ pc = [pc EXCEPT ![c] = pc[c]]
  BY DEF ControlInv, TypeOK
<1>5. /\ {"cmd", "cmdwait", "identify", "ask", "send", "wait", "kill", "start", "up", "ending", "fork", "done"} \subseteq PCs
      /\ 0 \in Results /\ 1 \in Results /\ Pending # 0
  BY SMT DEF PCs, Results, Pending
<1>6. pc[c] # "done" => code[c] # 0
  BY PendingForm
<1>7. pc[c] \in {"start", "up"} /\ s \in {"running", "remaining"} => down[c]
  BY <1>2 DEF Restarted
<1>8. pc[c] \in {"wait", "start", "up", "ending"} => down[c] \/ bound = NoMon \/ Halting(life[bound])
  BY DEF Restarted
<1> USE <1>2, <1>3, <1>4, <1>5, <1>6, <1>7, <1>8 DEF Told, Exit, Goto, Idle, monitors, Onward
<1>9. CASE service_start(c, s)
  <2>1. pc[c] = "start" /\ Idle
    BY <1>9 DEF service_start
  <2>2. CASE s \in {"running", "remaining"}
    <3>1. Onward(c, "done", 0)
      BY <1>9, <2>1, <2>2 DEF service_start
    <3> QED
      BY <3>1
  <2>3. CASE s \in {"starting", "restarting"}
    <3>1. Onward(c, "up", code[c])
      BY <1>9, <2>1, <2>3 DEF service_start
    <3> QED
      BY <3>1
  <2>4. CASE s = "stopped"
    <3>1. Onward(c, "fork", code[c])
      BY <1>9, <2>1, <2>4 DEF service_start
    <3> QED
      BY <3>1
  <2>5. CASE s \notin {"running", "remaining", "starting", "restarting", "stopped"}
    <3>1. Onward(c, "ending", code[c])
      BY <1>9, <2>1, <2>5 DEF service_start
    <3> QED
      BY <3>1
  <2> QED
    BY <2>2, <2>3, <2>4, <2>5
<1>10. CASE StartWait(c, s)
  <2>1. pc[c] = "up" /\ Idle
    BY <1>10 DEF StartWait
  <2>2. CASE s \in {"running", "remaining"}
    <3>1. Onward(c, "done", 0)
      BY <1>10, <2>1, <2>2 DEF StartWait
    <3> QED
      BY <3>1
  <2>3. CASE s = "stopped"
    <3>1. Onward(c, "fork", code[c])
      BY <1>10, <2>1, <2>3 DEF StartWait
    <3> QED
      BY <3>1
  <2>4. CASE s \notin {"running", "remaining", "stopped"}
    <3>1. Onward(c, "up", code[c])
      BY <1>10, <2>1, <2>4 DEF StartWait
    <3> QED
      BY <3>1
  <2> QED
    BY <2>2, <2>3, <2>4
<1>11. CASE StopAwait(c, s)
  <2>1. CASE s = "stopped"
    <3>1. Onward(c, "fork", code[c])
      BY <1>11, <2>1 DEF StopAwait
    <3> QED
      BY <3>1
  <2>2. CASE s # "stopped"
    <3>1. Onward(c, "ending", code[c])
      BY <1>11, <2>2 DEF StopAwait
    <3> QED
      BY <3>1
  <2> QED
    BY <2>1, <2>2
<1>12. CASE service_stop(c, s)
  <2>1. CASE s = "stopped"
    <3>1. Onward(c, "start", code[c])
      BY <1>12, <2>1 DEF service_stop, Stopped
    <3> QED
      BY <3>1
  <2>2. CASE s # "stopped"
    <3>1. Onward(c, "cmd", code[c]) \/ Onward(c, "identify", code[c])
      BY <1>12, <2>2 DEF service_stop
    <3> QED
      BY <3>1
  <2> QED
    BY <2>1, <2>2
<1>13. CASE StopCommandWait(c, s)
  <2>1. CASE s = "stopped"
    <3>1. Onward(c, "start", code[c])
      BY <1>13, <2>1 DEF StopCommandWait, Stopped
    <3> QED
      BY <3>1
  <2>2. CASE s # "stopped"
    <3>1. Onward(c, "cmdwait", code[c])
      BY <1>13, <2>2 DEF StopCommandWait
    <3> QED
      BY <3>1
  <2> QED
    BY <2>1, <2>2
<1>14. CASE monitor_control_stop(c, s)
  <2>1. CASE s = "stopped"
    <3>1. Onward(c, "kill", code[c])
      BY <1>14, <2>1 DEF monitor_control_stop
    <3> QED
      BY <3>1
  <2>2. CASE s = "stopping"
    <3>1. Onward(c, "wait", code[c])
      BY <1>14, <2>2 DEF monitor_control_stop
    <3> QED
      BY <3>1
  <2>3. CASE s \notin {"stopped", "stopping"}
    <3>1. Onward(c, "send", code[c])
      BY <1>14, <2>3 DEF monitor_control_stop
    <3> QED
      BY <3>1
  <2> QED
    BY <2>1, <2>2, <2>3
<1>15. CASE StopWait(c, s)
  <2>1. CASE s = "stopped"
    <3>1. Onward(c, "kill", code[c])
      BY <1>15, <2>1 DEF StopWait
    <3> QED
      BY <3>1
  <2>2. CASE s # "stopped"
    <3>1. Onward(c, "wait", code[c])
      BY <1>15, <2>2 DEF StopWait
    <3> QED
      BY <3>1
  <2> QED
    BY <2>1, <2>2
<1>16. ~service_status(c, s) /\ ~service_reload(c, s)
  BY DEF service_status, service_reload, Restarted
<1> QED
  BY <1>9, <1>10, <1>11, <1>12, <1>13, <1>14, <1>15, <1>16 DEF Query

\* So do its other steps that leave the monitors alone.
LEMMA OwnStepOnward ==
    ASSUME ControlInv, Orderly, NEW c \in Clients, verb[c] = "restart", Restarted(c), OwnStep(c)
    PROVE  \E l \in PCs, res \in Results : Onward(c, l, res)
<1>1. /\ pc[c] \in PCs /\ code[c] \in Results /\ (code[c] = Pending <=> pc[c] # "done")
      /\ code = [code EXCEPT ![c] = code[c]] /\ pc = [pc EXCEPT ![c] = pc[c]]
  BY DEF ControlInv, TypeOK
<1>2. /\ {"stop", "cmdwait", "identify", "ask", "kill", "start", "done"} \subseteq PCs
      /\ 0 \in Results /\ 1 \in Results /\ Pending # 0
  BY SMT DEF PCs, Results, Pending
<1>3. pc[c] # "done" => code[c] # 0
  BY PendingForm
<1>4. pc[c] \in {"wait", "kill"} => down[c] \/ bound = NoMon \/ Halting(life[bound])
  BY DEF Restarted
<1>5. pc[c] = "report" /\ report[c] = "closed" => again[c]
  BY DEF Restarted
<1> USE <1>1, <1>2, <1>3, <1>4, <1>5 DEF Told, Exit, Goto, Idle, monitors
<1>6. CASE Begin(c)
  <2>1. Onward(c, "stop", code[c])
    BY <1>6 DEF Begin, Onward
  <2> QED
    BY <2>1
<1>7. CASE CannotStart(c)
  <2>1. Onward(c, "done", 1)
    BY <1>7, SMT DEF CannotStart, Onward
  <2> QED
    BY <2>1
<1>8. CASE Started(c)
  <2>1. Onward(c, "done", IF report[c] = "closed" THEN 0 ELSE 1)
    BY <1>8, SMT DEF Started, Onward
  <2> QED
    BY <2>1
<1>9. CASE StartTimeout(c)
  <2>1. Onward(c, "done", 1)
    BY <1>9, SMT DEF StartTimeout, Onward
  <2> QED
    BY <2>1
<1>10. CASE StopCommand(c)
  <2>1. Onward(c, "cmdwait", code[c])
    BY <1>10 DEF StopCommand, Onward
  <2> QED
    BY <2>1
<1>11. CASE StopCommandTimeout(c)
  <2>1. Onward(c, "identify", code[c])
    BY <1>11 DEF StopCommandTimeout, Onward
  <2> QED
    BY <2>1
<1>12. CASE Identify(c)
  <2>1. Onward(c, "ask", code[c])
    BY <1>12 DEF Identify, Onward
  <2> QED
    BY <2>1
<1>13. CASE StopUnanswered(c)
  <2>1. pc[c] = "send" /\ bound = NoMon
    BY <1>13 DEF StopUnanswered, Orderly
  <2>2. Onward(c, "kill", code[c])
    BY <1>13, <2>1 DEF StopUnanswered, Onward
  <2> QED
    BY <2>2
<1>14. CASE StopTimeout(c)
  <2>1. Onward(c, "kill", code[c])
    BY <1>14 DEF StopTimeout, Onward
  <2> QED
    BY <2>1
<1>15. CASE StopEnd(c)
  <2>1. pc[c] = "kill" /\ Idle /\ (Goto(c, "start") \/ Exit(c, 1))
    BY <1>15 DEF StopEnd, Stopped
  <2>2. Onward(c, "start", code[c]) \/ Onward(c, "done", 1)
    BY <2>1, SMT DEF Onward
  <2> QED
    BY <2>2
<1> QED
  BY <1>6, <1>7, <1>8, <1>9, <1>10, <1>11, <1>12, <1>13, <1>14, <1>15 DEF OwnStep

\* A client's quiet step keeps RestartInv.
LEMMA OnwardRestart ==
    ASSUME ControlInv, Orderly, \A d \in Clients : verb[d] = "restart" => Restarted(d), Witness,
           NEW c \in Clients, UNCHANGED <<life, bound, report, verb>>,
           \A d \in Clients \ {c} : pc'[d] = pc[d] /\ code'[d] = code[d],
           verb[c] = "restart" => \E l \in PCs, res \in Results : Onward(c, l, res)
    PROVE  \A d \in Clients : verb'[d] = "restart" => Restarted(d)'
<1> SUFFICES ASSUME NEW d \in Clients, verb[d] = "restart" PROVE Restarted(d)'
  OBVIOUS
<1>1. CASE d = c
  BY <1>1, OnwardKeeps
<1>2. CASE d # c
  <2>1. pc'[d] = pc[d] /\ code'[d] = code[d] /\ Restarted(d)
    BY <1>2
  <2>2. Launched(life'[d]) \/ report'[d] = "closed" => Launched(life[d]) \/ report[d] = "closed"
    OBVIOUS
  <2> QED
    BY <2>1, <2>2, AsideKeeps DEF Restarted
<1> QED
  BY <1>1, <1>2

\* A monitor that halts does so until it has exited.
LEMMA HaltForm ==
    ASSUME NEW l \in Lives, NEW n \in Lives, Sane(l), ML!Step(l, n), ~ML!Die(l, n),
           unit.type \in {"simple", "notify"}, Halting(l)
    PROVE  Halting(n)
<1> USE DEF Lives, Sane, Halting, ML!At, ML!Serving, ML!States, ML!Phases, ML!Final
<1>1. CASE ML!Leave(l, n)
  BY <1>1, SMT DEF ML!Leave, ML!Decided
<1>2. CASE ML!Stopped(l, n)
  BY <1>2 DEF ML!Stopped
<1>3. CASE ML!Close(l, n)
  BY <1>3 DEF ML!Close
<1> QED
  BY <1>1, <1>2, <1>3
     DEF ML!Step, ML!Launch, ML!LaunchFails, ML!Ready, ML!Delay, ML!DelayOver, ML!GiveUp

\* Steps of monitors: a monitor that halts goes on to halt, and the service of whoever
\* restarts it is seen once it is launched.
LEMMA RunRestart ==
    ASSUME ControlInv, Orderly, \A d \in Clients : verb[d] = "restart" => Restarted(d), Witness,
           NEW m \in Monitors, Run(m), UNCHANGED <<unit, faults>>
    PROVE  \A d \in Clients : verb'[d] = "restart" => Restarted(d)'
<1> SUFFICES ASSUME NEW d \in Clients, verb[d] = "restart" PROVE Restarted(d)'
  BY DEF Run, clients
<1>1. pc'[d] = pc[d] /\ code'[d] = code[d] /\ Restarted(d) /\ d \in Monitors
  BY DEF Run, clients, Monitors
<1>2. life \in [Monitors -> Lives \cup {Unborn}] /\ report \in [Monitors -> {"open", "closed", "failed"}]
      /\ bound \in Monitors \cup {NoMon} /\ NoMon \notin Monitors
  BY ControlAssumption DEF ControlInv, TypeOK, Monitors
<1>3. CASE Listen(m)
  <2>1. life[m] = Unbound
    BY <1>3 DEF Listen
  <2>2. bound # m
    BY <2>1 DEF ControlInv, OneMonitor
  <2>3. CASE bound = NoMon
    <3>1. life' = [life EXCEPT ![m] = ML!Born(unit.type)] /\ UNCHANGED report
      BY <1>3, <2>3 DEF Listen
    <3>2. ~Launched(ML!Born(unit.type))
      BY Forms, SMT DEF Launched
    <3>3. Launched(life'[d]) \/ report'[d] = "closed" => Launched(life[d]) \/ report[d] = "closed"
      BY <1>1, <1>2, <3>1, <3>2
    <3> QED
      BY <1>1, <2>3, <3>3, AsideKeeps DEF Restarted
  <2>4. CASE bound # NoMon
    <3>1. life' = [life EXCEPT ![m] = Gone(Unbound)] /\ report' = [report EXCEPT ![m] = "failed"]
          /\ UNCHANGED bound
      BY <1>3, <2>1, <2>4 DEF Listen
    <3>2. ~Launched(Gone(Unbound))
      BY Forms, GoneForm DEF Launched
    <3>3. Launched(life'[d]) \/ report'[d] = "closed" => Launched(life[d]) \/ report[d] = "closed"
      BY <1>1, <1>2, <3>1, <3>2
    <3>4. life'[bound'] = life[bound]
      BY <1>2, <2>2, <2>4, <3>1
    <3> QED
      BY <1>1, <3>3, <3>4, AsideKeeps DEF Restarted
  <2> QED
    BY <2>3, <2>4
<1>4. ~SetupFails(m)
  BY DEF SetupFails, Orderly
<1>5. ASSUME NEW n \in Lives, MonitorStep(m, n) PROVE Restarted(d)'
  <2>1. /\ bound = m /\ ML!Step(life[m], n) /\ life' = [life EXCEPT ![m] = n]
        /\ ~ML!LaunchFails(life[m], n) /\ ~ML!Die(life[m], n)
        /\ bound' = IF n.phase = "gone" THEN NoMon ELSE bound
    BY <1>5 DEF MonitorStep, Orderly
  <2>2. PICK r \in IF report[m] = "open" THEN Reported(life[m], n) ELSE {report[m]} :
            report' = [report EXCEPT ![m] = r]
    BY <1>5 DEF MonitorStep
  <2>3. life[m] \in Lives /\ Sane(life[m])
    BY <2>1 DEF ControlInv, TypeOK, OneMonitor, Sane
  <2>4. Halting(life[m]) => n.phase = "gone" \/ Halting(n)
    BY <2>1, <2>3, HaltForm DEF Orderly
  <2>5. Halting(life[bound]) => bound' = NoMon \/ Halting(life'[bound'])
    BY <1>2, <2>1, <2>4
  <2>6. ASSUME pc[d] = "report", Launched(life'[d]) \/ report'[d] = "closed"
        PROVE  again[d] \/ (down[d] /\ \E k \in Monitors : Up(life'[k]))
    <3>1. CASE d # m
      <4>1. life'[d] = life[d] /\ report'[d] = report[d]
        BY <1>1, <1>2, <2>1, <2>2, <3>1
      <4> QED
        BY <1>1, <2>6, <4>1 DEF Restarted
    <3>2. CASE d = m
      <4>1. life'[d] = n /\ report'[d] = r
        BY <1>1, <1>2, <2>1, <2>2, <3>2
      <4>2. /\ n.phase = "gone" => Launched(life[m])
            /\ n.state = "running" => n.phase = "watch"
            /\ Launched(n) /\ ~Launched(life[m]) => n.phase = "watch"
        BY <2>1, <2>3, StepForm
      <4>3. Launched(life[m]) \/ report[m] = "closed" => again[d]
        BY <1>1, <2>6, <3>2 DEF Restarted
      <4>4. r = "closed" /\ report[m] # "closed" =>
                n.state = "running" \/ n.phase = "gone" \/ life[m].phase = "watch"
        BY <2>2 DEF Reported, ML!Leave
      <4>5. life[m].phase = "watch" => Launched(life[m])
        BY <2>3 DEF Sane, Launched, ML!Serving, Lives, ML!States, ML!Final
      <4>6. again[d] \/ n.phase = "watch"
        BY <2>6, <4>1, <4>2, <4>3, <4>4, <4>5
      <4>7. down[d]
        BY <1>1, <2>6 DEF Restarted
      <4> QED
        BY <1>1, <4>1, <4>6, <4>7 DEF Up
    <3> QED
      BY <3>1, <3>2
  <2> QED
    BY <1>1, <2>5, <2>6, AsideKeeps
<1> QED
  BY <1>3, <1>4, <1>5 DEF Run

\* command_monitor(): it is forked after a moment without a monitor.
LEMMA ForkRestart ==
    ASSUME ControlInv, Orderly, \A d \in Clients : verb[d] = "restart" => Restarted(d), Witness,
           NEW c \in Clients, command_monitor(c), UNCHANGED verb
    PROVE  \A d \in Clients : verb'[d] = "restart" => Restarted(d)'
<1> SUFFICES ASSUME NEW d \in Clients, verb[d] = "restart" PROVE Restarted(d)'
  OBVIOUS
<1>1. /\ pc[c] = "fork" /\ life' = [life EXCEPT ![c] = Unbound] /\ report' = [report EXCEPT ![c] = "open"]
      /\ pc' = [pc EXCEPT ![c] = "report"] /\ UNCHANGED <<bound, code>>
  BY DEF command_monitor, Goto
<1>2. /\ life \in [Monitors -> Lives \cup {Unborn}] /\ report \in [Monitors -> {"open", "closed", "failed"}]
      /\ pc \in [Clients -> PCs] /\ c \in Monitors /\ d \in Monitors /\ Restarted(d)
  BY DEF ControlInv, TypeOK, Monitors
<1>3. bound # c
  BY <1>1, <1>2 DEF ControlInv, OneMonitor
<1>4. bound # NoMon => life'[bound] = life[bound]
  BY <1>1, <1>2, <1>3 DEF ControlInv, TypeOK
<1>5. CASE d = c
  <2>1. pc'[d] = "report" /\ life'[d] = Unbound /\ report'[d] = "open" /\ code'[d] # 0
    BY <1>1, <1>2, <1>5, PendingForm
  <2>2. ~Launched(Unbound)
    BY Forms DEF Launched
  <2>3. down'[d]
    BY <1>1, <1>2, <1>5, <2>1, WitnessForm DEF Restarted
  <2> QED
    BY <2>1, <2>2, <2>3 DEF Restarted
<1>6. CASE d # c
  <2>1. pc'[d] = pc[d] /\ code'[d] = code[d] /\ life'[d] = life[d] /\ report'[d] = report[d]
    BY <1>1, <1>2, <1>6
  <2> QED
    BY <1>1, <1>2, <1>4, <2>1, AsideKeeps DEF Restarted
<1> QED
  BY <1>5, <1>6

\* monitor_control_stop(): the monitor takes the order, and halts.
LEMMA OrderRestart ==
    ASSUME ControlInv, Orderly, \A d \in Clients : verb[d] = "restart" => Restarted(d), Witness,
           NEW c \in Clients, StopOrder(c), UNCHANGED verb
    PROVE  \A d \in Clients : verb'[d] = "restart" => Restarted(d)'
<1> SUFFICES ASSUME NEW d \in Clients, verb[d] = "restart" PROVE Restarted(d)'
  OBVIOUS
<1>1. PICK n \in Lives : ML!Order(life[bound], n, "stop") /\ life' = [life EXCEPT ![bound] = n]
  BY DEF StopOrder
<1>2. pc[c] = "send" /\ bound # NoMon /\ UNCHANGED <<bound, report>> /\ Goto(c, "wait")
  BY DEF StopOrder, Orderly
<1>3. /\ life \in [Monitors -> Lives \cup {Unborn}] /\ pc \in [Clients -> PCs]
      /\ d \in Monitors /\ Restarted(d) /\ bound \in Monitors
  BY <1>2 DEF ControlInv, TypeOK, Monitors
<1>4. life[bound] \in Lives /\ Sane(life[bound])
  BY <1>3 DEF ControlInv, TypeOK, OneMonitor, Sane
<1>5. Halting(n) /\ Launched(life[bound])
  BY <1>1, <1>4, OrderForm
<1>6. life'[bound'] = n
  BY <1>1, <1>2, <1>3
<1>7. CASE d = c
  <2>1. pc'[d] = "wait" /\ code'[d] # 0
    BY <1>2, <1>3, <1>7, PendingForm DEF Goto
  <2> QED
    BY <1>2, <1>5, <1>6, <2>1 DEF Restarted
<1>8. CASE d # c
  <2>1. pc'[d] = pc[d] /\ code'[d] = code[d] /\ report'[d] = report[d]
    BY <1>2, <1>3, <1>8 DEF Goto
  <2>2. Launched(life'[d]) => Launched(life[d])
    BY <1>1, <1>3, <1>5
  <2> QED
    BY <1>3, <1>5, <1>6, <2>1, <2>2, AsideKeeps DEF Restarted
<1> QED
  BY <1>7, <1>8

\* Every step keeps RestartInv.
LEMMA RestartInvNext == ControlInv /\ RestartInv /\ [Next]_vars => RestartInv'
<1> SUFFICES ASSUME ControlInv, RestartInv, [Next]_vars, Orderly'
             PROVE  \A d \in Clients : verb'[d] = "restart" => Restarted(d)'
  BY DEF RestartInv, Orderly
<1>1. UNCHANGED <<unit, faults>>
  BY DEF Next, vars
<1>2. Orderly /\ \A d \in Clients : verb[d] = "restart" => Restarted(d)
  BY <1>1 DEF RestartInv, Orderly
<1>3. CASE UNCHANGED vars
  BY <1>2, <1>3 DEF vars, monitors, clients, Restarted
<1>4. ASSUME NEW c \in Clients, ClientStep(c), Witness
      PROVE  \A d \in Clients : verb'[d] = "restart" => Restarted(d)'
  <2>1. UNCHANGED verb
    BY <1>4 DEF ClientStep
  <2>2. ASSUME NEW s \in Heard, NEW l \in PCs, NEW res \in Results, Quiet(c, s, l, res)
        PROVE  /\ UNCHANGED <<life, bound, report, verb>>
               /\ \A d \in Clients \ {c} : pc'[d] = pc[d] /\ code'[d] = code[d]
    BY <2>2, SMT DEF Quiet, ControlInv, TypeOK
  <2>3. ASSUME NEW s \in Answers, Query(c, s)
        PROVE  \A d \in Clients : verb'[d] = "restart" => Restarted(d)'
    <3>1. verb[c] = "restart" => \E l \in PCs, res \in Results : Onward(c, l, res)
      BY <1>2, <2>3, QueryOnward
    <3>2. \E t \in Heard, l \in PCs, res \in Results : Quiet(c, t, l, res)
      BY <2>1, <2>3, QueryIsQuiet
    <3> QED
      BY <1>2, <1>4, <2>2, <3>1, <3>2, OnwardRestart
  <2>4. ASSUME OwnStep(c)
        PROVE  \A d \in Clients : verb'[d] = "restart" => Restarted(d)'
    <3>1. verb[c] = "restart" => \E l \in PCs, res \in Results : Onward(c, l, res)
      BY <1>2, <2>4, OwnStepOnward
    <3>2. \E t \in Heard, l \in PCs, res \in Results : Quiet(c, t, l, res)
      BY <2>1, <2>4, OwnStepIsQuiet
    <3> QED
      BY <1>2, <1>4, <2>2, <3>1, <3>2, OnwardRestart
  <2>5. CASE command_monitor(c)
    BY <1>2, <1>4, <2>1, <2>5, ForkRestart
  <2>6. CASE StopOrder(c)
    BY <1>2, <1>4, <2>1, <2>6, OrderRestart
  <2> QED
    BY <1>4, <2>3, <2>4, <2>5, <2>6 DEF ClientStep, OwnStep
<1>5. ASSUME NEW m \in Monitors, Run(m), Witness
      PROVE  \A d \in Clients : verb'[d] = "restart" => Restarted(d)'
  BY <1>1, <1>2, <1>5, RunRestart
<1> QED
  BY <1>3, <1>4, <1>5 DEF Next

\* service_restart() of a simple or notify service reports success, where nothing fails,
\* only if the service was launched after a moment without a monitor: it never takes a
\* service that is about to stop for the restarted one.
THEOREM RestartIsTrue == Spec => []RestartTruth
<1>1. Init => RestartInv
  <2>1. Pending # 0
    BY SMT DEF Pending
  <2>2. ASSUME Init, NEW c \in Clients PROVE pc[c] = "idle" /\ code[c] # 0
    BY <2>1, <2>2 DEF Init
  <2> QED
    BY <2>2 DEF RestartInv, Restarted
<1>2. RestartInv => RestartTruth
  BY DEF RestartInv, Restarted, RestartTruth, Done
<1> QED
  BY <1>1, <1>2, ControlInvariance, RestartInvNext, PTL DEF Spec
=============================================================================
