-------------------------- MODULE SystemctlProofs ---------------------------
(***************************************************************************)
(* The commands of systemctl, for any number of users, services and        *)
(* arguments.                                                              *)
(***************************************************************************)
EXTENDS Systemctl, TLAPS

\* start_stop() and reload() begin with the command that was given, under one name.
Norm(c) == IF c = "reload-or-try-restart" THEN "try-reload-or-restart" ELSE c

\* What a command may have become.
Becomes(c) ==
    {Norm(c)} \cup (IF c = "reload-or-restart" \/ Norm(c) \in {"try-restart", "try-reload-or-restart"}
                    THEN {"restart"} ELSE {})
              \cup (IF Norm(c) = "try-reload-or-restart" THEN {"reload-or-restart"} ELSE {})

\* Results and exit codes.
Codes == {-1, 0, EXIT_FAILURE, NotRunning, 4, 7}

\* Commands by what they do.
Trying == {"try-restart", "try-reload-or-restart"}
Reloading == {"reload", "reload-or-restart"}
Upping == {"start", "restart", "reload-or-restart", "status"}

\* The types of the variables of a command.
UserType(u) ==
    /\ i[u] \in Nat \ {0} /\ ret[u] \in Codes /\ code[u] \in Codes \cup {Pending}
    /\ pc[u] \in Working \cup {"find", "done"}
    /\ failed[u] \in BOOLEAN /\ worked[u] \in BOOLEAN

\* How far the command is, and what has become of it.
Stage(u) ==
    /\ cmd[u] \in Becomes(given[u])
    /\ pc[u] \in {"find", "links", "status"} => cmd[u] = Norm(given[u])
    /\ pc[u] = "reload" => cmd[u] \in Reloading
    /\ pc[u] \in Working => i[u] <= Len(args[u]) /\ svc(u) \in Services
    /\ Norm(given[u]) \in Trying /\ pc[u] \in {"act", "reload"} => svc(u) \in sawup[u]

\* What the result so far says of the services that have been dealt with.
Tally(u) ==
    /\ (ret[u] = 0) <=> IF given[u] \in AnyOf THEN worked[u] ELSE ~failed[u]
    /\ ret[u] = 0 =>
        /\ given[u] \in Upping => \A n \in DOMAIN args[u] : n < i[u] => args[u][n] \in sawup[u]
        /\ given[u] = "stop" => \A n \in DOMAIN args[u] : n < i[u] => args[u][n] \in sawdown[u]
        /\ given[u] = "is-active" => Given(u) \cap sawup[u] # {}

\* A command that has ended has reported its result, or found a name missing.
Ended(u) ==
    IF pc[u] # "done" THEN code[u] = Pending
    ELSE \/ code[u] = ret[u] /\ i[u] > Len(args[u])
         \/ code[u] = EXIT_FAILURE /\ Missing \in Given(u)

UserInv(u) == UserType(u) /\ Stage(u) /\ Tally(u) /\ Ended(u)

\* The types of what the commands share.
Shapes ==
    /\ run \in [Services -> BOOLEAN]
    /\ args \in [Users -> Seq(Services \cup {Missing})]
    /\ DOMAIN cmd = Users /\ DOMAIN i = Users /\ DOMAIN ret = Users /\ DOMAIN pc = Users
    /\ DOMAIN enabled = Users /\ DOMAIN code = Users /\ DOMAIN failed = Users
    /\ DOMAIN worked = Users

SystemctlInv == Shapes /\ \A u \in Users : UserInv(u)
-----------------------------------------------------------------------------
\* What is seen of the services stays seen; and a user who is at work on a service
\* when a step begins, or when it ends, sees how the step leaves it.
LEMMA Sees ==
    ASSUME Witness, NEW u \in Users
    PROVE  /\ sawup[u] \subseteq sawup'[u] /\ sawdown[u] \subseteq sawdown'[u]
           /\ pc[u] \in Working /\ svc(u) \in Services =>
                (run'[svc(u)] => svc(u) \in sawup'[u]) /\ (~run'[svc(u)] => svc(u) \in sawdown'[u])
  BY DEF Witness

\* A conforming init script tells and does what it is asked to.
LEMMA ScriptDoes ==
    ASSUME NEW s \in Services, NEW what, NEW res \in Results, Script(s, what, res),
           run \in [Services -> BOOLEAN]
    PROVE  /\ run' \in [Services -> BOOLEAN] /\ UNCHANGED links
           /\ \A t \in Services \ {s} : run'[t] = run[t]
           /\ what \in {"status", "reload", "show"} => UNCHANGED run
           /\ res = 0 => \/ what \in {"status", "reload", "start", "restart"} /\ run'[s]
                         \/ what = "stop" /\ ~run'[s]
                         \/ what = "show"
           /\ what = "status" /\ res > 0 => ~run[s]
<1> DEFINE up == [run EXCEPT ![s] = TRUE]  down == [run EXCEPT ![s] = FALSE]
<1>1. /\ UNCHANGED run \/ run' = up \/ run' = down
      /\ what \in {"status", "reload", "show"} => UNCHANGED run
  BY DEF Script, Set
<1>2. /\ up \in [Services -> BOOLEAN] /\ down \in [Services -> BOOLEAN] /\ up[s] /\ ~down[s]
      /\ \A t \in Services \ {s} : up[t] = run[t] /\ down[t] = run[t]
  OBVIOUS
<1>3. res = 0 => \/ what \in {"status", "reload"} /\ UNCHANGED run /\ run[s]
                 \/ what \in {"start", "restart"} /\ run' = up
                 \/ what = "stop" /\ run' = down
                 \/ what = "show"
  BY DEF Script, Set, EXIT_FAILURE, NotRunning
<1>4. what = "status" /\ res > 0 => ~run[s]
  BY DEF Script, EXIT_FAILURE, NotRunning
<1>5. UNCHANGED links
  BY DEF Script
<1> HIDE DEF up, down
<1> QED
  BY <1>1, <1>2, <1>3, <1>4, <1>5

\* The indices of a sequence.
LEMMA LenDomain ==
    ASSUME NEW S, NEW q \in Seq(S), NEW n \in Nat \ {0}, n <= Len(q)
    PROVE  n \in DOMAIN q
  OBVIOUS

\* A step of another leaves a user where they were.
LEMMA Untouched ==
    ASSUME NEW v \in Users, UserInv(v), UNCHANGED <<args, given>>,
           cmd'[v] = cmd[v], i'[v] = i[v], ret'[v] = ret[v], pc'[v] = pc[v], code'[v] = code[v],
           failed'[v] = failed[v], worked'[v] = worked[v],
           sawup[v] \subseteq sawup'[v], sawdown[v] \subseteq sawdown'[v]
    PROVE  UserInv(v)'
<1>1. UserType(v)' /\ Stage(v)' /\ Ended(v)'
  BY DEF UserInv, UserType, Stage, Ended, svc, Given
<1>2. Tally(v)'
  BY DEF UserInv, Tally, Given
<1> QED
  BY <1>1, <1>2 DEF UserInv

\* The operation on a service has come to a result.
LEMMA ResultKeeps ==
    ASSUME SystemctlInv, NEW u \in Users, pc[u] \in Working, NEW res \in Codes, Result(u, res),
           Witness, UNCHANGED <<args, given>>,
           res = 0 /\ given[u] \in Upping \cup {"is-active"} => run'[svc(u)],
           res = 0 /\ given[u] = "stop" => ~run'[svc(u)]
    PROVE  UserInv(u)'
<1>1. UserInv(u) /\ Shapes /\ svc(u) \in Services /\ i[u] \in Nat /\ i[u] <= Len(args[u]) /\ args[u] \in Seq(Services \cup {Missing})
  BY DEF SystemctlInv, UserInv, Stage, Shapes, UserType
<1>2. /\ ret'[u] = IF cmd[u] \in AnyOf THEN (IF res = 0 THEN 0 ELSE ret[u]) ELSE IF res # 0 THEN res ELSE ret[u]
      /\ failed'[u] = (failed[u] \/ res # 0) /\ worked'[u] = (worked[u] \/ res = 0)
      /\ i'[u] = i[u] + 1 /\ pc'[u] = "find" /\ cmd'[u] = Norm(given[u]) /\ code'[u] = code[u]
  BY <1>1 DEF Result, Set, Shapes, Norm
<1>3. cmd[u] \in AnyOf <=> given[u] \in AnyOf
  BY <1>1 DEF UserInv, Stage, Becomes, Norm, AnyOf
<1>4. UserType(u)'
  BY <1>1, <1>2, SMTT(30) DEF UserInv, UserType
<1>5. Stage(u)' /\ Ended(u)'
  BY <1>1, <1>2, SMTT(30) DEF UserInv, Stage, Ended, Becomes, Working, Norm, Trying
<1>6. (ret'[u] = 0) <=> IF given[u] \in AnyOf THEN worked'[u] ELSE ~failed'[u]
  BY <1>1, <1>2, <1>3, Zenon DEF UserInv, Tally
<1>7. ASSUME ret'[u] = 0, given[u] \in Upping, NEW n \in DOMAIN args[u], n < i'[u]
      PROVE  args[u][n] \in sawup'[u]
  <2>1. given[u] \notin AnyOf /\ ret[u] = 0 /\ res = 0
    BY <1>2, <1>3, <1>7 DEF Upping, AnyOf
  <2>2. CASE n < i[u]
    BY <1>1, <1>7, <2>1, <2>2, Sees DEF UserInv, Tally
  <2>3. CASE n = i[u]
    BY <1>1, <1>7, <2>1, <2>3, Sees DEF svc
  <2> QED
    BY <1>1, <1>2, <1>7, <2>2, <2>3
<1>8. ASSUME ret'[u] = 0, given[u] = "stop", NEW n \in DOMAIN args[u], n < i'[u]
      PROVE  args[u][n] \in sawdown'[u]
  <2>1. given[u] \notin AnyOf /\ ret[u] = 0 /\ res = 0
    BY <1>2, <1>3, <1>8 DEF AnyOf
  <2>2. CASE n < i[u]
    BY <1>1, <1>8, <2>1, <2>2, Sees DEF UserInv, Tally
  <2>3. CASE n = i[u]
    BY <1>1, <1>8, <2>1, <2>3, Sees DEF svc
  <2> QED
    BY <1>1, <1>2, <1>8, <2>2, <2>3
<1>9. ASSUME ret'[u] = 0, given[u] = "is-active"
      PROVE  Given(u) \cap sawup'[u] # {}
  <2>1. CASE res = 0
    <3>1. svc(u) \in sawup'[u]
      BY <1>1, <1>9, <2>1, Sees
    <3>2. svc(u) \in Given(u)
      BY <1>1, LenDomain DEF svc, Given, UserInv, UserType
    <3> QED
      BY <3>1, <3>2
  <2>2. CASE res # 0
    BY <1>1, <1>2, <1>3, <1>9, <2>2, Sees DEF UserInv, Tally, AnyOf
  <2> QED
    BY <2>1, <2>2
<1> QED
  BY <1>4, <1>5, <1>6, <1>7, <1>8, <1>9 DEF UserInv, Tally, Given

\* The operation goes on.
LEMMA ProceedKeeps ==
    ASSUME SystemctlInv, NEW u \in Users, NEW to \in Working, NEW what \in Becomes(given[u]),
           Proceed(u, to, what), Witness, UNCHANGED <<args, given>>, pc[u] # "done",
           i[u] <= Len(args[u]), svc(u) \in Services,
           to \in {"links", "status"} => what = Norm(given[u]),
           to = "reload" => what \in Reloading,
           Norm(given[u]) \in Trying /\ to \in {"act", "reload"} => svc(u) \in sawup'[u]
    PROVE  UserInv(u)'
<1>1. UserInv(u) /\ Shapes
  BY DEF SystemctlInv
<1>2. pc'[u] = to /\ cmd'[u] = what /\ UNCHANGED <<i, ret, code, failed, worked>>
  BY <1>1 DEF Proceed, Set, Shapes
<1>3. UserType(u)'
  BY <1>1, <1>2 DEF UserInv, UserType
<1>4. Stage(u)'
  BY <1>1, <1>2 DEF Stage, svc, Working
<1>5. Ended(u)'
  BY <1>1, <1>2 DEF UserInv, Ended, Working
<1>6. Tally(u)'
  BY <1>1, <1>2, Sees DEF UserInv, Tally, Given
<1> QED
  BY <1>3, <1>4, <1>5, <1>6 DEF UserInv
-----------------------------------------------------------------------------
\* A step of u changes no one else's command.
Alone(u) ==
    /\ \A v \in Users \ {u} :
        /\ cmd'[v] = cmd[v] /\ i'[v] = i[v] /\ ret'[v] = ret[v] /\ pc'[v] = pc[v]
        /\ code'[v] = code[v] /\ failed'[v] = failed[v] /\ worked'[v] = worked[v]
    /\ DOMAIN cmd' = Users /\ DOMAIN i' = Users /\ DOMAIN ret' = Users /\ DOMAIN pc' = Users
    /\ DOMAIN enabled' = Users /\ DOMAIN code' = Users /\ DOMAIN failed' = Users
    /\ DOMAIN worked' = Users

\* Recording a result, or going on, is a step of the user alone.
LEMMA ResultAlone ==
    ASSUME Shapes, NEW u \in Users, NEW res, Result(u, res)
    PROVE  Alone(u)
  BY DEF Shapes, Result, Set, Alone

\* Going on to the next operation on the same service is, too.
LEMMA ProceedAlone ==
    ASSUME Shapes, NEW u \in Users, NEW to, NEW what, Proceed(u, to, what),
           \/ UNCHANGED enabled
           \/ \E b : enabled' = [enabled EXCEPT ![u] = b]
    PROVE  Alone(u)
  BY DEF Shapes, Proceed, Set, Alone

\* What a step of u has to do for the invariant.
Fine(u) == UserInv(u)' /\ Alone(u) /\ run' \in [Services -> BOOLEAN]

\* What the steps of a user have in common.
Stepping == SystemctlInv /\ Witness /\ UNCHANGED <<args, given>>

\* What is known when a step begins.
LEMMA Begun ==
    ASSUME SystemctlInv, NEW u \in Users
    PROVE  /\ UserInv(u) /\ Shapes /\ run \in [Services -> BOOLEAN]
           /\ cmd[u] \in Becomes(given[u]) /\ i[u] \in Nat \ {0}
           /\ pc[u] \in {"find", "links", "status"} => cmd[u] = Norm(given[u])
           /\ pc[u] = "reload" => cmd[u] \in Reloading
           /\ pc[u] \in Working => i[u] <= Len(args[u]) /\ svc(u) \in Services
           /\ Norm(given[u]) \in Trying /\ pc[u] \in {"act", "reload"} => svc(u) \in sawup[u]
  BY DEF SystemctlInv, UserInv, UserType, Stage, Shapes

\* service_find(): a missing service ends the command.
LEMMA FindFine ==
    ASSUME NEW u \in Users, Stepping, service_find(u)
    PROVE  Fine(u)
<1>1. UserInv(u) /\ Shapes /\ pc[u] = "find" /\ i[u] \in Nat \ {0} /\ i[u] <= Len(args[u]) /\ UNCHANGED run
  BY Begun DEF Stepping, service_find
<1>2. args[u] \in Seq(Services \cup {Missing}) /\ i[u] \in DOMAIN args[u] /\ svc(u) \in Services \cup {Missing} /\ cmd[u] = Norm(given[u])
  BY <1>1, Begun, LenDomain, SMTT(30) DEF Shapes, svc, Stepping
<1>3. CASE svc(u) = Missing
  <2>1. /\ code' = [code EXCEPT ![u] = EXIT_FAILURE] /\ pc' = [pc EXCEPT ![u] = "done"]
        /\ UNCHANGED <<cmd, i, ret, failed, worked>> /\ enabled' = [enabled EXCEPT ![u] = FALSE]
    BY <1>3 DEF service_find, Set
  <2>2. Alone(u)
    BY <1>1, <2>1 DEF Shapes, Alone
  <2>3. code'[u] = EXIT_FAILURE /\ pc'[u] = "done"
    BY <1>1, <2>1 DEF Shapes
  <2>4. UserType(u)'
    BY <1>1, <2>1, <2>3 DEF UserInv, UserType, Codes
  <2>5. Stage(u)'
    BY <1>1, <1>2, <2>1, <2>3, SMTT(30) DEF UserInv, Stage, Working, Stepping
  <2>6. Tally(u)'
    BY <1>1, <2>1, Sees DEF UserInv, Tally, Given, Stepping
  <2>7. Ended(u)'
    BY <1>2, <1>3, <2>3, SMTT(30) DEF Ended, Given, svc, Stepping
  <2> QED
    BY <1>1, <2>2, <2>4, <2>5, <2>6, <2>7 DEF Fine, UserInv, Shapes
<1>4. CASE svc(u) # Missing
  <2> DEFINE to == Dispatch(cmd[u])
  <2>1. Proceed(u, to, cmd[u]) /\ \E b : enabled' = [enabled EXCEPT ![u] = b]
    BY <1>4, Zenon DEF service_find, Set
  <2>2. to \in Working
    BY DEF Dispatch, Working
  <2>3. (to \in {"act", "reload"} => Norm(given[u]) \notin Trying) /\ (to = "reload" => cmd[u] \in Reloading)
    BY <1>2 DEF Dispatch, Trying, Asking, Reloading
  <2>4. cmd[u] \in Becomes(given[u])
    BY Begun DEF Stepping
  <2> HIDE DEF to
  <2> QED
    BY <1>1, <1>2, <1>4, <2>1, <2>2, <2>3, <2>4, ProceedAlone, ProceedKeeps, Zenon DEF Fine, Stepping, Shapes
<1> QED
  BY <1>3, <1>4

\* The loop over the arguments ends.
LEMMA ReturnFine ==
    ASSUME NEW u \in Users, Stepping, Return(u)
    PROVE  Fine(u)
<1>1. UserInv(u) /\ Shapes /\ pc[u] = "find" /\ i[u] > Len(args[u]) /\ UNCHANGED run
  BY Begun DEF Stepping, Return
<1>2. /\ code' = [code EXCEPT ![u] = ret[u]] /\ pc' = [pc EXCEPT ![u] = "done"]
      /\ UNCHANGED <<cmd, i, ret, enabled, failed, worked>>
  BY DEF Return, Set
<1>3. Alone(u) /\ code'[u] = ret[u] /\ pc'[u] = "done"
  BY <1>1, <1>2, SMTT(30) DEF Shapes, Alone
<1>4. UserType(u)' /\ Stage(u)' /\ Ended(u)'
  BY <1>1, <1>2, <1>3, SMTT(30) DEF UserInv, UserType, Stage, Ended, Working, Stepping
<1>5. Tally(u)'
  BY <1>1, <1>2, Sees, SMTT(30) DEF UserInv, Tally, Given, Stepping
<1> QED
  BY <1>1, <1>3, <1>4, <1>5 DEF Fine, UserInv, Shapes

\* The operations that only end with a result.
LEMMA ResultFine ==
    ASSUME NEW u \in Users, Stepping, pc[u] \in Working, NEW res \in Codes, Result(u, res),
           run' \in [Services -> BOOLEAN],
           res = 0 /\ given[u] \in Upping \cup {"is-active"} => run'[svc(u)],
           res = 0 /\ given[u] = "stop" => ~run'[svc(u)]
    PROVE  Fine(u)
  BY ResultKeeps, ResultAlone, SMTT(30) DEF Fine, Stepping, SystemctlInv

\* Going on to the next operation on the same service keeps the invariant, if
\* what is known of the service allows it.
LEMMA ProceedFine ==
    ASSUME NEW u \in Users, Stepping, pc[u] \in Working, NEW to \in Working, NEW what \in Becomes(given[u]),
           Proceed(u, to, what), run' \in [Services -> BOOLEAN],
           UNCHANGED enabled \/ \E b : enabled' = [enabled EXCEPT ![u] = b],
           to \in {"links", "status"} => what = Norm(given[u]),
           to = "reload" => what \in Reloading,
           Norm(given[u]) \in Trying /\ to \in {"act", "reload"} => svc(u) \in sawup'[u]
    PROVE  Fine(u)
<1>1. Shapes /\ i[u] <= Len(args[u]) /\ svc(u) \in Services /\ pc[u] # "done"
  BY Begun DEF Stepping, Working
<1> QED
  BY <1>1, ProceedKeeps, ProceedAlone DEF Fine, Stepping

\* enable, disable and is-enabled.
LEMMA LinksFine ==
    ASSUME NEW u \in Users, Stepping, EnableDisable(u) \/ IsEnabled(u)
    PROVE  Fine(u)
<1>1. pc[u] \in Working /\ pc[u] = "links" /\ UNCHANGED run /\ run' \in [Services -> BOOLEAN] /\ cmd[u] = Norm(given[u])
  BY Begun DEF Stepping, EnableDisable, IsEnabled, Working
<1>2. CASE \E res \in {0, 1} : Result(u, res) /\ cmd[u] \notin {"status"}
  <2>1. PICK res \in {0, 1} : Result(u, res)
    BY <1>2
  <2>2. res \in Codes
    BY DEF Codes, EXIT_FAILURE
  <2>3. given[u] \notin Upping \cup {"is-active", "stop"}
    BY <1>1, <1>2 DEF EnableDisable, IsEnabled, Norm, Upping
  <2> QED
    BY <1>1, <2>1, <2>2, <2>3, ResultFine
<1>3. CASE Result(u, EXIT_FAILURE)
  BY <1>1, <1>3, ResultFine, SMTT(30) DEF Codes, EXIT_FAILURE
<1>4. CASE cmd[u] = "status" /\ (\E b : enabled' = [enabled EXCEPT ![u] = b]) /\ Proceed(u, "status", "status")
  <2>1. "status" \in Working /\ "status" \in Becomes(given[u]) /\ "status" = Norm(given[u])
    BY <1>1, <1>4 DEF Working, Becomes
  <2> QED
    BY <1>1, <1>4, <2>1, ProceedFine, Zenon
<1> QED
  BY <1>1, <1>2, <1>3, <1>4 DEF EnableDisable, IsEnabled, EXIT_FAILURE, Set

\* An invocation of the script at work on the service.
LEMMA Asked ==
    ASSUME NEW u \in Users, Stepping, pc[u] \in Working, NEW what, NEW res \in Results, Script(svc(u), what, res)
    PROVE  /\ run' \in [Services -> BOOLEAN] /\ svc(u) \in Services
           /\ res = 0 => \/ what \in {"status", "reload", "start", "restart"} /\ run'[svc(u)]
                         \/ what = "stop" /\ ~run'[svc(u)]
                         \/ what = "show"
           /\ what = "status" /\ res > 0 => ~run'[svc(u)]
           /\ run'[svc(u)] => svc(u) \in sawup'[u]
<1>1. svc(u) \in Services /\ run \in [Services -> BOOLEAN]
  BY Begun DEF Stepping
<1>2. run'[svc(u)] => svc(u) \in sawup'[u]
  BY <1>1, Sees DEF Stepping
<1> QED
  BY <1>1, <1>2, ScriptDoes

\* status and is-active.
LEMMA ReportStatusFine ==
    ASSUME NEW u \in Users, Stepping, ReportStatus(u)
    PROVE  Fine(u)
<1>1. pc[u] \in Working /\ cmd[u] = Norm(given[u]) /\ cmd[u] \in {"status", "is-active"}
  BY Begun DEF ReportStatus, Stepping, Working
<1>2. PICK res \in Results :
        /\ Script(svc(u), "status", res)
        /\ Result(u, CASE res < 0 -> EXIT_FAILURE
                       [] res = 0 -> 0
                       [] OTHER   -> IF cmd[u] = "status" /\ ~enabled[u] THEN 4 ELSE NotRunning)
  BY DEF ReportStatus
<1>3. PICK n \in Codes : Result(u, n) /\ (n = 0 => res = 0)
  BY <1>2 DEF Codes, Results, EXIT_FAILURE, NotRunning
<1>4. given[u] # "stop"
  BY <1>1 DEF Norm
<1>5. run' \in [Services -> BOOLEAN] /\ (n = 0 => run'[svc(u)])
  BY <1>1, <1>2, <1>3, Asked
<1> QED
  BY <1>1, <1>3, <1>4, <1>5, ResultFine

\* start_stop(): its first look at the service.
LEMMA StartStopFine ==
    ASSUME NEW u \in Users, Stepping, StartStop(u)
    PROVE  Fine(u)
<1>1. pc[u] \in Working /\ cmd[u] = Norm(given[u]) /\ cmd[u] \in {"start", "stop", "try-restart"}
  BY Begun DEF StartStop, Stepping, Working
<1>2. given[u] = cmd[u]
  BY <1>1 DEF Norm
<1> DEFINE what == IF cmd[u] = "try-restart" THEN "restart" ELSE cmd[u]
<1>3. PICK res \in Results :
        /\ Script(svc(u), "status", res)
        /\ \/ res < 0 /\ Result(u, EXIT_FAILURE)
           \/ res >= 0 /\ (res = 0 <=> cmd[u] = "start") /\ Result(u, 0)
           \/ res >= 0 /\ ~(res = 0 <=> cmd[u] = "start") /\ UNCHANGED enabled /\ Proceed(u, "act", what)
  BY DEF StartStop, Results, EXIT_FAILURE, NotRunning
<1>4. run' \in [Services -> BOOLEAN] /\ (res = 0 => run'[svc(u)]) /\ (res > 0 => ~run'[svc(u)])
      /\ (run'[svc(u)] => svc(u) \in sawup'[u])
  BY <1>1, <1>3, Asked, SMTT(30)
<1>5. CASE Result(u, EXIT_FAILURE)
  BY <1>1, <1>4, <1>5, ResultFine DEF Codes, EXIT_FAILURE
<1>6. CASE res >= 0 /\ (res = 0 <=> cmd[u] = "start") /\ Result(u, 0)
  <2>1. CASE cmd[u] = "start"
    BY <1>1, <1>2, <1>4, <1>6, <2>1, ResultFine, Zenon DEF Codes
  <2>2. CASE cmd[u] # "start"
    <3>1. res > 0 /\ given[u] \notin Upping \cup {"is-active"}
      BY <1>1, <1>2, <1>6, <2>2 DEF Upping, Results, EXIT_FAILURE, NotRunning
    <3> QED
      BY <1>1, <1>4, <1>6, <3>1, ResultFine DEF Codes
  <2> QED
    BY <2>1, <2>2
<1>7. CASE res >= 0 /\ ~(res = 0 <=> cmd[u] = "start") /\ UNCHANGED enabled /\ Proceed(u, "act", what)
  <2>1. what \in Becomes(given[u]) /\ "act" \in Working
    BY <1>1, <1>2 DEF Becomes, Norm, Working
  <2>2. Norm(given[u]) \in Trying => res = 0
    BY <1>1, <1>2, <1>7 DEF Trying
  <2> HIDE DEF what
  <2> QED
    BY <1>1, <1>4, <1>7, <2>1, <2>2, ProceedFine
<1> QED
  BY <1>3, <1>5, <1>6, <1>7

\* reload(): its first look at the service.
LEMMA TryReloadFine ==
    ASSUME NEW u \in Users, Stepping, TryReload(u)
    PROVE  Fine(u)
<1>1. pc[u] \in Working /\ cmd[u] = Norm(given[u]) /\ cmd[u] = "try-reload-or-restart"
  BY Begun DEF TryReload, Stepping, Working
<1>2. PICK res \in Results :
        /\ Script(svc(u), "status", res)
        /\ \/ Result(u, EXIT_FAILURE)
           \/ Result(u, 0)
           \/ res = 0 /\ UNCHANGED enabled /\ Proceed(u, "reload", "reload-or-restart")
  BY DEF TryReload, Results, EXIT_FAILURE, NotRunning
<1>3. run' \in [Services -> BOOLEAN] /\ (res = 0 => svc(u) \in sawup'[u])
  BY <1>1, <1>2, Asked
<1>4. CASE Result(u, EXIT_FAILURE)
  BY <1>1, <1>3, <1>4, ResultFine DEF Codes, EXIT_FAILURE
<1>5. CASE Result(u, 0)
  <2>1. given[u] \notin Upping \cup {"is-active", "stop"}
    BY <1>1 DEF Norm, Upping
  <2> QED
    BY <1>1, <1>3, <1>5, <2>1, ResultFine DEF Codes
<1>6. CASE res = 0 /\ UNCHANGED enabled /\ Proceed(u, "reload", "reload-or-restart")
  <2>1. "reload-or-restart" \in Becomes(given[u]) \cap Reloading /\ "reload" \in Working
    BY <1>1 DEF Becomes, Working, Reloading
  <2> QED
    BY <1>1, <1>3, <1>6, <2>1, ProceedFine
<1> QED
  BY <1>2, <1>4, <1>5, <1>6

\* The action of the init script.
LEMMA ActFine ==
    ASSUME NEW u \in Users, Stepping, Act(u)
    PROVE  Fine(u)
<1>1. pc[u] \in Working /\ cmd[u] \in Becomes(given[u]) /\ cmd[u] # "show"
  BY Begun DEF Act, Stepping, Working
<1>2. PICK res \in Results :
        Script(svc(u), cmd[u], res) /\ Result(u, IF res < 0 THEN EXIT_FAILURE ELSE res)
  BY DEF Act
<1>3. PICK n \in Codes : Result(u, n) /\ (n = 0 => res = 0)
  BY <1>2 DEF Codes, Results, EXIT_FAILURE, NotRunning
<1>4. run' \in [Services -> BOOLEAN] /\ (res = 0 => \/ cmd[u] \in {"status", "reload", "start", "restart"} /\ run'[svc(u)]
                                                    \/ cmd[u] = "stop" /\ ~run'[svc(u)])
  BY <1>1, <1>2, Asked
<1>5. given[u] \in Upping \cup {"is-active"} => cmd[u] # "stop"
  BY <1>1 DEF Becomes, Norm, Upping
<1>6. given[u] = "stop" => cmd[u] = "stop"
  BY <1>1 DEF Becomes, Norm
<1> QED
  BY <1>1, <1>3, <1>4, <1>5, <1>6, ResultFine, SMTT(30)

\* show.
LEMMA ShowFine ==
    ASSUME NEW u \in Users, Stepping, Show(u)
    PROVE  Fine(u)
<1>1. pc[u] \in Working /\ cmd[u] \in Becomes(given[u]) /\ cmd[u] = "show"
  BY Begun DEF Show, Stepping, Working
<1>2. PICK res \in Results : Script(svc(u), "show", res) /\ Result(u, res)
  BY SMTT(30) DEF Show
<1>3. run' \in [Services -> BOOLEAN]
  BY <1>1, <1>2, Asked
<1>4. given[u] \notin Upping \cup {"is-active", "stop"}
  BY <1>1 DEF Becomes, Norm, Upping
<1> QED
  BY <1>1, <1>2, <1>3, <1>4, ResultFine DEF Results, Codes

\* reload(): the reload, and the restart when there is none.
LEMMA ReloadFine ==
    ASSUME NEW u \in Users, Stepping, Reload(u)
    PROVE  Fine(u)
<1>1. pc[u] \in Working /\ cmd[u] \in Becomes(given[u]) \cap Reloading
      /\ (Norm(given[u]) \in Trying => svc(u) \in sawup[u])
  BY Begun DEF Reload, Stepping, Working
<1>2. PICK res \in Results :
        /\ Script(svc(u), "reload", res)
        /\ \/ Result(u, EXIT_FAILURE)
           \/ res >= 0 /\ Result(u, res)
           \/ cmd[u] = "reload-or-restart" /\ UNCHANGED enabled /\ Proceed(u, "act", "restart")
  BY SMTT(30) DEF Reload, Results, EXIT_FAILURE, NotRunning
<1>3. run' \in [Services -> BOOLEAN] /\ (res = 0 => run'[svc(u)])
  BY <1>1, <1>2, Asked, SMTT(30)
<1>4. CASE Result(u, EXIT_FAILURE)
  BY <1>1, <1>3, <1>4, ResultFine, SMTT(30) DEF Codes, EXIT_FAILURE
<1>5. CASE res >= 0 /\ Result(u, res)
  <2>1. given[u] # "stop"
    BY <1>1, SMTT(30) DEF Becomes, Norm, Reloading
  <2> QED
    BY <1>1, <1>3, <1>5, <2>1, ResultFine, SMTT(30) DEF Results, Codes
<1>6. CASE cmd[u] = "reload-or-restart" /\ UNCHANGED enabled /\ Proceed(u, "act", "restart")
  <2>1. "restart" \in Becomes(given[u]) /\ "act" \in Working
    BY <1>1, <1>6 DEF Becomes, Norm, Working
  <2>2. sawup[u] \subseteq sawup'[u]
    BY Sees DEF Stepping
  <2> QED
    BY <1>1, <1>3, <1>6, <2>1, <2>2, ProceedFine
<1> QED
  BY <1>2, <1>4, <1>5, <1>6
-----------------------------------------------------------------------------
\* Every step of a user keeps the invariant.
LEMMA UserStepFine ==
    ASSUME NEW u \in Users, Stepping, UserStep(u)
    PROVE  Fine(u)
  BY FindFine, ReturnFine, LinksFine, ReportStatusFine, StartStopFine, TryReloadFine, ActFine,
     ShowFine, ReloadFine DEF UserStep

\* The invariant holds at the beginning.
LEMMA InitInv == Init => SystemctlInv
<1> SUFFICES ASSUME Init PROVE SystemctlInv
  OBVIOUS
<1>1. args \in [Users -> Seq(Services \cup {Missing})]
  <2>1. ASSUME NEW n \in 1..MaxArgs, NEW f \in [1..n -> Services \cup {Missing}]
        PROVE  f \in Seq(Services \cup {Missing})
    BY SystemctlAssumption
  <2>2. ASSUME NEW u \in Users
        PROVE  args[u] \in Seq(Services \cup {Missing})
    <3> DEFINE Lists == {[1..n -> Services \cup {Missing}] : n \in 1..MaxArgs}
    <3>1. args[u] \in UNION Lists
      BY DEF Init
    <3>2. PICK n \in 1..MaxArgs : args[u] \in [1..n -> Services \cup {Missing}]
      BY <3>1
    <3> QED
      BY <2>1, <3>2
  <2> QED
    BY <2>2 DEF Init
<1>2. Shapes
  BY <1>1 DEF Init, Shapes
<1>3. ASSUME NEW u \in Users
      PROVE  UserInv(u)
  <2>1. cmd[u] = Norm(given[u]) /\ i[u] = 1 /\ pc[u] = "find" /\ code[u] = Pending
        /\ failed[u] = FALSE /\ worked[u] = FALSE
    BY DEF Init, Norm
  <2>2. ret[u] = IF cmd[u] \in AnyOf THEN NotRunning ELSE 0
    BY DEF Init
  <2>3. cmd[u] \in AnyOf <=> given[u] \in AnyOf
    BY <2>1 DEF AnyOf, Norm
  <2>4. UserType(u)
    <3>1. ret[u] \in Codes /\ code[u] \in Codes \cup {Pending}
      BY <2>1, <2>2 DEF Codes
    <3>2. pc[u] \in Working \cup {"find", "done"} /\ i[u] \in Nat \ {0}
      BY <2>1
    <3> QED
      BY <2>1, <3>1, <3>2, Zenon DEF UserType
  <2>5. Stage(u) /\ Ended(u)
    BY <2>1 DEF Stage, Becomes, Ended, Working
  <2>6. Tally(u)
    <3>1. args[u] \in Seq(Services \cup {Missing})
      BY <1>1
    <3>2. \A n \in DOMAIN args[u] : ~(n < i[u])
      <4>1. DOMAIN args[u] = 1..Len(args[u]) /\ Len(args[u]) \in Nat
        BY <3>1
      <4> QED
        BY <2>1, <4>1
    <3>3. given[u] \in AnyOf => ret[u] # 0
      BY <2>2, <2>3 DEF NotRunning
    <3>4. (ret[u] = 0) <=> IF given[u] \in AnyOf THEN worked[u] ELSE ~failed[u]
      BY <2>1, <2>2, <2>3 DEF NotRunning
    <3>5. given[u] = "is-active" => given[u] \in AnyOf
      BY DEF AnyOf
    <3> QED
      BY <3>2, <3>3, <3>4, <3>5 DEF Tally
  <2> QED
    BY <2>4, <2>5, <2>6 DEF UserInv
<1> QED
  BY <1>2, <1>3 DEF SystemctlInv

\* Every step keeps it: a step of a user is fine for themself and leaves the others
\* alone, a service that ends changes no one's command.
LEMMA StepInv == SystemctlInv /\ [Next]_vars => SystemctlInv'
<1> SUFFICES ASSUME SystemctlInv, [Next]_vars PROVE SystemctlInv'
  OBVIOUS
<1>1. ASSUME NEW u \in Users, UserStep(u), Witness, UNCHANGED <<args, given>>
      PROVE  SystemctlInv'
  <2>1. Stepping
    BY <1>1 DEF Stepping
  <2>2. Fine(u)
    BY <1>1, <2>1, UserStepFine, SMTT(30)
  <2>3. Shapes'
    BY <1>1, <2>2, SMTT(30) DEF SystemctlInv, Shapes, Fine, Alone
  <2>4. ASSUME NEW v \in Users \ {u}
        PROVE  UserInv(v)'
    <3>1. UserInv(v) /\ sawup[v] \subseteq sawup'[v] /\ sawdown[v] \subseteq sawdown'[v]
      BY <1>1, Sees DEF SystemctlInv
    <3> QED
      BY <1>1, <2>2, <3>1, Untouched, SMTT(30) DEF Fine, Alone
  <2> QED
    BY <2>2, <2>3, <2>4 DEF SystemctlInv, Fine
<1>2. ASSUME NEW s \in Services, Crash(s), Witness, UNCHANGED <<args, given>>
      PROVE  SystemctlInv'
  <2>1. Shapes'
    BY <1>2 DEF SystemctlInv, Shapes, Crash, Set, locals
  <2>2. ASSUME NEW v \in Users
        PROVE  UserInv(v)'
    <3>1. UserInv(v) /\ sawup[v] \subseteq sawup'[v] /\ sawdown[v] \subseteq sawdown'[v]
      BY <1>2, Sees DEF SystemctlInv
    <3> QED
      BY <1>2, <3>1, Untouched DEF Crash, locals
  <2> QED
    BY <2>1, <2>2 DEF SystemctlInv
<1>3. CASE UNCHANGED vars
  <2>1. Shapes'
    BY <1>3 DEF SystemctlInv, Shapes, vars, locals
  <2>2. ASSUME NEW v \in Users
        PROVE  UserInv(v)'
    BY <1>3, Untouched DEF SystemctlInv, vars, locals
  <2> QED
    BY <2>1, <2>2 DEF SystemctlInv
<1> QED
  BY <1>1, <1>2, <1>3 DEF Next

\* Whatever several people ask for at a time, and however the scripts fare, the
\* state of each command agrees with what it has done.
THEOREM SystemctlCorrect == Spec => []SystemctlInv
  BY InitInv, StepInv, PTL DEF Spec

\* A command that ends with success, given any number of services, saw each one in
\* the state it asks for: start_stop(), reload() and status() report no success that
\* nobody could have observed.
THEOREM SuccessProved == Spec => []SuccessMeans
<1>1. SystemctlInv => SuccessMeans
  <2> SUFFICES ASSUME SystemctlInv, NEW u \in Users, code[u] = 0
               PROVE  /\ given[u] \in Upping => Given(u) \subseteq sawup[u]
                      /\ given[u] = "stop" => Given(u) \subseteq sawdown[u]
                      /\ given[u] = "is-active" => Given(u) \cap sawup[u] # {}
    BY DEF SuccessMeans, Upping
  <2>1. UserInv(u) /\ args[u] \in Seq(Services \cup {Missing})
    BY DEF SystemctlInv, Shapes
  <2>2. ret[u] = 0 /\ i[u] \in Nat /\ i[u] > Len(args[u])
    BY <2>1, SMTT(30) DEF UserInv, UserType, Ended, Pending, EXIT_FAILURE
  <2>3. \A n \in DOMAIN args[u] : n < i[u]
    BY <2>1, <2>2, SMTT(30)
  <2> QED
    BY <2>1, <2>2, <2>3 DEF UserInv, Tally, Given
<1> QED
  BY <1>1, SystemctlCorrect, PTL

\* The exit code over several services is zero exactly if all of the operations
\* succeeded, or one of them for is-enabled and is-active.
THEOREM CodeProved == Spec => []CodeTrue
<1>1. SystemctlInv => CodeTrue
  <2> SUFFICES ASSUME SystemctlInv, NEW u \in Users, code[u] # Pending, Missing \notin Given(u)
               PROVE  (code[u] = 0) <=> IF given[u] \in AnyOf THEN worked[u] ELSE ~failed[u]
    BY DEF CodeTrue
  <2>1. UserInv(u)
    BY DEF SystemctlInv
  <2>2. code[u] = ret[u]
    BY <2>1 DEF UserInv, Ended
  <2> QED
    BY <2>1, <2>2, SMTT(30) DEF UserInv, Tally
<1> QED
  BY <1>1, SystemctlCorrect, PTL

\* Only a script that is asked to act makes a service run.
LEMMA OnlyActs ==
    ASSUME NEW u \in Users, Stepping, UserStep(u), NEW s \in Services, run'[s], ~run[s]
    PROVE  pc[u] = "act" /\ s = svc(u)
<1>1. PICK what \in {"status", "reload", "show", cmd[u]}, res \in Results :
        Script(svc(u), what, res) /\ (pc[u] = "act" \/ what \in {"status", "reload"})
  BY Zenon DEF UserStep, service_find, Return, EnableDisable, IsEnabled, ReportStatus, StartStop,
         TryReload, Act, Show, Reload
<1>2. pc[u] \in Working
  BY Zenon DEF UserStep, service_find, Return, EnableDisable, IsEnabled, ReportStatus, StartStop,
         TryReload, Act, Show, Reload, Working
<1>3. svc(u) \in Services /\ run \in [Services -> BOOLEAN]
  BY <1>2, Begun DEF Stepping
<1> QED
  BY <1>1, <1>3, ScriptDoes

\* A try- command starts no service that was not seen running while it was at work
\* on it.
THEOREM TryProved == Spec => TryNeverStarts
<1> DEFINE Held ==
      \A u \in Users, s \in Services :
        /\ given[u] \in {"try-restart", "try-reload-or-restart", "reload-or-try-restart"}
        /\ pc'[u] # pc[u] /\ run'[s] /\ ~run[s]
        => s \in sawup[u]
<1>1. SystemctlInv /\ [Next]_vars => [Held]_vars
  <2> SUFFICES ASSUME SystemctlInv, Next, NEW u \in Users, NEW s \in Services,
                      given[u] \in {"try-restart", "try-reload-or-restart", "reload-or-try-restart"},
                      pc'[u] # pc[u], run'[s], ~run[s]
               PROVE  s \in sawup[u]
    BY SMTT(30)
  <2>1. Stepping
    BY DEF Next, Stepping
  <2>2. ASSUME NEW t \in Services, Crash(t)
        PROVE  FALSE
    BY <2>2 DEF Crash, locals
  <2>3. PICK v \in Users : UserStep(v)
    BY <2>2, SMTT(30) DEF Next
  <2>4. u = v
    BY <2>1, <2>3, UserStepFine, SMTT(30) DEF Fine, Alone
  <2>5. pc[u] = "act" /\ s = svc(u)
    BY <2>1, <2>3, <2>4, OnlyActs
  <2>6. Norm(given[u]) \in Trying
    BY DEF Norm, Trying
  <2> QED
    BY <2>1, <2>5, <2>6, Begun DEF Stepping
<1> QED
  BY <1>1, SystemctlCorrect, PTL DEF Spec, TryNeverStarts
=============================================================================
