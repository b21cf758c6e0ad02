----------------------------- MODULE StartLimit -----------------------------
(***************************************************************************)
(* The start-rate limiter of the service monitor: the ring of start times  *)
(* that monitor_func() keeps (monitor.c 824-838) and consults whenever it  *)
(* is about to restart the service (monitor.c 843-878).                    *)
(*                                                                         *)
(* Times are clock_usec() readings: ticks since the machine was booted,    *)
(* held in an unsigned word, so sums and differences wrap at WordSize.     *)
(* `planned' is a history variable: the start times the limiter accepted,  *)
(* oldest first.  It influences nothing.                                   *)
(***************************************************************************)
EXTENDS Integers, Sequences

CONSTANTS
    start_limit_interval,    \* StartLimitIntervalSec
    start_limit_burst,       \* StartLimitBurst, as given in the unit file
    delay,                   \* RestartSec
    MAX_START_LIMIT_BURST,   \* the cap on start_limit_burst (100 in the code)
    WordSize,                \* 2^64 in the code
    Horizon                  \* bound: the clock stops here

ASSUME LimitAssumption ==
    /\ WordSize \in Nat
    /\ Horizon \in 1..(WordSize - 1)
    /\ start_limit_interval \in 0..(WordSize - 1)
    /\ start_limit_burst \in Nat
    /\ delay \in 0..(WordSize - 1)
    /\ MAX_START_LIMIT_BURST \in Nat \ {0, 1}

VARIABLES
    clock,               \* clock_usec()
    phase,               \* where monitor_func() is: see Phases
    next_start_time,
    start_times,         \* mon.start_times, a ring
    start_time_cursor,
    planned              \* history: accepted start times

vars == <<clock, phase, next_start_time, start_times, start_time_cursor, planned>>

\* The service is up; monitor_wait() before a restart; stopped while waiting;
\* "start limit exceeded".
Phases == {"running", "waiting", "stopped", "failed"}

\* mon.start_times is allocated only for a positive interval and a burst of at
\* least two.
LimitOn == start_limit_interval > 0 /\ start_limit_burst > 1

Burst == IF start_limit_burst > MAX_START_LIMIT_BURST
         THEN MAX_START_LIMIT_BURST ELSE start_limit_burst

Slots == IF LimitOn THEN 0..(Burst - 1) ELSE {}

Word == 0..(WordSize - 1)

Advance(c) == (c + 1) % Burst
-----------------------------------------------------------------------------
\* The monitor is started at some uptime and makes its first start at once.
Init ==
    /\ clock \in 1..Horizon
    /\ phase = "running"
    /\ next_start_time = clock
    /\ start_times = [s \in Slots |-> IF s = 0 THEN clock ELSE 0]
    /\ start_time_cursor = IF LimitOn THEN Advance(0) ELSE 0
    /\ planned = <<clock>>

Tick ==
    /\ clock < Horizon
    /\ clock' = clock + 1
    /\ UNCHANGED <<phase, next_start_time, start_times, start_time_cursor, planned>>

\* Mutant of LimitExceeded: one tick short.
LimitExceededLate(next) ==
    (next - start_times[start_time_cursor]) % WordSize < start_limit_interval - 1

\* start_time_delta < start_limit_interval, in unsigned arithmetic.
LimitExceeded(next) ==
    (next - start_times[start_time_cursor]) % WordSize < start_limit_interval

\* case MS_RESTARTING, up to the call of monitor_wait().
Restart ==
    /\ phase = "running"
    /\ UNCHANGED clock
    /\ LET next == (clock + delay) % WordSize IN
       /\ next_start_time' = next
       /\ \/ /\ LimitOn /\ LimitExceeded(next)
             /\ phase' = "failed"
             /\ UNCHANGED <<start_times, start_time_cursor, planned>>
          \/ /\ ~(LimitOn /\ LimitExceeded(next))
             /\ phase' = "waiting"
             /\ planned' = Append(planned, next)
             /\ IF LimitOn
                THEN /\ start_times' = [start_times EXCEPT ![start_time_cursor] = next]
                     /\ start_time_cursor' = Advance(start_time_cursor)
                ELSE UNCHANGED <<start_times, start_time_cursor>>

\* monitor_wait() returns at the deadline; the service is started.
WaitOver ==
    /\ phase = "waiting"
    /\ clock >= next_start_time
    /\ phase' = "running"
    /\ UNCHANGED <<clock, next_start_time, start_times, start_time_cursor, planned>>

\* A stop order changes the state while monitor_wait() is polling.
StopWhileWaiting ==
    /\ phase = "waiting"
    /\ phase' = "stopped"
    /\ UNCHANGED <<clock, next_start_time, start_times, start_time_cursor, planned>>

Next == Tick \/ Restart \/ WaitOver \/ StopWhileWaiting

Spec == Init /\ [][Next]_vars
-----------------------------------------------------------------------------
TypeOK ==
    /\ clock \in 1..Horizon
    /\ phase \in Phases
    /\ next_start_time \in Word
    /\ start_times \in [Slots -> Word]
    /\ start_time_cursor \in IF LimitOn THEN Slots ELSE {0}
    /\ planned \in Seq(Word) /\ Len(planned) >= 1

\* Neither the clock nor a planned start reaches the end of the word, so the
\* unsigned arithmetic never wraps.  False only for RestartSec=infinity and the
\* like.
NoWrap == Horizon + delay < WordSize

\* The limiter does what StartLimitBurst and StartLimitIntervalSec ask for: of
\* the starts it lets through, any Burst + 1 consecutive ones span at least the
\* interval, however the service's exits, restart orders and the clock
\* interleave (the test at monitor.c 854-863 against the ring).
RateBound ==
    LimitOn /\ NoWrap =>
        \A i \in 1..Len(planned) :
            i + Burst <= Len(planned) =>
                planned[i + Burst] - planned[i] >= start_limit_interval

\* How far back in the history the slot is that lies d places behind the cursor.
Behind(d) == IF start_time_cursor >= d THEN start_time_cursor - d
             ELSE start_time_cursor - d + Burst

\* Inductive strengthening of RateBound: the ring holds the last Burst accepted
\* starts in order, ending behind the cursor, and zeroes before the first lap;
\* in particular the slot under the cursor is the start Burst starts ago.
RingIsHistory ==
    LimitOn /\ NoWrap =>
        \A d \in 1..Burst :
            start_times[Behind(d)] =
                IF d <= Len(planned) THEN planned[Len(planned) + 1 - d] ELSE 0

\* No accepted start lies further in the future than the delay, so the
\* subtraction in LimitExceeded never goes below zero.
PlannedNotAhead ==
    NoWrap => \A i \in 1..Len(planned) : planned[i] <= clock + delay

IInv == TypeOK /\ RingIsHistory /\ PlannedNotAhead /\ RateBound
=============================================================================
